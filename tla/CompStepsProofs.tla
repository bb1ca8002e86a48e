-------------------------- MODULE CompStepsProofs --------------------------
(* Proofs about CompSteps, for every number of slots and whatever the      *)
(* blocks and the data area are.                                           *)
EXTENDS CompSteps, TLAPS

(* A position of the ring at most once round.                              *)
Round(x) == IF x < NbBlkIdx THEN x ELSE x - NbBlkIdx

Behind == IF dropping THEN 1 ELSE 0
Ahead == IF pc \in {"fill", "offset", "count"} THEN 1 ELSE 0
Counted == nb_total_block + (IF pc = "total" THEN 1 ELSE 0)

(* The slots of the list are a stretch of the ring, from the head to the   *)
(* tail but for the slot on its way out or in, and there is room for it.   *)
Stretch ==
  /\ nb_block = Len(list)
  /\ Len(list) + Behind + Ahead <= NbBlkIdx
  /\ \A i \in 1..Len(list) : list[i] = Round(cache_idx_head + Behind + i - 1)
  /\ cache_idx_tail = Round(cache_idx_head + Behind + Len(list) + Ahead)

(* As long as nothing was removed the list starts at slot 0, and edge is   *)
(* set before the ring is full; what is left of it then is never empty     *)
(* when a slot has to be freed.                                            *)
Beginning ==
  /\ Len(list) <= Counted
  /\ Len(list) = Counted => cache_idx_head = 0 /\ ~dropping
  /\ ~edge /\ pc \notin {"lap", "dead"} => Len(list) = Counted /\ Len(list) + Ahead < NbBlkIdx
  /\ pc = "room" => edge
  /\ pc \in {"write", "slot"} /\ edge => list # <<>>

(* The same of the file when no process has it open.                       *)
AtRest ==
  /\ nb_block <= NbBlkIdx /\ nb_block <= nb_total_block
  /\ cache_idx_tail = Round(cache_idx_head + nb_block)
  /\ nb_block = nb_total_block => cache_idx_head = 0

(* Inside a load: list and edge are as they will be; the tail, the counts  *)
(* and the writing position follow, one store at a time.                   *)
SumOf(m) == IF m > 0 THEN m ELSE nb_total_block

Loaded ==
  /\ ~dropping /\ cur.left \in 0..MaxTotal
  /\ Len(list) >= 1 /\ Len(list) <= NbBlkIdx /\ Len(list) <= SumOf(cur.left)
  /\ \A i \in 1..Len(list) : list[i] = Round(cache_idx_head + i - 1)
  /\ Len(list) = SumOf(cur.left) => cache_idx_head = 0
  /\ ~edge => Len(list) = SumOf(cur.left) /\ Len(list) < NbBlkIdx
  /\ IF pc = "tail" THEN LoadEnd = Round(cache_idx_head + Len(list))
                    ELSE cache_idx_tail = Round(cache_idx_head + Len(list))
  /\ pc \in {"nb_block", "nb_total"} => cur.left > 0
  /\ IF pc \in {"tail", "nb_block"} /\ cur.left > 0 THEN MaxCount(cur.left) = Len(list)
                                                    ELSE nb_block = Len(list)
  /\ pc = "position" => nb_total_block = SumOf(cur.left)

(* Where a process has the file open and is not about to load it.          *)
Apart == {"down"} \cup Loading
InCall == {"lap", "room", "write", "slot", "fill", "offset", "count", "total"}

Types ==
  /\ cache_idx_head \in Slots /\ cache_idx_tail \in Slots
  /\ list \in Seq(Slots)
  /\ nb_block \in Nat
  /\ nb_total_block \in Nat
  /\ nb_total_block <= MaxTotal
  /\ edge \in BOOLEAN /\ dropping \in BOOLEAN
  /\ pc \in {"idle", "down", "dead"} \cup InCall \cup Loading
  /\ pc \in InCall => nb_total_block < MaxTotal
  /\ dropping => pc \in {"lap", "room", "slot"}

TornInv ==
  /\ Types
  /\ pc = "down" => AtRest
  /\ pc \in Loading => Loaded
  /\ pc \notin Apart => Stretch /\ Beginning

-----------------------------------------------------------------------------
LEMMA RoundLemma ==
  /\ NbBlkIdx \in Nat /\ NbBlkIdx >= 2 /\ Slots = 0..(NbBlkIdx - 1)
  /\ \A x \in 0..(2 * NbBlkIdx - 1) : x % NbBlkIdx = Round(x) /\ Round(x) \in Slots
<1>1. NbBlkIdx \in Nat /\ NbBlkIdx >= 2
  BY InsertionAssumption
<1>2. ASSUME NEW x \in 0..(2 * NbBlkIdx - 1)
      PROVE  x % NbBlkIdx = Round(x) /\ Round(x) \in Slots
  <2>1. CASE x < NbBlkIdx
    <3>1. x \in 0..(NbBlkIdx - 1)
      BY <1>1, <2>1
    <3>2. x % NbBlkIdx = x
      BY <1>1, <3>1
    <3> QED BY <2>1, <3>1, <3>2 DEF Round, Slots
  <2>2. CASE x >= NbBlkIdx
    <3>1. x - NbBlkIdx \in 0..(NbBlkIdx - 1)
      BY <1>1, <2>2
    <3>2. x % NbBlkIdx = x - NbBlkIdx
      BY <1>1, <3>1
    <3> QED BY <2>2, <3>1, <3>2, <1>1 DEF Round, Slots
  <2> QED BY <1>1, <2>1, <2>2
<1> QED BY <1>1, <1>2 DEF Slots

(* The uint64_t arithmetic on counters.                                    *)
LEMMA WrapLemma ==
  /\ Wrap \in Nat /\ MaxTotal \in Nat /\ Wrap > MaxTotal + NbBlkIdx
  /\ \A x \in 0..(Wrap - 1) : x % Wrap = x
  /\ \A x \in Int : x < 0 /\ x + Wrap >= 0 => x % Wrap = x + Wrap
<1>1. Wrap \in Nat /\ MaxTotal \in Nat /\ Wrap > MaxTotal + NbBlkIdx /\ NbBlkIdx \in Nat
  BY InsertionAssumption
<1>2. \A x \in 0..(Wrap - 1) : x % Wrap = x
  BY <1>1
<1>3. ASSUME NEW x \in Int, x < 0, x + Wrap >= 0
      PROVE  x % Wrap = x + Wrap
  <2>1. x + Wrap \in 0..(Wrap - 1)
    BY <1>1, <1>3
  <2> QED BY <1>1, <2>1
<1> QED BY <1>1, <1>2, <1>3

(* remove_oldest_block takes the oldest block off the list, and the head   *)
(* is one behind until it follows.                                         *)
LEMMA DropStep ==
  ASSUME TornInv, Drop, ~dropping, list # <<>>, pc \in {"lap", "room", "slot"},
         pc # "lap" => edge, pc = "slot" => Len(list) >= 2
  PROVE  TornInv'
<1>1. /\ Types /\ Stretch /\ Beginning
      /\ list' = Tail(list) /\ nb_block' = (nb_block - 1) % Wrap /\ dropping' = TRUE
      /\ UNCHANGED <<slots, cache_idx_head, cache_idx_tail, nb_total_block, data_pos_wr,
                     edge, pc, cur>>
  BY DEF TornInv, Drop, Apart, InCall, Loading
<1>2. /\ list \in Seq(Slots) /\ Len(list) \in Nat /\ Len(list) >= 1 /\ Len(list) <= NbBlkIdx
      /\ Len(list) = nb_block /\ NbBlkIdx \in Nat /\ cache_idx_head \in 0..(NbBlkIdx - 1)
      /\ nb_total_block \in Nat
  BY <1>1, RoundLemma DEF Types, Stretch, Behind, Ahead, Slots
<1>3. /\ list' \in Seq(Slots) /\ Len(list') = Len(list) - 1
      /\ \A i \in 1..Len(list') : list'[i] = list[i + 1]
  BY <1>1, <1>2
<1>4. nb_block' = Len(list')
  <2>1. nb_block - 1 \in 0..(Wrap - 1)
    BY <1>2, WrapLemma
  <2> QED BY <2>1, <1>1, <1>2, <1>3, WrapLemma
<1>5. Behind = 0 /\ Behind' = 1 /\ Ahead = 0 /\ Ahead' = 0
  BY <1>1 DEF Behind, Ahead
<1>6. Stretch'
  <2>1. ASSUME NEW i \in 1..Len(list')
        PROVE  list'[i] = Round(cache_idx_head' + 1 + i - 1)
    <3>1. i + 1 \in 1..Len(list) /\ i \in Nat
      BY <1>2, <1>3
    <3>2. list[i + 1] = Round(cache_idx_head + 0 + (i + 1) - 1)
      BY <3>1, <1>1, <1>5 DEF Stretch
    <3>3. cache_idx_head + 0 + (i + 1) - 1 = cache_idx_head' + 1 + i - 1
      BY <3>1, <1>1, <1>2
    <3> QED BY <3>2, <3>3, <1>3
  <2>2. cache_idx_tail' = Round(cache_idx_head' + 1 + Len(list') + 0)
    <3>1. cache_idx_head + 0 + Len(list) + 0 = cache_idx_head' + 1 + Len(list') + 0
      BY <1>1, <1>2, <1>3
    <3> QED BY <3>1, <1>1, <1>5 DEF Stretch
  <2> QED BY <2>1, <2>2, <1>2, <1>3, <1>4, <1>5 DEF Stretch, Round
<1>7. Beginning'
  <2>1. Counted' = Counted /\ Counted \in Nat /\ Len(list) <= Counted
    BY <1>1, <1>2 DEF Counted, Beginning
  <2>2. pc = "slot" => list' # <<>>
    BY <1>2, <1>3
  <2> QED BY <2>1, <2>2, <1>1, <1>2, <1>3 DEF Beginning
<1>8. Types'
  BY <1>1, <1>2, <1>3, <1>4 DEF Types
<1> QED BY <1>1, <1>6, <1>7, <1>8 DEF TornInv, Apart, InCall, Loading

(* A step that leaves the ring and the list as they are.                   *)
LEMMA StayStep ==
  ASSUME TornInv, pc \notin Apart, Types', Beginning', pc' \notin Apart,
         Behind' = Behind, Ahead' = Ahead,
         UNCHANGED <<list, nb_block, cache_idx_head, cache_idx_tail>>
  PROVE  TornInv'
  BY DEF TornInv, Stretch, Round, Apart, InCall, Loading

(* The head follows.                                                       *)
LEMMA AdvanceHeadStep ==
  ASSUME TornInv, AdvanceHead
  PROVE  TornInv'
<1>1. /\ dropping /\ cache_idx_head' = (cache_idx_head + 1) % NbBlkIdx /\ dropping' = FALSE
      /\ UNCHANGED <<slots, cache_idx_tail, nb_block, nb_total_block, data_pos_wr, list, edge,
                     pc, cur>>
  BY DEF AdvanceHead
<1>2. pc \in {"lap", "room", "slot"} /\ Types /\ Stretch /\ Beginning
  BY <1>1 DEF TornInv, Types, Apart, InCall, Loading
<1>3. /\ Behind = 1 /\ Behind' = 0 /\ Ahead = 0 /\ Ahead' = 0
  BY <1>1, <1>2 DEF Behind, Ahead
<1>4. /\ NbBlkIdx \in Nat /\ NbBlkIdx >= 2 /\ cache_idx_head \in 0..(NbBlkIdx - 1)
      /\ Len(list) \in Nat /\ Len(list) + 1 <= NbBlkIdx
  BY <1>2, <1>3, RoundLemma DEF Types, Stretch, Slots
<1>5. cache_idx_head' = Round(cache_idx_head + 1) /\ cache_idx_head' \in Slots
  <2>1. cache_idx_head + 1 \in 0..(2 * NbBlkIdx - 1)
    BY <1>4
  <2> QED BY <2>1, <1>1, RoundLemma
<1>6. Stretch'
  <2>1. \A x \in 0..(NbBlkIdx - 1) : Round(cache_idx_head + 1 + x) = Round(cache_idx_head' + x)
    BY <1>4, <1>5 DEF Round
  <2>2. ASSUME NEW i \in 1..Len(list)
        PROVE  list[i] = Round(cache_idx_head' + 0 + i - 1)
    <3>1. i - 1 \in 0..(NbBlkIdx - 1) /\ i \in Nat
      BY <1>4
    <3>2. list[i] = Round(cache_idx_head + 1 + i - 1)
      BY <1>2, <1>3 DEF Stretch
    <3>3. /\ cache_idx_head + 1 + i - 1 = cache_idx_head + 1 + (i - 1)
          /\ cache_idx_head' + 0 + i - 1 = cache_idx_head' + (i - 1)
      BY <3>1, <1>4, <1>5 DEF Slots
    <3> QED BY <3>1, <3>2, <3>3, <2>1
  <2>3. cache_idx_tail = Round(cache_idx_head' + 0 + Len(list) + 0)
    <3>1. Len(list) \in 0..(NbBlkIdx - 1)
      BY <1>4
    <3>2. cache_idx_tail = Round(cache_idx_head + 1 + Len(list) + 0)
      BY <1>2, <1>3 DEF Stretch
    <3>3. /\ cache_idx_head + 1 + Len(list) + 0 = cache_idx_head + 1 + Len(list)
          /\ cache_idx_head' + 0 + Len(list) + 0 = cache_idx_head' + Len(list)
      BY <1>4, <1>5 DEF Slots
    <3> QED BY <3>1, <3>2, <3>3, <2>1
  <2>4. \A i \in 1..Len(list') : list'[i] = Round(cache_idx_head' + Behind' + i - 1)
    BY <2>2, <1>1, <1>3
  <2>5. cache_idx_tail' = Round(cache_idx_head' + Behind' + Len(list') + Ahead')
    BY <2>3, <1>1, <1>3
  <2>6. nb_block' = Len(list') /\ Len(list') + Behind' + Ahead' <= NbBlkIdx
    BY <1>1, <1>2, <1>3, <1>4 DEF Stretch
  <2> QED BY <2>4, <2>5, <2>6 DEF Stretch
<1>7. Beginning' /\ Types'
  BY <1>1, <1>2, <1>3, <1>5 DEF Beginning, Types, Ahead, Counted
<1> QED BY <1>1, <1>2, <1>6, <1>7 DEF TornInv, Apart, InCall, Loading

(* What the invariant says where no removal is half done.                  *)
LEMMA AtFacts ==
  ASSUME TornInv, ~dropping, pc \notin Apart
  PROVE  /\ Types /\ Stretch /\ Beginning /\ Behind = 0
         /\ NbBlkIdx \in Nat /\ NbBlkIdx >= 2
         /\ cache_idx_head \in 0..(NbBlkIdx - 1) /\ cache_idx_tail \in 0..(NbBlkIdx - 1)
         /\ Len(list) \in Nat /\ Len(list) + Ahead <= NbBlkIdx /\ Ahead \in {0, 1}
         /\ nb_block = Len(list)
         /\ nb_total_block \in Nat /\ Counted \in Nat
         /\ \A i \in 1..Len(list) : list[i] = Round(cache_idx_head + i - 1)
         /\ cache_idx_tail = Round(cache_idx_head + Len(list) + Ahead)
<1>1. Types /\ Stretch /\ Beginning /\ Behind = 0 /\ Ahead \in {0, 1}
  BY DEF TornInv, Behind, Ahead
<1>2. /\ NbBlkIdx \in Nat /\ NbBlkIdx >= 2
      /\ cache_idx_head \in 0..(NbBlkIdx - 1) /\ cache_idx_tail \in 0..(NbBlkIdx - 1)
      /\ Len(list) \in Nat /\ nb_total_block \in Nat /\ Counted \in Nat
  BY <1>1, RoundLemma DEF Types, Slots, Counted
<1>3. \A i \in 1..Len(list) : list[i] = Round(cache_idx_head + i - 1)
  <2> SUFFICES ASSUME NEW i \in 1..Len(list) PROVE list[i] = Round(cache_idx_head + i - 1)
    OBVIOUS
  <2>1. list[i] = Round(cache_idx_head + 0 + i - 1)
    BY <1>1 DEF Stretch
  <2>2. cache_idx_head + 0 + i - 1 = cache_idx_head + i - 1
    BY <1>2
  <2> QED BY <2>1, <2>2
<1>4. cache_idx_tail = Round(cache_idx_head + Len(list) + Ahead)
  <2>1. cache_idx_head + 0 + Len(list) + Ahead = cache_idx_head + Len(list) + Ahead
    BY <1>1, <1>2
  <2> QED BY <2>1, <1>1 DEF Stretch
<1> QED BY <1>1, <1>2, <1>3, <1>4 DEF Stretch

(* A load the code gets right has loaded a block.                          *)
LEMMA DieLemma ==
  ASSUME TornInv, Die
  PROVE  pc \in {"lap", "room"} /\ pc \in InCall /\ ~dropping
<1>1. list = <<>> /\ ~dropping /\ pc \in {"lap", "room", "position"}
  BY DEF Die, At
<1>2. pc # "position"
  <2>1. pc = "position" => Len(list) >= 1
    BY DEF TornInv, Loaded, Loading
  <2> QED BY <1>1, <2>1
<1> QED BY <1>1, <1>2 DEF InCall

(* edge_cache's two loops and the write.                                   *)
LEMMA EdgeCacheStep ==
  ASSUME TornInv, LeavePreviousLap \/ Rotate \/ MakeRoom \/ RoomMade \/ Die \/ WritePart
  PROVE  TornInv'
<1>1. ~dropping /\ pc \in {"lap", "room", "write"}
  BY DieLemma DEF LeavePreviousLap, Rotate, MakeRoom, RoomMade, WritePart, At
<1>2. Types /\ Stretch /\ Beginning /\ Behind = 0 /\ Ahead = 0
  BY <1>1, AtFacts DEF Ahead, Apart, InCall, Loading
<1>3. CASE LeavePreviousLap
  BY <1>1, <1>3, DropStep DEF LeavePreviousLap, At
<1>4. CASE MakeRoom
  BY <1>1, <1>2, <1>4, DropStep DEF MakeRoom, At, Beginning
<1>5. CASE Rotate
  <2>1. /\ pc = "lap" /\ pc' = "room" /\ edge' = TRUE /\ list # <<>>
        /\ UNCHANGED <<list, nb_block, nb_total_block, cache_idx_head, cache_idx_tail, dropping>>
    BY <1>5 DEF Rotate, At
  <2>2. Behind' = 0 /\ Ahead' = 0 /\ Counted' = Counted
    BY <1>1, <2>1 DEF Behind, Ahead, Counted
  <2>3. Types' /\ Beginning'
    BY <1>1, <1>2, <2>1, <2>2 DEF Types, Beginning, Apart, InCall, Loading
  <2> QED BY <1>2, <2>1, <2>2, <2>3, StayStep DEF Apart, InCall, Loading
<1>6. CASE RoomMade
  <2>1. /\ pc = "room" /\ pc' = "write" /\ list # <<>>
        /\ UNCHANGED <<list, nb_block, nb_total_block, cache_idx_head, cache_idx_tail, edge,
                       dropping>>
    BY <1>6 DEF RoomMade, At, file
  <2>2. Behind' = 0 /\ Ahead' = 0 /\ Counted' = Counted
    BY <1>1, <2>1 DEF Behind, Ahead, Counted
  <2>3. Types' /\ Beginning'
    BY <1>1, <1>2, <2>1, <2>2 DEF Types, Beginning, Apart, InCall, Loading
  <2> QED BY <1>2, <2>1, <2>2, <2>3, StayStep DEF Apart, InCall, Loading
<1>7. CASE Die
  <2>1. /\ pc \in {"lap", "room"} /\ pc' = "dead" /\ list = <<>>
        /\ UNCHANGED <<list, nb_block, nb_total_block, cache_idx_head, cache_idx_tail, edge,
                       dropping>>
    BY <1>7, DieLemma DEF Die, file
  <2>2. Behind' = 0 /\ Ahead' = 0 /\ Counted' = Counted
    BY <1>1, <2>1 DEF Behind, Ahead, Counted
  <2>3. Types' /\ Beginning'
    BY <1>1, <1>2, <2>1, <2>2 DEF Types, Beginning, Apart, InCall, Loading
  <2> QED BY <1>2, <2>1, <2>2, <2>3, StayStep DEF Apart, InCall, Loading
<1>8. CASE WritePart
  <2>1. /\ pc = "write" /\ pc' \in {"slot", "write"}
        /\ UNCHANGED <<list, nb_block, nb_total_block, cache_idx_head, cache_idx_tail, edge,
                       dropping>>
    BY <1>8 DEF WritePart, At
  <2>2. Behind' = 0 /\ Ahead' = 0 /\ Counted' = Counted
    BY <1>1, <2>1 DEF Behind, Ahead, Counted
  <2>3. Types' /\ Beginning'
    BY <1>1, <1>2, <2>1, <2>2 DEF Types, Beginning, Apart, InCall, Loading
  <2> QED BY <1>2, <2>1, <2>2, <2>3, StayStep DEF Apart, InCall, Loading
<1> QED BY <1>3, <1>4, <1>5, <1>6, <1>7, <1>8

(* new_block_info: a slot is freed when the ring is full, taken when it is *)
(* not.                                                                    *)
LEMMA NewBlockInfoStep ==
  ASSUME TornInv, FreeSlot \/ TakeSlot
  PROVE  TornInv'
<1>1. ~dropping /\ pc = "slot"
  BY DEF FreeSlot, TakeSlot, At
<1>2. /\ Types /\ Stretch /\ Beginning /\ Behind = 0 /\ Ahead = 0
      /\ NbBlkIdx \in Nat /\ NbBlkIdx >= 2 /\ cache_idx_head \in 0..(NbBlkIdx - 1)
      /\ cache_idx_tail \in 0..(NbBlkIdx - 1) /\ Len(list) \in Nat /\ Len(list) <= NbBlkIdx
      /\ nb_block = Len(list) /\ nb_total_block \in Nat
      /\ \A i \in 1..Len(list) : list[i] = Round(cache_idx_head + i - 1)
      /\ cache_idx_tail = Round(cache_idx_head + Len(list))
  BY <1>1, AtFacts DEF Ahead, Apart, InCall, Loading
<1>3. CASE FreeSlot
  <2>1. edge /\ cache_idx_tail = cache_idx_head /\ Drop
    BY <1>3 DEF FreeSlot
  <2>2. list # <<>> /\ Len(list) > 0
    BY <1>1, <1>2, <2>1 DEF Beginning, Types
  <2>3. Len(list) >= 2
    BY <1>2, <2>1, <2>2 DEF Round
  <2> QED BY <1>1, <2>1, <2>2, <2>3, DropStep
<1>4. CASE TakeSlot
  <2>1. /\ ~(edge /\ cache_idx_tail = cache_idx_head)
        /\ edge' = (edge \/ cache_idx_tail + 1 = NbBlkIdx)
        /\ cache_idx_tail' = (cache_idx_tail + 1) % NbBlkIdx
        /\ pc' = "fill"
        /\ UNCHANGED <<cache_idx_head, nb_block, nb_total_block, list, dropping>>
    BY <1>4 DEF TakeSlot
  <2>2. Behind' = 0 /\ Ahead' = 1 /\ Counted' = Counted /\ Counted \in Nat
    BY <1>1, <1>2, <2>1 DEF Behind, Ahead, Counted
  <2>3. Len(list) + 1 <= NbBlkIdx
    <3>1. ASSUME edge, Len(list) = NbBlkIdx  PROVE FALSE
      <4>1. cache_idx_tail # cache_idx_head
        BY <2>1, <3>1
      <4>2. Round(cache_idx_head + NbBlkIdx) = cache_idx_head
        BY <1>2 DEF Round
      <4> QED BY <4>1, <4>2, <3>1, <1>2
    <3>2. CASE ~edge
      BY <3>2, <1>1, <1>2 DEF Beginning
    <3> QED BY <3>1, <3>2, <1>2
  <2>4. cache_idx_tail' = Round(cache_idx_tail + 1) /\ cache_idx_tail' \in Slots
    <3>1. cache_idx_tail + 1 \in 0..(2 * NbBlkIdx - 1)
      BY <1>2
    <3> QED BY <3>1, <2>1, RoundLemma
  <2>5. Stretch'
    <3>1. \A i \in 1..Len(list) : list[i] = Round(cache_idx_head + 0 + i - 1)
      BY <1>2 DEF Stretch
    <3>2. Round(cache_idx_tail + 1) = Round(cache_idx_head + 0 + Len(list) + 1)
      BY <1>2, <2>3 DEF Round
    <3>3. \A i \in 1..Len(list') : list'[i] = Round(cache_idx_head' + Behind' + i - 1)
      BY <3>1, <2>1, <2>2
    <3>4. cache_idx_tail' = Round(cache_idx_head' + Behind' + Len(list') + Ahead')
      BY <3>2, <2>1, <2>2, <2>4
    <3>5. nb_block' = Len(list') /\ Len(list') + Behind' + Ahead' <= NbBlkIdx
      BY <1>2, <2>1, <2>2, <2>3
    <3> QED BY <3>3, <3>4, <3>5 DEF Stretch
  <2>6. Beginning'
    <3>1. ASSUME ~edge'  PROVE Len(list) = Counted /\ Len(list) + 1 < NbBlkIdx
      <4>1. ~edge /\ cache_idx_tail + 1 # NbBlkIdx
        BY <2>1, <3>1
      <4>2. Len(list) = Counted /\ cache_idx_head = 0 /\ Len(list) < NbBlkIdx
        BY <1>1, <1>2, <4>1 DEF Beginning
      <4> QED BY <4>1, <4>2, <1>2 DEF Round
    <3> QED BY <3>1, <1>1, <1>2, <2>1, <2>2 DEF Beginning
  <2>7. Types'
    BY <1>1, <1>2, <2>1, <2>4 DEF Types, Apart, InCall, Loading
  <2> QED BY <2>1, <2>5, <2>6, <2>7 DEF TornInv, Apart, InCall, Loading
<1> QED BY <1>3, <1>4

(* new_bloc: the slot taken is the one behind the newest block, and takes  *)
(* its place in the list.                                                  *)
LEMMA NewBlocStep ==
  ASSUME TornInv, FillKey \/ FillOffset \/ CountBlock
  PROVE  TornInv'
<1>1. ~dropping /\ pc \in {"fill", "offset", "count"}
  BY DEF FillKey, FillOffset, CountBlock, At
<1>2. Types /\ Stretch /\ Beginning /\ Behind = 0 /\ Ahead = 1
  BY <1>1, AtFacts DEF Ahead, Apart, InCall, Loading
<1>3. CASE FillKey \/ FillOffset
  <2>1. /\ pc' \in {"offset", "count"}
        /\ UNCHANGED <<list, nb_block, nb_total_block, cache_idx_head, cache_idx_tail, edge,
                       dropping>>
    BY <1>3 DEF FillKey, FillOffset
  <2>2. Behind' = 0 /\ Ahead' = 1 /\ Counted' = Counted
    BY <1>1, <2>1 DEF Behind, Ahead, Counted
  <2>3. Types' /\ Beginning'
    BY <1>1, <1>2, <2>1, <2>2 DEF Types, Beginning, Apart, InCall, Loading
  <2> QED BY <1>1, <1>2, <2>1, <2>2, <2>3, StayStep DEF Apart, InCall, Loading
<1>4. CASE CountBlock
  <2>1. /\ pc = "count" /\ pc' = "total"
        /\ list' = Append(list, Taken) /\ nb_block' = (nb_block + 1) % Wrap
        /\ UNCHANGED <<cache_idx_head, cache_idx_tail, nb_total_block, edge, dropping>>
    BY <1>4 DEF CountBlock, At
  <2>2. /\ NbBlkIdx \in Nat /\ NbBlkIdx >= 2
        /\ cache_idx_head \in 0..(NbBlkIdx - 1) /\ cache_idx_tail \in 0..(NbBlkIdx - 1)
        /\ Len(list) \in Nat /\ Len(list) + 1 <= NbBlkIdx
        /\ nb_block = Len(list) /\ nb_total_block \in Nat
        /\ \A i \in 1..Len(list) : list[i] = Round(cache_idx_head + i - 1)
        /\ cache_idx_tail = Round(cache_idx_head + Len(list) + 1)
    BY <1>1, <1>2, AtFacts DEF Apart, InCall, Loading
  <2>3. Behind' = 0 /\ Ahead' = 0 /\ Counted = nb_total_block /\ Counted' = nb_total_block + 1
    BY <1>1, <2>1, <2>2 DEF Behind, Ahead, Counted
  <2>4. Taken = Round(cache_idx_head + Len(list)) /\ Taken \in Slots
    <3>1. CASE cache_idx_tail >= 1
      <4>1. cache_idx_tail - 1 \in 0..(2 * NbBlkIdx - 1)
        BY <2>2, <3>1
      <4>2. Taken = Round(cache_idx_tail - 1) /\ Taken \in Slots
        BY <4>1, RoundLemma DEF Taken
      <4> QED BY <4>2, <2>2, <3>1 DEF Round
    <3>2. CASE cache_idx_tail = 0
      <4>1. Taken = NbBlkIdx - 1
        <5>1. (0 - 1) % NbBlkIdx = NbBlkIdx - 1
          BY <2>2, SMTT(30)
        <5> QED BY <5>1, <3>2 DEF Taken
      <4>2. cache_idx_head + Len(list) + 1 = NbBlkIdx
        BY <2>2, <3>2 DEF Round
      <4> QED BY <4>1, <4>2, <2>2 DEF Round, Slots
    <3> QED BY <3>1, <3>2, <2>2
  <2>5. /\ list' \in Seq(Slots) /\ Len(list') = Len(list) + 1
        /\ \A i \in 1..Len(list) : list'[i] = list[i]
        /\ list'[Len(list) + 1] = Taken
    BY <1>2, <2>1, <2>4 DEF Types
  <2>6. nb_block' = Len(list')
    <3>1. nb_block + 1 \in 0..(Wrap - 1)
      BY <2>2, WrapLemma
    <3> QED BY <3>1, <2>1, <2>2, <2>5, WrapLemma
  <2>7. \A i \in 1..Len(list') : list'[i] = Round(cache_idx_head' + Behind' + i - 1)
    <3> SUFFICES ASSUME NEW i \in 1..Len(list')
                 PROVE  list'[i] = Round(cache_idx_head' + Behind' + i - 1)
      OBVIOUS
    <3>1. cache_idx_head' + Behind' + i - 1 = cache_idx_head + i - 1
      BY <2>1, <2>2, <2>3, <2>5
    <3>2. CASE i <= Len(list)
      BY <3>1, <3>2, <2>2, <2>5
    <3>3. CASE i = Len(list) + 1
      <4>1. cache_idx_head + i - 1 = cache_idx_head + Len(list)
        BY <3>3, <2>2
      <4> QED BY <4>1, <3>1, <3>3, <2>4, <2>5
    <3> QED BY <3>2, <3>3, <2>2, <2>5
  <2>8. cache_idx_tail' = Round(cache_idx_head' + Behind' + Len(list') + Ahead')
    <3>1. cache_idx_head' + Behind' + Len(list') + Ahead' = cache_idx_head + Len(list) + 1
      BY <2>1, <2>2, <2>3, <2>5
    <3> QED BY <3>1, <2>1, <2>2
  <2>9. Stretch'
    <3>1. Len(list') + Behind' + Ahead' <= NbBlkIdx
      BY <2>2, <2>3, <2>5
    <3> QED BY <3>1, <2>6, <2>7, <2>8 DEF Stretch
  <2>10. Beginning'
    BY <1>1, <1>2, <2>1, <2>2, <2>3, <2>5 DEF Beginning
  <2>11. Types'
    BY <1>1, <1>2, <2>1, <2>2, <2>5, <2>6 DEF Types, Apart, InCall, Loading
  <2> QED BY <2>1, <2>9, <2>10, <2>11 DEF TornInv, Apart, InCall, Loading
<1> QED BY <1>3, <1>4

(* A call that begins, and one that returns.                               *)
LEMMA BeginReturnStep ==
  ASSUME TornInv, (\E k \in Keys : Begin(k)) \/ CountTotal
  PROVE  TornInv'
<1>1. CASE \E k \in Keys : Begin(k)
  <2>1. /\ pc = "idle" /\ nb_total_block < MaxTotal
        /\ pc' \in {"lap", "room", "write"} /\ (pc' = "room" => edge)
        /\ (pc' = "write" => ~edge)
        /\ UNCHANGED <<list, nb_block, nb_total_block, cache_idx_head, cache_idx_tail, edge,
                       dropping>>
    BY <1>1 DEF Begin, file
  <2>2. ~dropping /\ Types /\ Stretch /\ Beginning
    BY <2>1 DEF TornInv, Types, Apart, InCall, Loading
  <2>3. Behind' = Behind /\ Ahead = 0 /\ Ahead' = 0 /\ Counted' = Counted
    BY <2>1 DEF Behind, Ahead, Counted
  <2>4. Types' /\ Beginning'
    BY <2>1, <2>2, <2>3 DEF Types, Beginning, Apart, InCall, Loading
  <2> QED BY <2>1, <2>3, <2>4, StayStep DEF Apart, InCall, Loading
<1>2. CASE CountTotal
  <2>1. /\ pc = "total" /\ ~dropping /\ pc' = "idle" /\ nb_total_block' = nb_total_block + 1
        /\ UNCHANGED <<list, nb_block, cache_idx_head, cache_idx_tail, edge, dropping>>
    BY <1>2 DEF CountTotal, At
  <2>2. /\ Types /\ Stretch /\ Beginning /\ nb_total_block \in Nat /\ MaxTotal \in Nat
        /\ nb_total_block < MaxTotal
    BY <2>1, WrapLemma DEF TornInv, Types, Apart, InCall, Loading
  <2>3. Behind' = Behind /\ Ahead = 0 /\ Ahead' = 0 /\ Counted' = Counted
    BY <2>1, <2>2 DEF Behind, Ahead, Counted
  <2>4. Types' /\ Beginning'
    BY <2>1, <2>2, <2>3 DEF Types, Beginning, Apart, InCall, Loading
  <2> QED BY <2>1, <2>3, <2>4, StayStep DEF Apart, InCall, Loading
<1> QED BY <1>1, <1>2

(* The cache is closed: what the file says is what the list said.          *)
LEMMA CloseStep ==
  ASSUME TornInv, CompClose
  PROVE  TornInv'
<1>1. /\ pc = "idle" /\ list' = <<>> /\ edge' = FALSE /\ pc' = "down" /\ dropping' = FALSE
      /\ UNCHANGED <<cache_idx_head, cache_idx_tail, nb_block, nb_total_block>>
  BY DEF CompClose, CompEnd, file
<1>2. ~dropping /\ Ahead = 0 /\ Counted = nb_total_block /\ Types
  BY <1>1 DEF TornInv, Types, Ahead, Counted
<1>3. /\ Beginning /\ cache_idx_head \in 0..(NbBlkIdx - 1) /\ NbBlkIdx \in Nat
      /\ nb_block = Len(list) /\ Len(list) \in Nat /\ Len(list) <= NbBlkIdx
      /\ cache_idx_tail = Round(cache_idx_head + Len(list))
  BY <1>1, <1>2, AtFacts DEF Apart, InCall, Loading
<1>4. AtRest
  BY <1>2, <1>3 DEF AtRest, Beginning
<1>5. AtRest'
  BY <1>1, <1>4 DEF AtRest, Round
<1>6. Types'
  <2>1. list' \in Seq(Slots)
    BY <1>1
  <2> QED BY <1>1, <1>2, <2>1 DEF Types, Apart, InCall, Loading
<1> QED BY <1>1, <1>5, <1>6 DEF TornInv, Apart, InCall, Loading

-----------------------------------------------------------------------------
(* The slots comp_load_dre_cache walks over are those of the live blocks.  *)
LEMMA RingLemma ==
  ASSUME Types, AtRest, nb_block > 0
  PROVE  /\ Len(RingOrder) = nb_block
         /\ \A i \in 1..nb_block : RingOrder[i] = Round(cache_idx_head + i - 1)
         /\ RingOrder \in Seq(Slots)
<1> DEFINE n == IF cache_idx_head < cache_idx_tail
                  THEN cache_idx_tail - cache_idx_head
                  ELSE NbBlkIdx - cache_idx_head + cache_idx_tail
<1>1. /\ NbBlkIdx \in Nat /\ NbBlkIdx >= 2 /\ Slots = 0..(NbBlkIdx - 1)
      /\ cache_idx_head \in 0..(NbBlkIdx - 1) /\ cache_idx_tail \in 0..(NbBlkIdx - 1)
      /\ nb_block \in Nat /\ nb_block <= NbBlkIdx
      /\ cache_idx_tail = Round(cache_idx_head + nb_block)
  BY RoundLemma DEF Types, AtRest
<1>2. n = nb_block
  BY <1>1 DEF Round
<1>3. RingOrder = [i \in 1..nb_block |-> (cache_idx_head + i - 1) % NbBlkIdx]
  BY <1>2 DEF RingOrder
<1>4. ASSUME NEW i \in 1..nb_block
      PROVE  /\ (cache_idx_head + i - 1) % NbBlkIdx = Round(cache_idx_head + i - 1)
             /\ (cache_idx_head + i - 1) % NbBlkIdx \in Slots
  <2>1. cache_idx_head + i - 1 \in 0..(2 * NbBlkIdx - 1)
    BY <1>1
  <2> QED BY <2>1, RoundLemma
<1> HIDE DEF n
<1>5. RingOrder \in Seq(Slots) /\ Len(RingOrder) = nb_block
  BY <1>1, <1>3, <1>4
<1> QED BY <1>3, <1>4, <1>5

(* How many blocks comp_load_dre_cache keeps, and where it finds them, for *)
(* the reloads the code gets right.                                        *)
LEMMA LoadFacts ==
  ASSUME TornInv, NEW m \in 0..MaxTotal, LoadIsSound(m), CompLoad(m)
  PROVE  /\ LoadCount(m) \in 1..nb_block
         /\ SumOf(m) \in Nat /\ SumOf(m) <= nb_total_block
         /\ SumOf(m) - LoadCount(m) = nb_total_block - nb_block
         /\ LoadCount(m) = IF m > 0 THEN MaxCount(m) ELSE nb_block
         /\ LoadEnd' = Round(cache_idx_head + LoadCount(m))
         /\ Len(list') = LoadCount(m) /\ list' \in Seq(Slots)
         /\ \A i \in 1..Len(list') : list'[i] = Round(cache_idx_head + i - 1)
<1> DEFINE count == LoadCount(m)
<1>1. /\ pc = "down" /\ pc' = "tail"
      /\ list' = SubSeq(RingOrder, 1, count)
      /\ UNCHANGED <<cache_idx_head, cache_idx_tail, nb_block, nb_total_block, dropping>>
  BY DEF CompLoad, file
<1>2. Types /\ AtRest /\ nb_block > 0 /\ m <= nb_total_block
  BY <1>1 DEF TornInv, LoadIsSound
<1>3. /\ NbBlkIdx \in Nat /\ NbBlkIdx >= 2 /\ Slots = 0..(NbBlkIdx - 1)
      /\ cache_idx_head \in 0..(NbBlkIdx - 1) /\ cache_idx_tail \in 0..(NbBlkIdx - 1)
      /\ nb_block \in Nat /\ nb_block <= NbBlkIdx /\ nb_block <= nb_total_block
      /\ nb_total_block \in Nat /\ nb_total_block <= MaxTotal /\ MaxTotal \in Nat /\ m \in Nat
      /\ cache_idx_tail = Round(cache_idx_head + nb_block)
      /\ nb_block = nb_total_block => cache_idx_head = 0
  BY <1>2, RoundLemma, WrapLemma DEF Types, AtRest
<1>4. /\ Len(RingOrder) = nb_block /\ RingOrder \in Seq(Slots)
      /\ \A i \in 1..nb_block : RingOrder[i] = Round(cache_idx_head + i - 1)
  BY <1>2, RingLemma
<1>5. ASSUME m > 0
      PROVE  MaxCount(m) = nb_block - (nb_total_block - m) /\ MaxCount(m) \in 1..nb_block
  <2>1. MaxCount(m) \in 1..nb_block
    BY <1>4, <1>5 DEF LoadIsSound
  <2>2. CASE nb_block - (nb_total_block - m) >= 0
    <3>1. nb_block - (nb_total_block - m) \in 0..(Wrap - 1)
      BY <2>2, <1>2, <1>3, WrapLemma
    <3> QED BY <2>1, <3>1, WrapLemma DEF MaxCount
  <2>3. CASE nb_block - (nb_total_block - m) < 0
    <3>1. /\ nb_block - (nb_total_block - m) + Wrap >= 0
          /\ nb_block - (nb_total_block - m) + Wrap > nb_block
          /\ nb_block - (nb_total_block - m) \in Int
      BY <1>2, <1>3, WrapLemma
    <3>2. MaxCount(m) = nb_block - (nb_total_block - m) + Wrap
      BY <2>3, <3>1, WrapLemma DEF MaxCount
    <3> QED BY <2>1, <3>1, <3>2, <1>3
  <2> QED BY <2>2, <2>3, <1>2, <1>3
<1>6. count = IF m > 0 THEN MaxCount(m) ELSE nb_block
  BY <1>3, <1>4, <1>5 DEF LoadCount
<1>7. /\ count \in 1..nb_block /\ SumOf(m) \in Nat /\ SumOf(m) <= nb_total_block
      /\ SumOf(m) - count = nb_total_block - nb_block
  <2>1. CASE m = 0
    BY <2>1, <1>2, <1>3, <1>6 DEF SumOf
  <2>2. CASE m > 0
    BY <2>2, <1>2, <1>3, <1>5, <1>6 DEF SumOf
  <2> QED BY <2>1, <2>2, <1>3
<1>8. /\ Len(list') = count /\ list' \in Seq(Slots)
      /\ \A i \in 1..Len(list') : list'[i] = Round(cache_idx_head + i - 1)
  <2>1. count \in Nat /\ count <= Len(RingOrder)
    BY <1>3, <1>4, <1>7
  <2>2. Len(list') = count /\ \A i \in 1..count : list'[i] = RingOrder[i]
    BY <2>1, <1>1, <1>4
  <2>3. list' \in Seq(Slots)
    BY <2>1, <1>1, <1>4
  <2>4. ASSUME NEW i \in 1..Len(list')  PROVE list'[i] = Round(cache_idx_head + i - 1)
    <3>1. i \in 1..count /\ i \in 1..nb_block
      BY <2>2, <1>3, <1>7
    <3> QED BY <3>1, <2>2, <1>4
  <2> QED BY <2>2, <2>3, <2>4
<1>9. LoadEnd' = Round(cache_idx_head + count)
  <2>1. LoadEnd' = IF cache_idx_head < cache_idx_tail THEN cache_idx_head + count
                   ELSE IF count > NbBlkIdx - cache_idx_head
                     THEN count - (NbBlkIdx - cache_idx_head) ELSE 0
    BY <1>1, <1>8 DEF LoadEnd
  <2>2. count \in Nat /\ count >= 1 /\ count <= nb_block
    BY <1>3, <1>7
  <2>3. CASE cache_idx_head < cache_idx_tail
    BY <2>1, <2>2, <2>3, <1>3 DEF Round
  <2>4. CASE ~(cache_idx_head < cache_idx_tail)
    <3>1. count >= NbBlkIdx - cache_idx_head
      <4>1. CASE m > 0
        BY <2>4, <4>1, <1>6 DEF LoadIsSound
      <4>2. CASE ~(m > 0)
        BY <2>4, <4>2, <1>2, <1>3, <1>6 DEF Round
      <4> QED BY <4>1, <4>2
    <3> HIDE DEF count
    <3> QED BY <2>1, <2>2, <2>4, <3>1, <1>3 DEF Round
  <2> QED BY <2>3, <2>4
<1> QED BY <1>6, <1>7, <1>8, <1>9

(* comp_load_dre_cache, for the reloads the code gets right: it begins, ...*)
LEMMA LoadStep ==
  ASSUME TornInv, NEW m \in 0..MaxTotal, LoadIsSound(m), CompLoad(m)
  PROVE  TornInv'
<1> DEFINE count == LoadCount(m)
<1>1. /\ pc = "down" /\ pc' = "tail" /\ cur' = [NoBlock EXCEPT !.left = m]
      /\ edge' = (nb_total_block > nb_block)
      /\ UNCHANGED <<cache_idx_head, cache_idx_tail, nb_block, nb_total_block, dropping>>
  BY DEF CompLoad, file
<1>2. Types /\ AtRest /\ ~dropping /\ cur'.left = m
  BY <1>1 DEF TornInv, Types, InCall, NoBlock
<1>3. /\ NbBlkIdx \in Nat /\ nb_block \in Nat /\ nb_block <= NbBlkIdx
      /\ nb_block <= nb_total_block /\ nb_total_block \in Nat
      /\ nb_block = nb_total_block => cache_idx_head = 0
      /\ ~(nb_block = NbBlkIdx /\ nb_total_block = NbBlkIdx)
  BY <1>2, RoundLemma DEF Types, AtRest, LoadIsSound
<1>4. /\ count \in 1..nb_block /\ SumOf(m) \in Nat
      /\ SumOf(m) - count = nb_total_block - nb_block
      /\ count = IF m > 0 THEN MaxCount(m) ELSE nb_block
      /\ LoadEnd' = Round(cache_idx_head + count)
      /\ Len(list') = count /\ list' \in Seq(Slots)
      /\ \A i \in 1..Len(list') : list'[i] = Round(cache_idx_head + i - 1)
  BY LoadFacts
<1>6. /\ count \in Nat /\ count >= 1 /\ count <= nb_block
      /\ count = SumOf(m) => nb_total_block = nb_block
      /\ nb_total_block = nb_block => count = SumOf(m) /\ count < NbBlkIdx
  BY <1>3, <1>4
<1>7. ~edge' => count = SumOf(m) /\ count < NbBlkIdx
  <2>1. CASE nb_total_block > nb_block
    <3>1. edge' = TRUE
      BY <1>1, <2>1
    <3> QED BY <3>1
  <2>2. CASE ~(nb_total_block > nb_block)
    BY <1>3, <1>6, <2>2
  <2> QED BY <2>1, <2>2
<1> HIDE DEF count
<1>8. Loaded'
  <2>1. SumOf(cur.left)' = SumOf(m) /\ MaxCount(cur.left)' = MaxCount(m)
    BY <1>1, <1>2 DEF SumOf, MaxCount
  <2>2. /\ Len(list') >= 1 /\ Len(list') <= NbBlkIdx /\ Len(list') <= SumOf(m)
        /\ Len(list') = SumOf(m) => cache_idx_head = 0
    BY <1>3, <1>4, <1>6
  <2>3. IF m > 0 THEN MaxCount(m) = Len(list') ELSE nb_block = Len(list')
    BY <1>4
  <2>4. ~edge' => Len(list') = SumOf(m) /\ Len(list') < NbBlkIdx
    BY <1>4, <1>7
  <2> QED BY <2>1, <2>2, <2>3, <2>4, <1>1, <1>2, <1>4 DEF Loaded
<1>9. Types'
  <2>1. edge' \in BOOLEAN
    BY <1>1
  <2> QED BY <2>1, <1>1, <1>2, <1>4 DEF Types, InCall, Loading
<1> QED BY <1>1, <1>8, <1>9 DEF TornInv, Loading, Apart

(* ... and stores what is to be stored.                                    *)
LEMMA LoadStoreStep ==
  ASSUME TornInv, LoadStore
  PROVE  TornInv'
<1>1. pc \in Loading
  BY DEF LoadStore, StoreTail, StoreNbBlock, StoreNbTotal, StorePosition, Loading
<1>2. Types /\ Loaded
  BY <1>1 DEF TornInv
<1>3. /\ NbBlkIdx \in Nat /\ NbBlkIdx >= 2 /\ Slots = 0..(NbBlkIdx - 1)
      /\ cache_idx_head \in 0..(NbBlkIdx - 1) /\ list \in Seq(Slots) /\ Len(list) \in Nat
      /\ ~dropping /\ Len(list) >= 1 /\ Len(list) <= NbBlkIdx
      /\ nb_block \in Nat /\ nb_total_block \in Nat
  BY <1>2, RoundLemma DEF Types, Loaded
<1>4. CASE StoreTail
  <2>1. /\ pc = "tail" /\ cache_idx_tail' = LoadEnd
        /\ pc' = IF cur.left > 0 THEN "nb_block" ELSE "position"
        /\ UNCHANGED <<cache_idx_head, nb_block, nb_total_block, list, edge, dropping, cur>>
    BY <1>4 DEF StoreTail
  <2>2. cache_idx_tail' = Round(cache_idx_head + Len(list))
    BY <2>1, <1>2 DEF Loaded
  <2>3. cache_idx_tail' \in Slots
    <3>1. cache_idx_head + Len(list) \in 0..(2 * NbBlkIdx - 1)
      BY <1>3
    <3> QED BY <2>2, <3>1, RoundLemma
  <2>4. SumOf(cur.left)' = SumOf(cur.left) /\ MaxCount(cur.left)' = MaxCount(cur.left)
    BY <2>1 DEF SumOf, MaxCount
  <2>5. Loaded'
    <3>1. cur.left \in Nat
      BY <1>2 DEF Loaded
    <3>2. pc' = "position" => nb_total_block = SumOf(cur.left)
      BY <2>1, <3>1 DEF SumOf
    <3>3. pc' = "nb_block" => cur.left > 0
      BY <2>1
    <3>4. pc' \in {"nb_block", "position"} /\ (pc' = "position" => ~(cur.left > 0))
      BY <2>1
    <3> QED BY <2>1, <2>2, <2>4, <3>2, <3>3, <3>4, <1>2 DEF Loaded
  <2>6. Types'
    BY <2>1, <2>3, <1>2 DEF Types, InCall, Loading
  <2> QED BY <2>1, <2>5, <2>6 DEF TornInv, Loading, Apart
<1>5. CASE StoreNbBlock
  <2>1. /\ pc = "nb_block" /\ nb_block' = MaxCount(cur.left) /\ pc' = "nb_total"
        /\ UNCHANGED <<cache_idx_head, cache_idx_tail, nb_total_block, list, edge, dropping, cur>>
    BY <1>5 DEF StoreNbBlock
  <2>2. nb_block' = Len(list) /\ cur.left > 0
    BY <2>1, <1>2 DEF Loaded
  <2>3. SumOf(cur.left)' = SumOf(cur.left)
    BY <2>1 DEF SumOf
  <2>4. Loaded'
    BY <2>1, <2>2, <2>3, <1>2 DEF Loaded
  <2>5. Types'
    BY <2>1, <2>2, <1>2, <1>3 DEF Types, InCall, Loading
  <2> QED BY <2>1, <2>4, <2>5 DEF TornInv, Loading, Apart
<1>6. CASE StoreNbTotal
  <2>1. /\ pc = "nb_total" /\ nb_total_block' = cur.left /\ pc' = "position"
        /\ UNCHANGED <<cache_idx_head, cache_idx_tail, nb_block, list, edge, dropping, cur>>
    BY <1>6 DEF StoreNbTotal
  <2>2. cur.left \in 0..MaxTotal /\ cur.left > 0
    BY <2>1, <1>2 DEF Loaded
  <2>3. SumOf(cur.left)' = SumOf(cur.left) /\ nb_total_block' = SumOf(cur.left)
    BY <2>1, <2>2 DEF SumOf
  <2>4. Loaded'
    BY <2>1, <2>2, <2>3, <1>2 DEF Loaded
  <2>5. Types'
    <3>1. cur.left \in Nat /\ cur.left <= MaxTotal
      BY <2>2, WrapLemma
    <3> QED BY <2>1, <3>1, <1>2 DEF Types, InCall, Loading
  <2> QED BY <2>1, <2>4, <2>5 DEF TornInv, Loading, Apart
<1>7. CASE StorePosition
  <2>1. /\ pc = "position" /\ pc' = "idle"
        /\ UNCHANGED <<cache_idx_head, cache_idx_tail, nb_block, nb_total_block, list, edge,
                       dropping>>
    BY <1>7 DEF StorePosition
  <2>2. /\ nb_total_block = SumOf(cur.left) /\ nb_block = Len(list)
        /\ cache_idx_tail = Round(cache_idx_head + Len(list))
        /\ \A i \in 1..Len(list) : list[i] = Round(cache_idx_head + i - 1)
        /\ Len(list) <= nb_total_block /\ (Len(list) = nb_total_block => cache_idx_head = 0)
        /\ ~edge => Len(list) = nb_total_block /\ Len(list) < NbBlkIdx
    BY <2>1, <1>2 DEF Loaded
  <2>3. Behind' = 0 /\ Ahead' = 0 /\ Counted' = nb_total_block
    BY <2>1, <1>3 DEF Behind, Ahead, Counted
  <2>4. Stretch'
    <3>1. \A i \in 1..Len(list') : list'[i] = Round(cache_idx_head' + Behind' + i - 1)
      <4> SUFFICES ASSUME NEW i \in 1..Len(list)
                   PROVE  list[i] = Round(cache_idx_head + 0 + i - 1)
        BY <2>1, <2>3
      <4>1. cache_idx_head + 0 + i - 1 = cache_idx_head + i - 1
        BY <1>3
      <4> QED BY <4>1, <2>2
    <3>2. cache_idx_tail' = Round(cache_idx_head' + Behind' + Len(list') + Ahead')
      <4>1. cache_idx_head + 0 + Len(list) + 0 = cache_idx_head + Len(list)
        BY <1>3
      <4> QED BY <4>1, <2>1, <2>2, <2>3
    <3>3. nb_block' = Len(list') /\ Len(list') + Behind' + Ahead' <= NbBlkIdx
      BY <2>1, <2>2, <2>3, <1>3
    <3> QED BY <3>1, <3>2, <3>3 DEF Stretch
  <2>5. Beginning'
    BY <2>1, <2>2, <2>3, <1>3 DEF Beginning
  <2>6. Types'
    BY <2>1, <1>2, <1>3 DEF Types, InCall, Loading
  <2> QED BY <2>1, <2>4, <2>5, <2>6 DEF TornInv, Loading
<1> QED BY <1>4, <1>5, <1>6, <1>7 DEF LoadStore

-----------------------------------------------------------------------------
(* A fresh cache.                                                          *)
LEMMA TornInit ==
  ASSUME Init
  PROVE  TornInv
<1>1. /\ cache_idx_head = 0 /\ cache_idx_tail = 0 /\ nb_block = 0 /\ nb_total_block = 0
      /\ list = <<>> /\ edge = FALSE /\ pc = "idle" /\ dropping = FALSE
  BY DEF Init, CompInit
<1>2. Behind = 0 /\ Ahead = 0 /\ Counted = 0
  BY <1>1 DEF Behind, Ahead, Counted
<1>3. Types
  <2>1. 0 \in Slots /\ 0 <= MaxTotal
    BY RoundLemma, WrapLemma
  <2>2. list \in Seq(Slots)
    BY <1>1
  <2>3. pc = "idle" /\ dropping = FALSE
    BY <1>1
  <2> QED BY <1>1, <2>1, <2>2, <2>3 DEF Types, Apart, InCall, Loading
<1>4. Stretch
  BY <1>1, <1>2, RoundLemma DEF Stretch, Round
<1>5. Beginning
  BY <1>1, <1>2, RoundLemma DEF Beginning
<1> QED BY <1>1, <1>3, <1>4, <1>5 DEF TornInv, Apart, InCall, Loading

(* A step that leaves the compressor alone.                                *)
LEMMA TornSame ==
  ASSUME TornInv, UNCHANGED compVars
  PROVE  TornInv'
<1>1. UNCHANGED <<cache_idx_head, cache_idx_tail, nb_block, nb_total_block, list, edge, pc,
                  dropping, cur>>
  BY DEF compVars, file, call
<1>2. Types' = Types /\ AtRest' = AtRest /\ Stretch' = Stretch /\ Beginning' = Beginning
  BY <1>1 DEF Types, AtRest, Stretch, Beginning, Behind, Ahead, Counted, Round
<1>3. Loaded' = Loaded
  BY <1>1 DEF Loaded, SumOf, LoadEnd, MaxCount, Round
<1> QED BY <1>1, <1>2, <1>3 DEF TornInv

LEMMA TornNext ==
  ASSUME TornInv, [Next]_vars
  PROVE  TornInv'
<1>1. CASE \E k \in Keys : Compress(k)
  BY <1>1, BeginReturnStep, TornSame DEF Compress
<1>2. CASE Continue
  BY <1>2, AdvanceHeadStep, EdgeCacheStep, NewBlockInfoStep, NewBlocStep, LoadStoreStep
     DEF Continue, InnerStep
<1>3. CASE Return
  BY <1>3, BeginReturnStep DEF Return
<1>4. CASE Close
  BY <1>4, CloseStep DEF Close
<1>5. CASE \E m \in 0..MaxTotal : Load(m)
  BY <1>5, LoadStep DEF Load
<1>6. CASE UNCHANGED vars
  BY <1>6, TornSame DEF vars
<1> QED BY <1>1, <1>2, <1>3, <1>4, <1>5, <1>6 DEF Next

(* The inductive invariant: the list is a stretch of the ring between head *)
(* and tail, at every store of a call and through those of a sound load.   *)
THEOREM TornInvariance == Spec => []TornInv
<1>1. Init => TornInv
  BY TornInit
<1>2. TornInv /\ [Next]_vars => TornInv'
  BY TornNext
<1> QED BY <1>1, <1>2, PTL DEF Spec

(* TornByOne of CompSteps, for every number of slots: between any two      *)
(* stores of a call, head, tail and nb_block in the file differ from the   *)
(* list in memory by the one block being removed or added.                 *)
THEOREM AlwaysTornByOne == Spec => []TornByOne
<1>1. ASSUME TornInv PROVE TornByOne
  <2> SUFFICES ASSUME pc \notin Apart
               PROVE  /\ nb_block = Len(list)
                      /\ \A i \in DOMAIN list :
                           list[i] = (cache_idx_head + Behind + i - 1) % NbBlkIdx
                      /\ cache_idx_tail = (cache_idx_head + Behind + Len(list) + Ahead) % NbBlkIdx
    BY DEF TornByOne, Behind, Ahead, Apart
  <2>1. Types /\ Stretch
    BY <1>1 DEF TornInv
  <2>2. /\ NbBlkIdx \in Nat /\ NbBlkIdx >= 2 /\ cache_idx_head \in 0..(NbBlkIdx - 1)
        /\ Behind \in {0, 1} /\ Ahead \in {0, 1}
        /\ Len(list) \in Nat /\ Len(list) + Behind + Ahead <= NbBlkIdx
        /\ DOMAIN list = 1..Len(list)
    <3>1. Behind \in {0, 1} /\ Ahead \in {0, 1}
      BY DEF Behind, Ahead
    <3>2. list \in Seq(Slots) /\ cache_idx_head \in Slots
      BY <2>1 DEF Types
    <3>3. Len(list) + Behind + Ahead <= NbBlkIdx
      BY <2>1 DEF Stretch
    <3> QED BY <3>1, <3>2, <3>3, RoundLemma
  <2>3. ASSUME NEW i \in DOMAIN list
        PROVE  list[i] = (cache_idx_head + Behind + i - 1) % NbBlkIdx
    <3>1. cache_idx_head + Behind + i - 1 \in 0..(2 * NbBlkIdx - 1)
      BY <2>2
    <3>2. list[i] = Round(cache_idx_head + Behind + i - 1)
      BY <2>1, <2>2 DEF Stretch
    <3> QED BY <3>1, <3>2, RoundLemma
  <2>4. cache_idx_tail = (cache_idx_head + Behind + Len(list) + Ahead) % NbBlkIdx
    <3>1. cache_idx_head + Behind + Len(list) + Ahead \in 0..(2 * NbBlkIdx - 1)
      BY <2>2
    <3>2. cache_idx_tail = Round(cache_idx_head + Behind + Len(list) + Ahead)
      BY <2>1 DEF Stretch
    <3> QED BY <3>1, <3>2, RoundLemma
  <2> QED BY <2>1, <2>3, <2>4 DEF Stretch
<1> QED BY <1>1, TornInvariance, PTL

-----------------------------------------------------------------------------
(* CompSteps implements DreCache, for every number of slots, size of data  *)
(* area and set of block lengths: the stores of a call add up to one whole *)
(* operation, and those in between change nothing that DreCache has.       *)

(* The number of the oldest block of the list.                             *)
Oldest == Counted - Len(list)

(* What the operators of DreCache say of a snapshot w of the cache.        *)
FirstOf(w) == w.total - w.nb
LiveOf(w) == FirstOf(w)..(w.total - 1)
PreviousLapOf(w) == {s \in LiveOf(w) : w.blk[s].off >= w.pos /\ w.blk[s].off # 0}
InTheWayOf(w, pos, len) == {s \in LiveOf(w) : (w.blk[s].off - pos) % Wrap < len}
RotatesOf(w, len) == w.pos + len > CacheSz
WritePosOf(w, len) == IF RotatesOf(w, len) THEN 0 ELSE w.pos
EdgingOf(w, len) == w.edge \/ RotatesOf(w, len)

(* The two loops of edge_cache, from the first block to f, and from f1 on. *)
FirstLoop(w, len, f) ==
  IF RotatesOf(w, len)
    THEN FirstOf(w)..(f - 1) \subseteq PreviousLapOf(w) /\ f \notin PreviousLapOf(w)
    ELSE f = FirstOf(w)
SecondLoop(w, len, f1, f) ==
  IF EdgingOf(w, len)
    THEN /\ f1..(f - 1) \subseteq InTheWayOf(w, WritePosOf(w, len), len)
         /\ f \notin InTheWayOf(w, WritePosOf(w, len), len)
    ELSE f = f1

(* edge_cache has left f as the oldest block, and there is one if it must. *)
Evicts(w, len, f) ==
  /\ f \in FirstOf(w)..w.total
  /\ EdgingOf(w, len) => f < w.total
  /\ \E f1 \in FirstOf(w)..f : FirstLoop(w, len, f1) /\ SecondLoop(w, len, f1, f)

(* new_block_info has freed a slot since, if it had to.                    *)
FreesSlot(w, len, f) == EdgingOf(w, len) /\ w.total - f = NbBlkIdx
AfterSlot(w, len, f) == IF FreesSlot(w, len, f) THEN f + 1 ELSE f

(* How far a call has come: was is the cache before it, len the length of  *)
(* the block, Oldest the head its removals have left so far.               *)
Written == {"slot", "fill", "offset", "count", "total"}

Removing(len) ==
  /\ pc \in {"lap", "room"} => cur.left = len
  /\ pc = "lap" =>
       /\ RotatesOf(was, len) /\ data_pos_wr = was.pos /\ edge = was.edge
       /\ FirstOf(was)..(Oldest - 1) \subseteq PreviousLapOf(was)
  /\ pc = "room" =>
       /\ data_pos_wr = WritePosOf(was, len) /\ EdgingOf(was, len)
       /\ ~RotatesOf(was, len) => edge = was.edge
       /\ \E f1 \in FirstOf(was)..Oldest :
            /\ FirstLoop(was, len, f1)
            /\ RotatesOf(was, len) => f1 < nb_total_block
            /\ f1..(Oldest - 1) \subseteq InTheWayOf(was, WritePosOf(was, len), len)

Writing(len) ==
  /\ pc \in {"write", "slot"} => edge = EdgingOf(was, len)
  /\ pc = "write" =>
       /\ Evicts(was, len, Oldest)
       /\ cur.left \in 0..len /\ data_pos_wr = WritePosOf(was, len) + (len - cur.left)
       /\ cur.left < len => cur.off = WritePosOf(was, len)
  /\ pc \in Written =>
       data_pos_wr = WritePosOf(was, len) + len /\ cur.off = WritePosOf(was, len)

Filling(len) ==
  /\ pc = "slot" => \E g \in FirstOf(was)..was.total :
       Evicts(was, len, g) /\ Oldest \in {g, AfterSlot(was, len, g)}
  /\ pc \in Written \ {"slot"} =>
       /\ edge = (EdgingOf(was, len) \/ (was.total + 1) % NbBlkIdx = 0)
       /\ \E g \in FirstOf(was)..was.total :
            Evicts(was, len, g) /\ Oldest = AfterSlot(was, len, g)
  /\ pc = "offset" => slots[nb_total_block % NbBlkIdx].key = cur.key
  /\ pc \in {"count", "total"} =>
       slots[nb_total_block % NbBlkIdx] = [key |-> cur.key, off |-> WritePosOf(was, len)]

CallBase ==
  /\ cur.key \in Keys /\ IsCached(cur.key)
  /\ was.total = nb_total_block /\ FirstOf(was) \in Nat /\ FirstOf(was) <= Oldest
  /\ was.pos \in Nat /\ was.edge \in BOOLEAN
  /\ \A s \in LiveOf(was) : was.blk[s].key # cur.key
  /\ \A s \in Oldest..(nb_total_block - 1) : was.blk[s] = slots[s % NbBlkIdx]

Calling ==
  /\ CallBase
  /\ Removing(BlkLen[cur.key]) /\ Writing(BlkLen[cur.key]) /\ Filling(BlkLen[cur.key])

(* A slot of the index file, and where the head is: block s is in slot     *)
(* s % NbBlkIdx, whether a process has the file open or not.               *)
SlotEntry == [key : Keys \cup {NoKey}, off : Nat]

RefTypes ==
  /\ slots \in [Slots -> SlotEntry]
  /\ data_pos_wr \in Nat
  /\ cur \in [key : Keys \cup {NoKey}, off : Nat, left : Int]

RefUp ==
  /\ cache_idx_head = (Oldest - Behind) % NbBlkIdx
  /\ \A s \in Oldest..(Counted - 1) : slots[s % NbBlkIdx].key \in Keys

RefDown ==
  /\ was.total = nb_total_block /\ was.nb = nb_block
  /\ cache_idx_head = FirstOf(was) % NbBlkIdx
  /\ \A s \in LiveOf(was) :
       was.blk[s] = slots[s % NbBlkIdx] /\ slots[s % NbBlkIdx].key \in Keys

(* Inside a load, the blocks are still those of when the cache was closed, *)
(* and the load is one DreCache can make of them.                          *)
RefLoading ==
  /\ was.total \in Nat /\ was.total <= MaxTotal /\ FirstOf(was) \in Nat
  /\ was.nb > 0 /\ was.nb <= NbBlkIdx /\ ~(was.nb = NbBlkIdx /\ was.total = NbBlkIdx)
  /\ cur.left <= was.total /\ (cur.left = 0 => nb_total_block = was.total)
  /\ cache_idx_head = FirstOf(was) % NbBlkIdx
  /\ \A s \in LiveOf(was) :
       was.blk[s] = slots[s % NbBlkIdx] /\ slots[s % NbBlkIdx].key \in Keys
  /\ Len(list) = SumOf(cur.left) - FirstOf(was)
  /\ cur.left > 0 =>
       \/ FirstOf(was) % NbBlkIdx < was.total % NbBlkIdx
       \/ cur.left - FirstOf(was) >= NbBlkIdx - (FirstOf(was) % NbBlkIdx)
  /\ edge = (was.total > was.nb)

RefInv ==
  /\ RefTypes
  /\ pc \notin Apart => RefUp
  /\ pc = "down" => RefDown
  /\ pc \in Loading => RefLoading
  /\ pc \in InCall => Calling

-----------------------------------------------------------------------------
(* Going round the ring.                                                   *)
LEMMA ModLemma ==
  ASSUME NEW q \in Int, NEW r \in 0..(NbBlkIdx - 1)
  PROVE  (q * NbBlkIdx + r) % NbBlkIdx = r
<1>1. NbBlkIdx \in Nat /\ NbBlkIdx > 0
  BY RoundLemma
<1> QED BY <1>1

LEMMA SlotLemma ==
  ASSUME NEW x \in Nat, NEW d \in 0..NbBlkIdx
  PROVE  /\ x % NbBlkIdx \in 0..(NbBlkIdx - 1)
         /\ (x + d) % NbBlkIdx = Round((x % NbBlkIdx) + d)
<1> DEFINE q == x \div NbBlkIdx
           r == x % NbBlkIdx
<1>1. NbBlkIdx \in Nat /\ NbBlkIdx > 0
  BY RoundLemma
<1>2. q \in Int /\ r \in 0..(NbBlkIdx - 1) /\ x = q * NbBlkIdx + r
  BY <1>1
<1> HIDE DEF q, r
<1>3. CASE r + d < NbBlkIdx
  <2>1. r + d \in 0..(NbBlkIdx - 1) /\ x + d = q * NbBlkIdx + (r + d)
    BY <1>1, <1>2, <1>3
  <2> QED BY <2>1, <1>2, <1>3, ModLemma DEF Round, r
<1>4. CASE ~(r + d < NbBlkIdx)
  <2>1. r + d - NbBlkIdx \in 0..(NbBlkIdx - 1)
        /\ x + d = (q + 1) * NbBlkIdx + (r + d - NbBlkIdx) /\ q + 1 \in Int
    BY <1>1, <1>2, <1>4
  <2>2. (x + d) % NbBlkIdx = r + d - NbBlkIdx
    BY <2>1, ModLemma
  <2>3. Round(r + d) = r + d - NbBlkIdx
    BY <1>1, <1>2, <1>4 DEF Round
  <2> QED BY <2>2, <2>3, <1>2 DEF r
<1> QED BY <1>2, <1>3, <1>4 DEF r

LEMMA DistinctLemma ==
  ASSUME NEW s \in Nat, NEW t \in Nat, s < t, t < s + NbBlkIdx
  PROVE  s % NbBlkIdx # t % NbBlkIdx
<1>1. NbBlkIdx \in Nat /\ NbBlkIdx > 0
  BY RoundLemma
<1>2. t - s \in 0..NbBlkIdx /\ s + (t - s) = t /\ 0 < t - s /\ t - s < NbBlkIdx
  BY <1>1
<1>3. s % NbBlkIdx \in 0..(NbBlkIdx - 1) /\ t % NbBlkIdx = Round((s % NbBlkIdx) + (t - s))
  BY <1>2, SlotLemma
<1> QED BY <1>1, <1>2, <1>3 DEF Round

(* The list is the live blocks, in the slots of their numbers.             *)
LEMMA OldestLemma ==
  ASSUME TornInv, RefUp, pc \notin Apart
  PROVE  /\ Oldest \in Nat /\ Counted \in Nat /\ nb_total_block \in Nat
         /\ Len(list) \in Nat /\ Counted = Oldest + Len(list) /\ nb_block = Len(list)
         /\ Behind \in {0, 1} /\ Ahead \in {0, 1} /\ Oldest - Behind \in Nat
         /\ Len(list) + Behind + Ahead <= NbBlkIdx
         /\ \A s \in Oldest..(Counted - 1) : s % NbBlkIdx \in Slots
                                            /\ list[s - Oldest + 1] = s % NbBlkIdx
         /\ cache_idx_tail = (Counted + Ahead) % NbBlkIdx
<1> DEFINE x == Oldest - Behind
<1>1. Types /\ Stretch /\ Beginning
  BY DEF TornInv
<1>2. /\ NbBlkIdx \in Nat /\ NbBlkIdx >= 2 /\ Slots = 0..(NbBlkIdx - 1)
      /\ nb_total_block \in Nat /\ Counted \in Nat /\ list \in Seq(Slots) /\ Len(list) \in Nat
      /\ Behind \in {0, 1} /\ Ahead \in {0, 1}
  BY <1>1, RoundLemma DEF Types, Counted, Behind, Ahead
<1>3. /\ nb_block = Len(list) /\ Len(list) + Behind + Ahead <= NbBlkIdx
      /\ Len(list) <= Counted /\ (Len(list) = Counted => Behind = 0)
  BY <1>1 DEF Stretch, Beginning, Behind
<1>4. Oldest \in Nat /\ Counted = Oldest + Len(list) /\ x \in Nat
  BY <1>2, <1>3 DEF Oldest
<1>5. cache_idx_head = x % NbBlkIdx
  BY DEF RefUp
<1> HIDE DEF x
<1>6. ASSUME NEW s \in Oldest..(Counted - 1)
      PROVE  s % NbBlkIdx \in Slots /\ list[s - Oldest + 1] = s % NbBlkIdx
  <2>1. s - Oldest + 1 \in 1..Len(list) /\ s - Oldest + Behind \in 0..NbBlkIdx /\ s \in Nat
    BY <1>2, <1>3, <1>4
  <2>2. x + (s - Oldest + Behind) = s
    BY <2>1, <1>2, <1>4 DEF x
  <2>3. s % NbBlkIdx = Round((x % NbBlkIdx) + (s - Oldest + Behind)) /\ x % NbBlkIdx \in Slots
    BY <2>1, <2>2, <1>2, <1>4, SlotLemma
  <2>4. list[s - Oldest + 1] = Round(cache_idx_head + Behind + (s - Oldest + 1) - 1)
    BY <2>1, <1>1 DEF Stretch
  <2>5. cache_idx_head + Behind + (s - Oldest + 1) - 1 = (x % NbBlkIdx) + (s - Oldest + Behind)
    BY <2>1, <2>3, <1>2, <1>4, <1>5
  <2>6. s % NbBlkIdx \in Slots
    BY <2>1, <1>2, SlotLemma
  <2> QED BY <2>3, <2>4, <2>5, <2>6
<1>7. cache_idx_tail = (Counted + Ahead) % NbBlkIdx
  <2>1. Behind + Len(list) + Ahead \in 0..NbBlkIdx
    BY <1>2, <1>3
  <2>2. x + (Behind + Len(list) + Ahead) = Counted + Ahead
    BY <1>2, <1>4 DEF x
  <2>3. /\ (Counted + Ahead) % NbBlkIdx = Round((x % NbBlkIdx) + (Behind + Len(list) + Ahead))
        /\ x % NbBlkIdx \in Slots
    BY <2>1, <2>2, <1>2, <1>4, SlotLemma
  <2>4. cache_idx_tail = Round(cache_idx_head + Behind + Len(list) + Ahead)
    BY <1>1 DEF Stretch
  <2>5. cache_idx_head + Behind + Len(list) + Ahead
          = (x % NbBlkIdx) + (Behind + Len(list) + Ahead)
    BY <2>3, <1>2, <1>5
  <2> QED BY <2>3, <2>4, <2>5
<1> QED BY <1>2, <1>3, <1>4, <1>6, <1>7 DEF x

-----------------------------------------------------------------------------
(* What is settled when a call begins stays so while the list only loses   *)
(* its oldest blocks.                                                      *)
LEMMA BaseStep ==
  ASSUME CallBase, Oldest \in Nat, Oldest' \in Nat, Oldest <= Oldest', nb_total_block \in Nat,
         UNCHANGED <<was, nb_total_block, slots>>, cur'.key = cur.key
  PROVE  CallBase'
<1>1. \A s \in Oldest'..(nb_total_block' - 1) : was'.blk[s] = slots'[s % NbBlkIdx]
  <2> SUFFICES ASSUME NEW s \in Oldest'..(nb_total_block' - 1)
               PROVE  was'.blk[s] = slots'[s % NbBlkIdx]
    OBVIOUS
  <2>1. s \in Oldest..(nb_total_block - 1)
    OBVIOUS
  <2> QED BY <2>1 DEF CallBase
<1>2. FirstOf(was) \in Nat /\ FirstOf(was') <= Oldest'
  BY DEF CallBase
<1> QED BY <1>1, <1>2 DEF CallBase, IsCached

(* The block remove_oldest_block takes: its number, and where it is.       *)
LEMMA HeadLemma ==
  ASSUME TornInv, RefInv, pc \in InCall, list # <<>>, Counted = nb_total_block
  PROVE  /\ CallBase /\ Oldest \in LiveOf(was) /\ Oldest < nb_total_block
         /\ slots[list[1]] = was.blk[Oldest]
         /\ nb_total_block = was.total /\ FirstOf(was) \in Nat /\ FirstOf(was) <= Oldest
<1>1. CallBase /\ RefUp /\ pc \notin Apart /\ Types
  BY DEF RefInv, Calling, InCall, TornInv, Apart, Loading
<1>2. list \in Seq(Slots) /\ Len(list) \in Nat /\ Len(list) >= 1
  BY <1>1 DEF Types
<1>3. Oldest \in Nat /\ nb_total_block \in Nat /\ Oldest < nb_total_block
  BY <1>1, <1>2, OldestLemma
<1>4. Oldest \in Oldest..(Counted - 1) /\ Oldest - Oldest + 1 = 1
  BY <1>3
<1>5. list[1] = Oldest % NbBlkIdx
  BY <1>1, <1>4, OldestLemma
<1>6. was.blk[Oldest] = slots[Oldest % NbBlkIdx]
  BY <1>1, <1>4 DEF CallBase
<1>7. was.total = nb_total_block /\ FirstOf(was) \in Nat /\ FirstOf(was) <= Oldest
  BY <1>1 DEF CallBase
<1> QED BY <1>1, <1>3, <1>5, <1>6, <1>7 DEF LiveOf

(* remove_oldest_block, whatever it is called for.                         *)
LEMMA DropRef ==
  ASSUME TornInv, TornInv', RefInv, Drop, ~dropping, list # <<>>,
         pc \in {"lap", "room", "slot"}, UNCHANGED was
  PROVE  /\ Oldest' = Oldest + 1 /\ Oldest \in LiveOf(was) /\ CallBase'
         /\ Calling' => RefInv'
<1>1. /\ list' = Tail(list) /\ dropping' = TRUE
      /\ UNCHANGED <<slots, cache_idx_head, cache_idx_tail, nb_total_block, data_pos_wr,
                     edge, pc, cur, was>>
  BY DEF Drop
<1>2. Types /\ nb_total_block \in Nat
  BY DEF TornInv, Types
<1>3. /\ pc \in InCall /\ pc \notin Apart /\ RefUp /\ RefTypes /\ Calling
      /\ Counted = nb_total_block /\ Counted' = Counted /\ Behind = 0 /\ Behind' = 1
  BY <1>1, <1>2 DEF InCall, RefInv, Counted, Behind, Apart, Loading
<1>4. list \in Seq(Slots) /\ Len(list) \in Nat /\ Len(list) >= 1 /\ Len(list') = Len(list) - 1
  BY <1>1, <1>2 DEF Types
<1>5. Oldest \in Nat /\ nb_total_block \in Nat
  BY <1>3, OldestLemma
<1>6. Oldest' = Oldest + 1
  BY <1>3, <1>4, <1>5 DEF Oldest
<1>7. CallBase /\ Oldest \in LiveOf(was)
  BY <1>3, HeadLemma
<1>8. CallBase'
  BY <1>1, <1>5, <1>6, <1>7, BaseStep
<1>9. RefUp'
  <2>1. cache_idx_head' = (Oldest' - Behind') % NbBlkIdx
    <3>1. Oldest' - Behind' = Oldest - Behind
      BY <1>3, <1>5, <1>6
    <3> QED BY <3>1, <1>1, <1>3 DEF RefUp
  <2>2. ASSUME NEW s \in Oldest'..(Counted' - 1)
        PROVE  slots'[s % NbBlkIdx].key \in Keys
    <3>1. s \in Oldest..(Counted - 1)
      BY <1>3, <1>5, <1>6
    <3> QED BY <3>1, <1>1, <1>3 DEF RefUp
  <2> QED BY <2>1, <2>2 DEF RefUp
<1>10. RefTypes'
  BY <1>1, <1>3 DEF RefTypes, SlotEntry, Slots
<1> QED BY <1>1, <1>3, <1>6, <1>7, <1>8, <1>9, <1>10 DEF RefInv, Apart, InCall, Loading

(* A step that leaves the blocks alone.                                    *)
LEMMA StayRef ==
  ASSUME TornInv, RefInv, pc \in InCall \ {"total"}, pc' \notin {"total"} \cup Apart,
         UNCHANGED <<was, slots, cache_idx_head, list, nb_total_block, dropping>>,
         cur'.key = cur.key, data_pos_wr' \in Nat,
         cur' \in [key : Keys \cup {NoKey}, off : Nat, left : Int]
  PROVE  /\ Oldest \in Nat /\ Oldest' = Oldest /\ CallBase'
         /\ (pc' \in InCall => Calling') => RefInv'
<1>1. /\ pc \in InCall /\ pc \notin Apart /\ RefUp /\ RefTypes /\ CallBase
      /\ nb_total_block \in Nat /\ pc # "total"
  BY DEF InCall, RefInv, Calling, TornInv, Types, Apart, Loading
<1>2. Counted = nb_total_block /\ Counted' = Counted /\ Behind' = Behind
  BY <1>1 DEF Counted, Behind
<1>3. Oldest \in Nat /\ Oldest' = Oldest
  BY <1>1, <1>2, OldestLemma DEF Oldest
<1>4. CallBase'
  BY <1>1, <1>3, BaseStep
<1>5. RefUp'
  BY <1>1, <1>2, <1>3 DEF RefUp
<1>6. RefTypes'
  BY <1>1 DEF RefTypes, SlotEntry, Slots
<1> QED BY <1>3, <1>4, <1>5, <1>6 DEF RefInv, Apart, InCall, Loading

LEMMA AdvanceHeadRef ==
  ASSUME TornInv, TornInv', RefInv, AdvanceHead, UNCHANGED was
  PROVE  RefInv'
<1>1. /\ dropping /\ dropping' = FALSE /\ cache_idx_head' = (cache_idx_head + 1) % NbBlkIdx
      /\ UNCHANGED <<slots, cache_idx_tail, nb_block, nb_total_block, data_pos_wr, list, edge,
                     pc, cur, was>>
  BY DEF AdvanceHead
<1>2. pc \in {"lap", "room", "slot"} /\ nb_total_block \in Nat
  BY <1>1 DEF TornInv, Types
<1>3. pc \in InCall /\ pc \notin Apart /\ RefUp /\ RefTypes /\ Calling
  BY <1>2 DEF RefInv, InCall, Apart, Loading
<1>4. Behind = 1 /\ Behind' = 0 /\ Counted' = Counted
  BY <1>1 DEF Behind, Counted
<1>5. Oldest \in Nat /\ Oldest - 1 \in Nat
  BY <1>3, <1>4, OldestLemma
<1>6. Oldest' = Oldest
  BY <1>1, <1>4 DEF Oldest
<1>7. cache_idx_head' = (Oldest' - Behind') % NbBlkIdx
  <2>1. /\ NbBlkIdx \in Nat /\ NbBlkIdx >= 2
        /\ cache_idx_head = (Oldest - 1) % NbBlkIdx /\ 1 \in 0..NbBlkIdx
    BY <1>3, <1>4, RoundLemma DEF RefUp
  <2>2. /\ cache_idx_head \in 0..(NbBlkIdx - 1)
        /\ (Oldest - 1 + 1) % NbBlkIdx = Round(cache_idx_head + 1)
    BY <2>1, <1>5, SlotLemma
  <2>3. cache_idx_head + 1 \in 0..(2 * NbBlkIdx - 1)
    BY <2>1, <2>2
  <2>4. (cache_idx_head + 1) % NbBlkIdx = Round(cache_idx_head + 1)
    BY <2>3, RoundLemma
  <2>5. Oldest - 1 + 1 = Oldest' - Behind'
    BY <1>4, <1>5, <1>6
  <2> QED BY <2>2, <2>4, <2>5, <1>1
<1>8. RefUp'
  BY <1>1, <1>3, <1>4, <1>6, <1>7 DEF RefUp
<1>9. RefTypes'
  BY <1>1, <1>3 DEF RefTypes, SlotEntry, Slots
<1>10. Calling'
  <2>1. CallBase'
    BY <1>1, <1>3, <1>5, <1>6, <1>2, BaseStep DEF Calling
  <2>2. (Removing(BlkLen[cur.key]) /\ Writing(BlkLen[cur.key]) /\ Filling(BlkLen[cur.key]))'
    BY <1>1, <1>3, <1>6 DEF Calling, Removing, Writing, Filling, Written
  <2> QED BY <2>1, <2>2 DEF Calling
<1> QED BY <1>2, <1>1, <1>8, <1>9, <1>10 DEF RefInv, Apart, InCall, Loading

(* edge_cache's first loop.                                                *)
LEMMA LapRef ==
  ASSUME TornInv, TornInv', RefInv, LeavePreviousLap \/ Rotate, UNCHANGED was
  PROVE  RefInv'
<1> DEFINE len == BlkLen[cur.key]
<1>1. /\ pc = "lap" /\ ~dropping /\ list # <<>>
      /\ \/ PreviousLap(slots[list[1]].off) /\ Drop
         \/ ~PreviousLap(slots[list[1]].off) /\ Rotate
  BY DEF LeavePreviousLap, Rotate, At
<1>2. pc \in InCall /\ Counted = nb_total_block /\ Calling /\ nb_total_block \in Nat /\ RefTypes
  BY <1>1 DEF InCall, Counted, RefInv, TornInv, Types
<1>3. /\ RotatesOf(was, len) /\ data_pos_wr = was.pos /\ edge = was.edge /\ cur.left = len
      /\ FirstOf(was)..(Oldest - 1) \subseteq PreviousLapOf(was)
  BY <1>1, <1>2 DEF Calling, Removing
<1>4. /\ Oldest \in LiveOf(was) /\ slots[list[1]] = was.blk[Oldest] /\ FirstOf(was) \in Nat
      /\ FirstOf(was) <= Oldest /\ Oldest < nb_total_block
  BY <1>1, <1>2, HeadLemma
<1>5. PreviousLap(slots[list[1]].off) <=> Oldest \in PreviousLapOf(was)
  BY <1>3, <1>4 DEF PreviousLap, PreviousLapOf
<1>6. Oldest \in Nat
  BY <1>4, <1>2 DEF LiveOf
<1>7. CASE PreviousLap(slots[list[1]].off) /\ Drop
  <2>1. Oldest' = Oldest + 1 /\ CallBase' /\ (Calling' => RefInv')
    BY <1>1, <1>7, DropRef
  <2>2. UNCHANGED <<data_pos_wr, edge, pc, cur>>
    BY <1>7 DEF Drop
  <2>3. FirstOf(was)..(Oldest' - 1) \subseteq PreviousLapOf(was)
    BY <2>1, <1>3, <1>4, <1>5, <1>6, <1>7
  <2>4. Calling'
    BY <2>1, <2>2, <2>3, <1>1, <1>3 DEF Calling, Removing, Writing, Filling, Written
  <2> QED BY <2>1, <2>4
<1>8. CASE ~PreviousLap(slots[list[1]].off) /\ Rotate
  <2>1. /\ data_pos_wr' = 0 /\ edge' = TRUE /\ pc' = "room"
        /\ UNCHANGED <<slots, cache_idx_head, nb_total_block, list, dropping, cur, was>>
    BY <1>8 DEF Rotate
  <2>2. Oldest' = Oldest /\ CallBase' /\ ((pc' \in InCall => Calling') => RefInv')
    BY <2>1, <1>1, <1>2, StayRef DEF InCall, RefTypes, Apart, Loading
  <2>3. FirstLoop(was, len, Oldest) /\ Oldest \in FirstOf(was)..Oldest
    BY <1>3, <1>4, <1>5, <1>6, <1>8 DEF FirstLoop
  <2>4. Oldest..(Oldest - 1) \subseteq InTheWayOf(was, WritePosOf(was, len), len)
    BY <1>6
  <2>5. 0 = WritePosOf(was, len) /\ EdgingOf(was, len)
    BY <1>3 DEF WritePosOf, EdgingOf
  <2>6. Removing(len)'
    BY <2>1, <2>2, <2>3, <2>4, <2>5, <1>3, <1>4 DEF Removing
  <2>7. Calling'
    BY <2>1, <2>2, <2>6 DEF Calling, Writing, Filling, Written
  <2> QED BY <2>2, <2>7
<1> QED BY <1>1, <1>7, <1>8

(* Its second loop, and the death of either.                               *)
LEMMA RoomRef ==
  ASSUME TornInv, TornInv', RefInv, MakeRoom \/ RoomMade, UNCHANGED was
  PROVE  RefInv'
<1> DEFINE len == BlkLen[cur.key]
           way == InTheWayOf(was, WritePosOf(was, len), len)
<1>1. /\ pc = "room" /\ ~dropping /\ list # <<>>
      /\ \/ InTheWay(slots[list[1]].off) /\ Drop
         \/ ~InTheWay(slots[list[1]].off) /\ RoomMade
  BY DEF MakeRoom, RoomMade, At
<1>2. /\ pc \in InCall /\ Counted = nb_total_block /\ Calling /\ nb_total_block \in Nat
      /\ RefTypes /\ edge = TRUE
  BY <1>1 DEF InCall, Counted, RefInv, TornInv, Types, Beginning, Apart, Loading
<1>3. /\ data_pos_wr = WritePosOf(was, len) /\ EdgingOf(was, len) /\ cur.left = len
      /\ (~RotatesOf(was, len) => edge = was.edge)
  BY <1>1, <1>2 DEF Calling, Removing
<1>4. PICK f1 \in FirstOf(was)..Oldest :
        /\ FirstLoop(was, len, f1)
        /\ RotatesOf(was, len) => f1 < nb_total_block
        /\ f1..(Oldest - 1) \subseteq way
  BY <1>1, <1>2 DEF Calling, Removing
<1>5. /\ Oldest \in LiveOf(was) /\ slots[list[1]] = was.blk[Oldest] /\ FirstOf(was) \in Nat
      /\ FirstOf(was) <= Oldest /\ Oldest < nb_total_block /\ nb_total_block = was.total
  BY <1>1, <1>2, HeadLemma
<1>6. InTheWay(slots[list[1]].off) <=> Oldest \in way
  BY <1>3, <1>5 DEF InTheWay, InTheWayOf
<1>7. Oldest \in Nat
  BY <1>5, <1>2 DEF LiveOf
<1>8. CASE InTheWay(slots[list[1]].off) /\ Drop
  <2>1. Oldest' = Oldest + 1 /\ CallBase' /\ (Calling' => RefInv')
    BY <1>1, <1>8, DropRef
  <2>2. UNCHANGED <<data_pos_wr, edge, pc, cur, nb_total_block>>
    BY <1>8 DEF Drop
  <2>3. f1..(Oldest' - 1) \subseteq way /\ f1 \in FirstOf(was)..Oldest'
    BY <2>1, <1>4, <1>5, <1>6, <1>7, <1>8
  <2>4. Removing(len)'
    BY <2>2, <2>3, <1>1, <1>3, <1>4 DEF Removing
  <2>5. Calling'
    BY <2>1, <2>2, <2>4, <1>1 DEF Calling, Writing, Filling, Written
  <2> QED BY <2>1, <2>5
<1>9. CASE ~InTheWay(slots[list[1]].off) /\ RoomMade
  <2>1. /\ pc' = "write"
        /\ UNCHANGED <<slots, cache_idx_head, nb_total_block, list, dropping, cur, was,
                       data_pos_wr, edge>>
    BY <1>9 DEF RoomMade, file
  <2>2. Oldest' = Oldest /\ CallBase' /\ ((pc' \in InCall => Calling') => RefInv')
    BY <2>1, <1>1, <1>2, StayRef DEF InCall, RefTypes, Apart, Loading
  <2>3. SecondLoop(was, len, f1, Oldest)
    BY <1>3, <1>4, <1>6, <1>9 DEF SecondLoop
  <2>4. Evicts(was, len, Oldest)
    BY <2>3, <1>2, <1>4, <1>5, <1>7 DEF Evicts
  <2>5. cur.left \in 0..len /\ len - cur.left = 0 /\ WritePosOf(was, len) \in Nat
    <3>1. len \in Nat /\ was.pos \in Nat
      BY <2>2, <1>2, InsertionAssumption DEF Calling, CallBase
    <3> QED BY <3>1, <1>3 DEF WritePosOf
  <2>6. Writing(len)'
    BY <2>1, <2>2, <2>4, <2>5, <1>2, <1>3 DEF Writing, Written
  <2>7. Calling'
    BY <2>1, <2>2, <2>6 DEF Calling, Removing, Filling, Written
  <2> QED BY <2>2, <2>7
<1> QED BY <1>1, <1>8, <1>9

LEMMA DieRef ==
  ASSUME TornInv, TornInv', RefInv, Die, UNCHANGED was
  PROVE  RefInv'
<1>1. /\ pc \in {"lap", "room"} /\ pc' = "dead"
      /\ UNCHANGED <<slots, cache_idx_head, nb_total_block, list, dropping, cur, data_pos_wr>>
  BY DieLemma DEF Die, file
<1>2. RefTypes
  BY DEF RefInv
<1> QED BY <1>1, <1>2, StayRef DEF InCall, RefTypes, Apart, Loading

(* write_block_to_cache.                                                   *)
LEMMA WriteRef ==
  ASSUME TornInv, TornInv', RefInv, WritePart, UNCHANGED was
  PROVE  RefInv'
<1> DEFINE len == BlkLen[cur.key]
           pos == WritePosOf(was, len)
<1>1. PICK n \in 1..cur.left :
        /\ n < cur.left => cur.left = len
        /\ data_pos_wr' = data_pos_wr + n
        /\ cur' = [cur EXCEPT !.left = @ - n,
                              !.off = IF cur.left = len THEN data_pos_wr ELSE @]
        /\ pc' = IF n = cur.left THEN "slot" ELSE "write"
  BY DEF WritePart
<1>2. /\ pc = "write" /\ ~dropping
      /\ UNCHANGED <<slots, cache_idx_head, nb_total_block, list, edge, dropping, was>>
  BY DEF WritePart, At
<1>3. pc \in InCall /\ Calling /\ RefTypes
  BY <1>2 DEF InCall, RefInv
<1>4. cur.left \in Int /\ cur.off \in Nat /\ cur.key \in Keys \cup {NoKey} /\ data_pos_wr \in Nat
  BY <1>3 DEF RefTypes
<1>5. /\ len \in Nat /\ pos \in Nat
  <2>1. len \in Nat /\ was.pos \in Nat
    BY <1>3, InsertionAssumption DEF Calling, CallBase
  <2> QED BY <2>1 DEF WritePosOf
<1>6. /\ edge = EdgingOf(was, len) /\ Evicts(was, len, Oldest)
      /\ cur.left \in 0..len /\ data_pos_wr = pos + (len - cur.left)
      /\ (cur.left < len => cur.off = pos)
  BY <1>2, <1>3 DEF Calling, Writing
<1>7. /\ cur'.key = cur.key /\ cur'.left = cur.left - n
      /\ cur'.off = (IF cur.left = len THEN data_pos_wr ELSE cur.off)
      /\ cur' \in [key : Keys \cup {NoKey}, off : Nat, left : Int]
  <2>1. cur = [key |-> cur.key, off |-> cur.off, left |-> cur.left]
    BY <1>3 DEF RefTypes
  <2>2. cur' = [key |-> cur.key, left |-> cur.left - n,
                off |-> IF cur.left = len THEN data_pos_wr ELSE cur.off]
    BY <2>1, <1>1
  <2>3. cur.left - n \in Int
    BY <1>4
  <2> QED BY <2>2, <2>3, <1>4
<1>8. data_pos_wr' \in Nat /\ cur'.off = pos
  BY <1>1, <1>4, <1>5, <1>6, <1>7
<1>9. /\ Oldest \in Nat /\ Oldest' = Oldest /\ CallBase'
      /\ ((pc' \in InCall => Calling') => RefInv')
  BY <1>1, <1>2, <1>7, <1>8, <1>3, StayRef DEF InCall, Apart, Loading
<1>10. CASE n = cur.left
  <2>1. pc' = "slot" /\ data_pos_wr' = pos + len
    BY <1>1, <1>4, <1>5, <1>6, <1>10
  <2>2. Writing(len)'
    BY <2>1, <1>2, <1>6, <1>7, <1>8 DEF Writing, Written
  <2>3. Oldest \in FirstOf(was)..was.total
    BY <1>6 DEF Evicts
  <2>4. Filling(len)'
    BY <2>1, <2>3, <1>2, <1>6, <1>7, <1>9 DEF Filling, Written
  <2>5. Calling'
    BY <2>1, <2>2, <2>4, <1>7, <1>9 DEF Calling, Removing
  <2> QED BY <2>5, <1>9
<1>11. CASE n # cur.left
  <2>1. /\ pc' = "write" /\ data_pos_wr' = pos + (len - cur'.left) /\ cur'.left \in 0..len
    BY <1>1, <1>4, <1>5, <1>6, <1>7, <1>11
  <2>2. Writing(len)'
    BY <2>1, <1>2, <1>6, <1>7, <1>8, <1>9 DEF Writing, Written
  <2>3. Calling'
    BY <2>1, <2>2, <1>7, <1>9 DEF Calling, Removing, Filling, Written
  <2> QED BY <2>3, <1>9
<1> QED BY <1>10, <1>11

(* new_block_info.                                                         *)
LEMMA SlotRef ==
  ASSUME TornInv, TornInv', RefInv, FreeSlot \/ TakeSlot, UNCHANGED was
  PROVE  RefInv'
<1> DEFINE len == BlkLen[cur.key]
<1>1. pc = "slot" /\ ~dropping
  BY DEF FreeSlot, TakeSlot, At
<1>2. pc \in InCall /\ pc \notin Apart /\ Calling /\ RefTypes /\ RefUp /\ Ahead = 0 /\ Beginning
  BY <1>1 DEF InCall, RefInv, Ahead, TornInv, Apart, Loading
<1>3. /\ NbBlkIdx \in Nat /\ NbBlkIdx >= 2
      /\ cache_idx_head \in 0..(NbBlkIdx - 1) /\ cache_idx_tail \in 0..(NbBlkIdx - 1)
      /\ Len(list) \in Nat /\ Len(list) <= NbBlkIdx /\ nb_total_block \in Nat
      /\ cache_idx_tail = Round(cache_idx_head + Len(list))
  BY <1>1, <1>2, AtFacts
<1>4. /\ Oldest \in Nat /\ nb_total_block = Oldest + Len(list) /\ was.total = nb_total_block
      /\ cache_idx_tail = nb_total_block % NbBlkIdx
  <2>1. Counted = nb_total_block
    BY <1>1, <1>3 DEF Counted
  <2>2. Counted + Ahead = nb_total_block
    BY <2>1, <1>2, <1>3
  <2> QED BY <2>1, <2>2, <1>2, OldestLemma DEF Calling, CallBase
<1>5. /\ edge = EdgingOf(was, len) /\ edge \in BOOLEAN
      /\ data_pos_wr = WritePosOf(was, len) + len /\ cur.off = WritePosOf(was, len)
  BY <1>1, <1>2 DEF Calling, Writing, Written, TornInv, Types
<1>6. PICK g \in FirstOf(was)..was.total :
        Evicts(was, len, g) /\ Oldest \in {g, AfterSlot(was, len, g)}
  BY <1>1, <1>2 DEF Calling, Filling
<1>7. g \in Int
  BY <1>6, <1>2 DEF Calling, CallBase
<1>8. edge => (cache_idx_tail = cache_idx_head <=> Len(list) = NbBlkIdx)
  <2>1. edge => Len(list) # 0
    BY <1>1, <1>2, <1>3 DEF Beginning, TornInv, Types
  <2> QED BY <2>1, <1>3 DEF Round
<1>9. CASE FreeSlot
  <2>1. edge /\ Len(list) = NbBlkIdx /\ Drop /\ list # <<>>
    <3>1. edge /\ cache_idx_tail = cache_idx_head /\ Drop
      BY <1>9 DEF FreeSlot
    <3>2. Len(list) = NbBlkIdx
      BY <3>1, <1>8
    <3> QED BY <3>1, <3>2, <1>3
  <2>2. Oldest' = Oldest + 1 /\ CallBase' /\ (Calling' => RefInv')
    BY <2>1, <1>1, DropRef
  <2>3. UNCHANGED <<data_pos_wr, edge, pc, cur, nb_total_block>>
    BY <2>1 DEF Drop
  <2>4. Oldest' = AfterSlot(was, len, g)
    BY <2>1, <2>2, <1>3, <1>4, <1>5, <1>6, <1>7 DEF AfterSlot, FreesSlot
  <2>5. Writing(len)'
    BY <2>3, <1>1, <1>5 DEF Writing, Written
  <2>6. Filling(len)'
    BY <2>3, <2>4, <1>1, <1>6 DEF Filling, Written
  <2>7. Calling'
    BY <2>2, <2>3, <2>5, <2>6, <1>1 DEF Calling, Removing
  <2> QED BY <2>2, <2>7
<1>10. CASE TakeSlot
  <2>1. /\ edge' = (edge \/ cache_idx_tail + 1 = NbBlkIdx) /\ pc' = "fill"
        /\ ~(edge /\ cache_idx_tail = cache_idx_head)
        /\ UNCHANGED <<slots, cache_idx_head, nb_total_block, data_pos_wr, list, dropping, cur,
                       was>>
    BY <1>10 DEF TakeSlot
  <2>2. Oldest' = Oldest /\ CallBase' /\ ((pc' \in InCall => Calling') => RefInv')
    BY <2>1, <1>1, <1>2, StayRef DEF InCall, RefTypes, Apart, Loading
  <2>3. Oldest = AfterSlot(was, len, g)
    <3>1. ~(edge /\ Len(list) = NbBlkIdx)
      BY <2>1, <1>8
    <3> QED BY <3>1, <1>3, <1>4, <1>5, <1>6, <1>7 DEF AfterSlot, FreesSlot
  <2>4. cache_idx_tail + 1 = NbBlkIdx <=> (was.total + 1) % NbBlkIdx = 0
    <3>1. (nb_total_block + 1) % NbBlkIdx = Round(cache_idx_tail + 1)
      <4>1. 1 \in 0..NbBlkIdx
        BY <1>3
      <4> QED BY <4>1, <1>3, <1>4, SlotLemma
    <3>2. Round(cache_idx_tail + 1) = 0 <=> cache_idx_tail + 1 = NbBlkIdx
      BY <1>3 DEF Round
    <3> QED BY <3>1, <3>2, <1>4
  <2>5. Writing(len)'
    BY <2>1, <1>5 DEF Writing, Written
  <2>6. Filling(len)'
    <3>1. edge' = (EdgingOf(was, len) \/ (was.total + 1) % NbBlkIdx = 0)
      BY <2>1, <2>4, <1>5
    <3> QED BY <2>1, <2>2, <2>3, <3>1, <1>6 DEF Filling, Written
  <2>7. Calling'
    BY <2>1, <2>2, <2>5, <2>6 DEF Calling, Removing
  <2> QED BY <2>2, <2>7
<1> QED BY <1>9, <1>10

(* While a slot is filled it is the one of the next number.                *)
LEMMA TakenLemma ==
  ASSUME TornInv, RefInv, pc \in {"fill", "offset", "count"}, ~dropping
  PROVE  /\ Taken = nb_total_block % NbBlkIdx /\ Taken \in Slots
         /\ Oldest \in Nat /\ nb_total_block \in Nat /\ Counted = nb_total_block
         /\ nb_total_block = Oldest + Len(list) /\ Len(list) \in Nat /\ Len(list) < NbBlkIdx
         /\ \A s \in Oldest..(nb_total_block - 1) : s % NbBlkIdx \in Slots \ {Taken}
<1>1. /\ pc \notin Apart /\ RefUp /\ Ahead = 1 /\ Behind = 0
  BY DEF RefInv, Ahead, Behind, Apart, InCall, Loading
<1>2. /\ Counted = nb_total_block /\ nb_total_block \in Nat /\ Oldest \in Nat
      /\ nb_total_block = Oldest + Len(list) /\ Len(list) \in Nat /\ Len(list) + 1 <= NbBlkIdx
      /\ cache_idx_tail = (nb_total_block + 1) % NbBlkIdx
      /\ \A s \in Oldest..(nb_total_block - 1) : s % NbBlkIdx \in Slots
  <2>1. Counted = nb_total_block
    BY <1>1, OldestLemma DEF Counted
  <2>2. Len(list) + Behind + Ahead = Len(list) + 1
    BY <1>1, OldestLemma
  <2> QED BY <2>1, <2>2, <1>1, OldestLemma
<1>3. /\ NbBlkIdx \in Nat /\ NbBlkIdx >= 2 /\ Slots = 0..(NbBlkIdx - 1)
  BY RoundLemma
<1>4. /\ nb_total_block % NbBlkIdx \in Slots
      /\ cache_idx_tail = Round((nb_total_block % NbBlkIdx) + 1)
  <2>1. 1 \in 0..NbBlkIdx
    BY <1>3
  <2> QED BY <2>1, <1>2, <1>3, SlotLemma
<1>5. Taken = nb_total_block % NbBlkIdx
  <2>1. CASE (nb_total_block % NbBlkIdx) + 1 < NbBlkIdx
    <3>1. cache_idx_tail - 1 = nb_total_block % NbBlkIdx
      BY <2>1, <1>3, <1>4 DEF Round
    <3>2. /\ nb_total_block % NbBlkIdx \in 0..(2 * NbBlkIdx - 1)
          /\ nb_total_block % NbBlkIdx < NbBlkIdx
      BY <1>3, <1>4
    <3> QED BY <3>1, <3>2, RoundLemma DEF Taken, Round
  <2>2. CASE ~((nb_total_block % NbBlkIdx) + 1 < NbBlkIdx)
    <3>1. cache_idx_tail - 1 = -1 /\ nb_total_block % NbBlkIdx = NbBlkIdx - 1
      BY <2>2, <1>3, <1>4 DEF Round
    <3>2. -1 = (-1) * NbBlkIdx + (NbBlkIdx - 1)
      BY <1>3
    <3>3. ((-1) * NbBlkIdx + (NbBlkIdx - 1)) % NbBlkIdx = NbBlkIdx - 1
      BY <1>3, ModLemma
    <3> QED BY <3>1, <3>2, <3>3 DEF Taken
  <2> QED BY <2>1, <2>2
<1>6. ASSUME NEW s \in Oldest..(nb_total_block - 1)
      PROVE  s % NbBlkIdx \in Slots \ {Taken}
  <2>1. s \in Nat /\ s < nb_total_block /\ nb_total_block < s + NbBlkIdx
    BY <1>2, <1>3
  <2>2. s % NbBlkIdx # nb_total_block % NbBlkIdx
    BY <2>1, <1>2, DistinctLemma
  <2> QED BY <2>2, <1>2, <1>5
<1> QED BY <1>2, <1>3, <1>4, <1>5, <1>6

(* new_bloc: the slot is filled and the block linked.                      *)
LEMMA FillRef ==
  ASSUME TornInv, TornInv', RefInv, FillKey \/ FillOffset, UNCHANGED was
  PROVE  RefInv'
<1> DEFINE len == BlkLen[cur.key]
<1>1. /\ pc \in {"fill", "offset"} /\ ~dropping
      /\ \/ /\ pc = "fill" /\ pc' = "offset"
            /\ slots' = [slots EXCEPT ![Taken].key = cur.key]
         \/ /\ pc = "offset" /\ pc' = "count"
            /\ slots' = [slots EXCEPT ![Taken].off = cur.off]
      /\ UNCHANGED <<cache_idx_head, cache_idx_tail, nb_block, nb_total_block, data_pos_wr,
                     list, edge, dropping, cur, was>>
  BY DEF FillKey, FillOffset, At
<1>2. pc \in InCall /\ pc \notin Apart /\ Calling /\ RefTypes /\ RefUp
  BY <1>1 DEF InCall, RefInv, Apart, Loading
<1>3. /\ Taken = nb_total_block % NbBlkIdx /\ Taken \in Slots
      /\ Oldest \in Nat /\ nb_total_block \in Nat /\ Counted = nb_total_block
      /\ \A s \in Oldest..(nb_total_block - 1) : s % NbBlkIdx \in Slots \ {Taken}
  BY <1>1, TakenLemma
<1>4. /\ cur.key \in Keys /\ cur.off \in Nat /\ slots \in [Slots -> SlotEntry]
      /\ cur.off = WritePosOf(was, len)
  BY <1>1, <1>2 DEF Calling, CallBase, RefTypes, Writing, Written
<1>5. /\ slots[Taken].key \in Keys \cup {NoKey} /\ slots[Taken].off \in Nat
      /\ slots[Taken] = [key |-> slots[Taken].key, off |-> slots[Taken].off]
  BY <1>3, <1>4 DEF SlotEntry
<1>6. /\ slots' \in [Slots -> SlotEntry]
      /\ \A i \in Slots \ {Taken} : slots'[i] = slots[i]
      /\ pc = "fill" => slots'[Taken].key = cur.key
      /\ pc = "offset" => slots'[Taken] = [key |-> slots[Taken].key, off |-> cur.off]
  <2>1. CASE pc = "fill"
    <3>1. slots' = [slots EXCEPT ![Taken] = [key |-> cur.key, off |-> slots[Taken].off]]
      BY <2>1, <1>1, <1>3, <1>4, <1>5
    <3>2. [key |-> cur.key, off |-> slots[Taken].off] \in SlotEntry
      BY <1>4, <1>5 DEF SlotEntry
    <3> HIDE DEF SlotEntry
    <3> QED BY <2>1, <3>1, <3>2, <1>3, <1>4
  <2>2. CASE pc = "offset"
    <3>1. slots' = [slots EXCEPT ![Taken] = [key |-> slots[Taken].key, off |-> cur.off]]
      BY <2>2, <1>1, <1>3, <1>4, <1>5
    <3>2. [key |-> slots[Taken].key, off |-> cur.off] \in SlotEntry
      BY <1>4, <1>5 DEF SlotEntry
    <3> QED BY <2>2, <3>1, <3>2, <1>3, <1>4
  <2> QED BY <2>1, <2>2, <1>1
<1>7. Oldest' = Oldest /\ Counted' = Counted /\ Behind' = Behind
  BY <1>1, <1>3 DEF Oldest, Counted, Behind
<1>8. \A s \in Oldest..(nb_total_block - 1) : slots'[s % NbBlkIdx] = slots[s % NbBlkIdx]
  BY <1>3, <1>6
<1>9. RefUp'
  BY <1>1, <1>2, <1>3, <1>7, <1>8 DEF RefUp
<1>10. RefTypes'
  BY <1>1, <1>2, <1>6 DEF RefTypes, SlotEntry, Slots
<1>11. CallBase'
  <2>1. \A s \in Oldest'..(nb_total_block' - 1) : was'.blk[s] = slots'[s % NbBlkIdx]
    BY <1>1, <1>2, <1>7, <1>8 DEF Calling, CallBase
  <2> QED BY <2>1, <1>1, <1>2, <1>7 DEF Calling, CallBase, IsCached
<1>12. Writing(len)'
  BY <1>1, <1>2 DEF Calling, Writing, Written
<1>13. Filling(len)'
  <2>1. slots'[nb_total_block % NbBlkIdx] = slots'[Taken]
    BY <1>3
  <2>2. pc = "offset" => slots[Taken].key = cur.key
    BY <1>2, <1>3 DEF Calling, Filling
  <2>3. pc' = "offset" => slots'[nb_total_block' % NbBlkIdx].key = cur'.key
    BY <2>1, <1>1, <1>6
  <2>4. pc' \in {"count", "total"} =>
          slots'[nb_total_block' % NbBlkIdx] = [key |-> cur'.key, off |-> WritePosOf(was', len)]
    BY <2>1, <2>2, <1>1, <1>4, <1>6
  <2>5. /\ edge = (EdgingOf(was, len) \/ (was.total + 1) % NbBlkIdx = 0)
        /\ \E g \in FirstOf(was)..was.total :
             Evicts(was, len, g) /\ Oldest = AfterSlot(was, len, g)
    BY <1>1, <1>2 DEF Calling, Filling, Written
  <2> QED BY <2>3, <2>4, <2>5, <1>1, <1>7 DEF Filling, Written
<1>14. Calling'
  BY <1>1, <1>11, <1>12, <1>13 DEF Calling, Removing
<1> QED BY <1>1, <1>9, <1>10, <1>14 DEF RefInv, Apart, InCall, Loading

LEMMA CountRef ==
  ASSUME TornInv, TornInv', RefInv, CountBlock, UNCHANGED was
  PROVE  RefInv'
<1> DEFINE len == BlkLen[cur.key]
<1>1. /\ pc = "count" /\ pc' = "total" /\ ~dropping /\ list' = Append(list, Taken)
      /\ UNCHANGED <<slots, cache_idx_head, cache_idx_tail, nb_total_block, data_pos_wr, edge,
                     dropping, cur, was>>
  BY DEF CountBlock, At
<1>2. pc \in InCall /\ pc \notin Apart /\ Calling /\ RefTypes /\ RefUp /\ Types
  BY <1>1 DEF InCall, RefInv, TornInv, Apart, Loading
<1>3. /\ Taken \in Slots /\ Oldest \in Nat /\ nb_total_block \in Nat
      /\ Counted = nb_total_block /\ nb_total_block = Oldest + Len(list)
  BY <1>1, TakenLemma
<1>4. Len(list') = Len(list) + 1 /\ Len(list) \in Nat
  BY <1>1, <1>2, <1>3 DEF Types
<1>5. Counted' = Counted + 1 /\ Oldest' = Oldest /\ Behind' = Behind
  <2>1. Counted' = Counted + 1
    BY <1>1, <1>3 DEF Counted
  <2> QED BY <2>1, <1>1, <1>3, <1>4 DEF Oldest, Behind
<1>6. /\ slots[nb_total_block % NbBlkIdx] = [key |-> cur.key, off |-> WritePosOf(was, len)]
      /\ cur.key \in Keys
  BY <1>1, <1>2 DEF Calling, Filling, CallBase
<1>7. RefUp'
  <2>1. ASSUME NEW s \in Oldest'..(Counted' - 1)  PROVE slots'[s % NbBlkIdx].key \in Keys
    <3>1. s \in Oldest..(Counted - 1) \/ s = nb_total_block
      BY <1>3, <1>5
    <3> QED BY <3>1, <1>1, <1>2, <1>6 DEF RefUp
  <2> QED BY <2>1, <1>1, <1>2, <1>5 DEF RefUp
<1>8. RefTypes'
  BY <1>1, <1>2 DEF RefTypes, SlotEntry, Slots
<1>9. Calling'
  <2>1. CallBase'
    BY <1>1, <1>2, <1>3, <1>5, BaseStep DEF Calling
  <2>2. (Removing(len) /\ Writing(len) /\ Filling(len))'
    BY <1>1, <1>2, <1>5 DEF Calling, Removing, Writing, Filling, Written
  <2> QED BY <2>1, <2>2 DEF Calling
<1> QED BY <1>1, <1>7, <1>8, <1>9 DEF RefInv, Apart, InCall, Loading

(* What DreCache sees of the cache when no call is under way.              *)
LEMMA SnapshotLemma ==
  ASSUME TornInv, RefInv, pc \in {"idle", "dead"}
  PROVE  /\ Numbered = [s \in Oldest..(nb_total_block - 1) |-> slots[s % NbBlkIdx]]
         /\ FirstOf(Snapshot) = Oldest /\ LiveOf(Snapshot) = Oldest..(nb_total_block - 1)
         /\ Oldest \in Nat /\ nb_total_block \in Nat /\ Len(list) \in Nat
         /\ nb_total_block = Oldest + Len(list) /\ nb_block = Len(list)
         /\ \A s \in Oldest..(nb_total_block - 1) :
              /\ s - Oldest + 1 \in 1..Len(list) /\ s % NbBlkIdx \in Slots
              /\ list[s - Oldest + 1] = s % NbBlkIdx
              /\ slots[s % NbBlkIdx].key \in Keys
         /\ \A i \in 1..Len(list) : Oldest + i - 1 \in Oldest..(nb_total_block - 1)
         /\ DOMAIN list = 1..Len(list) /\ data_pos_wr \in Nat /\ edge \in BOOLEAN
<1>1. RefUp /\ RefTypes /\ Types /\ pc \notin Apart /\ pc # "total"
  BY DEF RefInv, TornInv, Apart, InCall, Loading
<1>2. /\ Oldest \in Nat /\ nb_total_block \in Nat /\ Len(list) \in Nat
      /\ Counted = nb_total_block /\ nb_total_block = Oldest + Len(list) /\ nb_block = Len(list)
  BY <1>1, OldestLemma DEF Counted
<1>3. ASSUME NEW s \in Oldest..(nb_total_block - 1)
      PROVE  /\ s - Oldest + 1 \in 1..Len(list) /\ s % NbBlkIdx \in Slots
             /\ list[s - Oldest + 1] = s % NbBlkIdx
             /\ slots[s % NbBlkIdx].key \in Keys
  <2>1. s - Oldest + 1 \in 1..Len(list)
    BY <1>2
  <2> QED BY <2>1, <1>1, <1>2, OldestLemma DEF RefUp
<1>4. nb_total_block - Len(list) = Oldest
  BY <1>2
<1>5. Numbered = [s \in Oldest..(nb_total_block - 1) |-> slots[list[s - Oldest + 1]]]
  BY <1>4 DEF Numbered
<1>6. Numbered = [s \in Oldest..(nb_total_block - 1) |-> slots[s % NbBlkIdx]]
  BY <1>3, <1>5
<1>7. FirstOf(Snapshot) = Oldest /\ LiveOf(Snapshot) = Oldest..(nb_total_block - 1)
  BY <1>2 DEF FirstOf, LiveOf, Snapshot
<1>8. \A i \in 1..Len(list) : Oldest + i - 1 \in Oldest..(nb_total_block - 1)
  BY <1>2
<1>9. DOMAIN list = 1..Len(list) /\ data_pos_wr \in Nat /\ edge \in BOOLEAN
  BY <1>1 DEF Types, RefTypes
<1> QED BY <1>2, <1>3, <1>6, <1>7, <1>8, <1>9

(* H_lookup finds a block in the list when DreCache has it.                *)
LEMMA LookupLemma ==
  ASSUME TornInv, RefInv, pc \in {"idle", "dead"}, NEW k
  PROVE  /\ \A i \in Matches(k) : /\ Oldest + i - 1 \in LiveOf(Snapshot)
                                  /\ i = (Oldest + i - 1) - Oldest + 1
                                  /\ Numbered[Oldest + i - 1] = slots[list[i]]
                                  /\ slots[list[i]].key = k
         /\ \A s \in LiveOf(Snapshot) :
              Numbered[s].key = k => s - Oldest + 1 \in Matches(k)
<1>1. ASSUME NEW i \in Matches(k)
      PROVE  /\ Oldest + i - 1 \in LiveOf(Snapshot)
             /\ i = (Oldest + i - 1) - Oldest + 1
             /\ Numbered[Oldest + i - 1] = slots[list[i]]
             /\ slots[list[i]].key = k
  <2>1. i \in 1..Len(list) /\ slots[list[i]].key = k
    BY SnapshotLemma DEF Matches
  <2>2. /\ Oldest + i - 1 \in Oldest..(nb_total_block - 1)
        /\ i = (Oldest + i - 1) - Oldest + 1
    BY <2>1, SnapshotLemma
  <2>3. list[(Oldest + i - 1) - Oldest + 1] = (Oldest + i - 1) % NbBlkIdx
    BY <2>2, SnapshotLemma
  <2>4. Numbered[Oldest + i - 1] = slots[(Oldest + i - 1) % NbBlkIdx]
    BY <2>2, SnapshotLemma
  <2>5. list[i] = (Oldest + i - 1) % NbBlkIdx
    BY <2>2, <2>3
  <2> QED BY <2>1, <2>2, <2>4, <2>5, SnapshotLemma
<1>2. ASSUME NEW s \in LiveOf(Snapshot), Numbered[s].key = k
      PROVE  s - Oldest + 1 \in Matches(k)
  <2>1. s \in Oldest..(nb_total_block - 1)
    BY SnapshotLemma
  <2>2. /\ s - Oldest + 1 \in DOMAIN list
        /\ slots[list[s - Oldest + 1]] = Numbered[s]
    BY <2>1, SnapshotLemma
  <2> QED BY <2>2, <1>2 DEF Matches
<1> QED BY <1>1, <1>2

(* A call begins.                                                          *)
LEMMA BeginRef ==
  ASSUME TornInv, TornInv', RefInv, NEW k \in Keys, Begin(k), was' = Snapshot
  PROVE  RefInv'
<1> DEFINE len == BlkLen[k]
<1>1. /\ pc = "idle" /\ IsCached(k) /\ Matches(k) = {}
      /\ cur' = [key |-> k, off |-> 0, left |-> len]
      /\ pc' = IF data_pos_wr + len > CacheSz THEN "lap"
               ELSE IF edge THEN "room" ELSE "write"
      /\ UNCHANGED <<slots, cache_idx_head, nb_block, nb_total_block, data_pos_wr, list, edge,
                     dropping>>
  BY DEF Begin, file
<1>2. RefTypes /\ RefUp /\ nb_total_block \in Nat /\ len \in Nat
  BY <1>1, InsertionAssumption DEF RefInv, TornInv, Types, Apart, InCall, Loading
<1>3. Counted' = Counted /\ Oldest' = Oldest /\ Behind' = Behind
  BY <1>1, <1>2 DEF Counted, Oldest, Behind
<1>4. RefTypes'
  BY <1>1, <1>2 DEF RefTypes, SlotEntry, Slots
<1>5. RefUp'
  BY <1>1, <1>2, <1>3 DEF RefUp
<1>6. /\ FirstOf(was') = Oldest /\ LiveOf(was') = Oldest..(nb_total_block - 1)
      /\ Oldest \in Nat /\ Oldest <= nb_total_block
      /\ was'.blk = Numbered /\ was'.total = nb_total_block
      /\ was'.pos = data_pos_wr /\ was'.edge = edge
      /\ data_pos_wr \in Nat /\ edge \in BOOLEAN
      /\ Numbered = [s \in Oldest..(nb_total_block - 1) |-> slots[s % NbBlkIdx]]
  <2>1. /\ was'.blk = Numbered /\ was'.total = nb_total_block
        /\ was'.pos = data_pos_wr /\ was'.edge = edge
    BY DEF Snapshot
  <2>2. nb_total_block = Oldest + Len(list) /\ Len(list) \in Nat /\ Oldest \in Nat
    BY <1>1, SnapshotLemma
  <2>3. Oldest <= nb_total_block
    BY <2>2
  <2> QED BY <2>1, <2>2, <2>3, <1>1, SnapshotLemma
<1>7. CallBase'
  <2>1. \A s \in LiveOf(was') : was'.blk[s].key # k
    <3> SUFFICES ASSUME NEW s \in LiveOf(was'), was'.blk[s].key = k  PROVE FALSE
      OBVIOUS
    <3>1. s \in LiveOf(Snapshot) /\ Numbered[s].key = k
      BY <1>6
    <3> QED BY <3>1, <1>1, LookupLemma
  <2>2. \A s \in Oldest'..(nb_total_block' - 1) : was'.blk[s] = slots'[s % NbBlkIdx]
    BY <1>1, <1>3, <1>6
  <2> QED BY <2>1, <2>2, <1>1, <1>2, <1>3, <1>6 DEF CallBase, IsCached
<1>8. RotatesOf(was', len) <=> data_pos_wr + len > CacheSz
  BY <1>6 DEF RotatesOf
<1>9. FirstOf(was')..(Oldest' - 1) = {}
  BY <1>3, <1>6
<1>10. CASE data_pos_wr + len > CacheSz
  BY <1>1, <1>3, <1>6, <1>7, <1>8, <1>9, <1>4, <1>5, <1>10
     DEF Calling, Removing, Writing, Filling, Written, RefInv, Apart, InCall, Loading
<1>11. CASE ~(data_pos_wr + len > CacheSz)
  <2>1. /\ ~RotatesOf(was', len) /\ WritePosOf(was', len) = data_pos_wr
        /\ EdgingOf(was', len) = edge
    BY <1>6, <1>8, <1>11 DEF WritePosOf, EdgingOf
  <2>2. FirstLoop(was', len, Oldest) /\ Oldest \in FirstOf(was')..Oldest'
    BY <2>1, <1>3, <1>6 DEF FirstLoop
  <2>3. CASE edge
    <3>1. Removing(len)'
      BY <2>1, <2>2, <2>3, <1>1, <1>3, <1>6, <1>9, <1>11 DEF Removing
    <3> QED BY <3>1, <2>3, <1>1, <1>4, <1>5, <1>7, <1>11
            DEF Calling, Writing, Filling, Written, RefInv, Apart, InCall, Loading
  <2>4. CASE ~edge
    <3>1. Evicts(was', len, Oldest')
      BY <2>1, <2>2, <2>4, <1>3, <1>6 DEF Evicts, SecondLoop
    <3>2. pc' = "write" /\ cur'.left = len /\ cur'.key = k /\ len - len = 0
      BY <2>4, <1>1, <1>2, <1>11
    <3>3. Writing(len)'
      BY <2>1, <3>1, <3>2, <1>1, <1>2, <1>6 DEF Writing, Written
    <3> QED BY <3>2, <3>3, <1>4, <1>5, <1>7 DEF Calling, Removing, Filling, Written, RefInv,
       Apart, InCall, Loading
  <2> QED BY <2>3, <2>4
<1> QED BY <1>10, <1>11

LEMMA ReturnRef ==
  ASSUME TornInv, TornInv', RefInv, CountTotal
  PROVE  RefInv'
<1>1. /\ pc = "total" /\ pc' = "idle" /\ nb_total_block' = nb_total_block + 1 /\ cur' = NoBlock
      /\ UNCHANGED <<slots, cache_idx_head, list, data_pos_wr, dropping>>
  BY DEF CountTotal, At
<1>2. RefTypes /\ RefUp /\ nb_total_block \in Nat
  BY <1>1 DEF RefInv, TornInv, Types, Apart, InCall, Loading
<1>3. Counted' = Counted /\ Oldest' = Oldest /\ Behind' = Behind
  <2>1. Counted' = Counted
    BY <1>1, <1>2 DEF Counted
  <2> QED BY <2>1, <1>1 DEF Oldest, Behind
<1>4. RefUp'
  BY <1>1, <1>2, <1>3 DEF RefUp
<1>5. RefTypes'
  BY <1>1, <1>2 DEF RefTypes, SlotEntry, Slots, NoBlock
<1> QED BY <1>1, <1>4, <1>5 DEF RefInv, InCall, Apart, Loading

LEMMA CloseRef ==
  ASSUME TornInv, TornInv', RefInv, CompClose, was' = Snapshot
  PROVE  RefInv'
<1>1. /\ pc = "idle" /\ pc' = "down" /\ cur' = NoBlock
      /\ UNCHANGED <<slots, cache_idx_head, nb_block, nb_total_block, data_pos_wr>>
  BY DEF CompClose, CompEnd, file
<1>2. RefTypes /\ RefUp /\ Behind = 0
  BY <1>1 DEF RefInv, TornInv, Types, Behind, Apart, InCall, Loading
<1>3. /\ FirstOf(was') = Oldest /\ LiveOf(was') = Oldest..(nb_total_block - 1)
      /\ Oldest \in Nat /\ was'.total = nb_total_block /\ was'.nb = nb_block
      /\ was'.blk = [s \in Oldest..(nb_total_block - 1) |-> slots[s % NbBlkIdx]]
      /\ \A s \in Oldest..(nb_total_block - 1) : slots[s % NbBlkIdx].key \in Keys
  BY <1>1, SnapshotLemma DEF Snapshot
<1>4. cache_idx_head = Oldest % NbBlkIdx
  <2>1. Oldest - Behind = Oldest
    BY <1>2, <1>3
  <2> QED BY <2>1, <1>2 DEF RefUp
<1>5. RefDown'
  BY <1>1, <1>3, <1>4 DEF RefDown
<1>6. RefTypes'
  BY <1>1, <1>2 DEF RefTypes, SlotEntry, Slots, NoBlock
<1> QED BY <1>1, <1>5, <1>6 DEF RefInv, InCall, Apart, Loading

(* comp_load_dre_cache finds the blocks the cache had when it was closed,  *)
(* ...                                                                     *)
LEMMA LoadRef ==
  ASSUME TornInv, TornInv', RefInv, NEW m \in 0..MaxTotal, LoadIsSound(m), CompLoad(m),
         UNCHANGED was
  PROVE  RefInv'
<1> DEFINE first == FirstOf(was)
           count == LoadCount(m)
<1>1. /\ pc = "down" /\ pc' = "tail" /\ cur' = [NoBlock EXCEPT !.left = m]
      /\ edge' = (nb_total_block > nb_block)
      /\ UNCHANGED <<slots, cache_idx_head, cache_idx_tail, nb_block, nb_total_block,
                     data_pos_wr, was>>
  BY DEF CompLoad, file
<1>2. Types /\ AtRest /\ RefTypes /\ RefDown /\ cur'.left = m
  BY <1>1 DEF TornInv, RefInv, NoBlock
<1>3. /\ NbBlkIdx \in Nat /\ NbBlkIdx >= 2 /\ nb_block \in Nat /\ nb_total_block \in Nat
      /\ nb_block <= NbBlkIdx /\ nb_block <= nb_total_block /\ nb_total_block <= MaxTotal
      /\ was.total = nb_total_block /\ was.nb = nb_block
      /\ cache_idx_head = first % NbBlkIdx /\ cache_idx_head \in 0..(NbBlkIdx - 1)
      /\ cache_idx_tail = Round(cache_idx_head + nb_block)
      /\ nb_block > 0 /\ ~(nb_block = NbBlkIdx /\ nb_total_block = NbBlkIdx)
      /\ m <= nb_total_block /\ m \in Nat
  BY <1>2, RoundLemma, WrapLemma DEF Types, AtRest, RefDown, LoadIsSound, Slots
<1>4. first \in Nat /\ first = nb_total_block - nb_block
  BY <1>3 DEF FirstOf
<1>5. /\ count \in 1..nb_block /\ SumOf(m) - count = first /\ Len(list') = count
      /\ SumOf(m) \in Nat /\ count = IF m > 0 THEN MaxCount(m) ELSE nb_block
  BY <1>4, LoadFacts
<1>6. SumOf(cur.left)' = SumOf(m)
  BY <1>1, <1>2 DEF SumOf
<1> HIDE DEF first, count
<1>7. Len(list') = SumOf(m) - first
  <2>1. count \in Nat
    BY <1>3, <1>5
  <2> QED BY <2>1, <1>4, <1>5
<1>8. cache_idx_tail = nb_total_block % NbBlkIdx
  <2>1. nb_block \in 0..NbBlkIdx /\ first + nb_block = nb_total_block
    BY <1>3, <1>4
  <2> QED BY <2>1, <1>3, <1>4, SlotLemma
<1>9. m > 0 => \/ first % NbBlkIdx < nb_total_block % NbBlkIdx
               \/ m - first >= NbBlkIdx - (first % NbBlkIdx)
  <2> SUFFICES ASSUME m > 0
               PROVE  \/ first % NbBlkIdx < nb_total_block % NbBlkIdx
                      \/ m - first >= NbBlkIdx - (first % NbBlkIdx)
    OBVIOUS
  <2>1. cache_idx_head < cache_idx_tail \/ MaxCount(m) >= NbBlkIdx - cache_idx_head
    BY DEF LoadIsSound
  <2>2. MaxCount(m) = m - first
    <3>1. count \in Nat /\ SumOf(m) = m /\ count = MaxCount(m)
      BY <1>3, <1>5 DEF SumOf
    <3> QED BY <3>1, <1>3, <1>4, <1>5
  <2> QED BY <2>1, <2>2, <1>3, <1>8
<1>10. RefLoading'
  BY <1>1, <1>2, <1>3, <1>4, <1>6, <1>7, <1>9 DEF RefLoading, RefDown, FirstOf, LiveOf, first
<1>11. RefTypes'
  <2>1. cur' \in [key : Keys \cup {NoKey}, off : Nat, left : Int]
    BY <1>1, <1>3 DEF NoBlock
  <2> QED BY <2>1, <1>1, <1>2 DEF RefTypes, SlotEntry, Slots
<1> QED BY <1>1, <1>10, <1>11 DEF RefInv, InCall, Loading, Apart

(* The list that a load ends with: the blocks from the one that was the    *)
(* oldest up to the last that it keeps.                                    *)
LEMMA LoadedLemma ==
  ASSUME TornInv, RefInv, pc = "position"
  PROVE  /\ FirstOf(was) \in Nat /\ nb_total_block \in Nat /\ nb_block \in Nat
         /\ nb_block = nb_total_block - FirstOf(was) /\ nb_block = Len(list) /\ nb_block >= 1
         /\ nb_total_block <= was.total /\ nb_total_block = SumOf(cur.left)
         /\ \A s \in FirstOf(was)..(nb_total_block - 1) :
              /\ s \in LiveOf(was) /\ s - FirstOf(was) + 1 \in 1..Len(list)
              /\ list[s - FirstOf(was) + 1] = s % NbBlkIdx /\ s % NbBlkIdx \in Slots
         /\ list[Len(list)] = (nb_total_block - 1) % NbBlkIdx
<1> DEFINE first == FirstOf(was)
<1>1. Types /\ Loaded /\ RefLoading
  BY DEF TornInv, RefInv, Loading
<1>2. /\ NbBlkIdx \in Nat /\ NbBlkIdx >= 2 /\ Slots = 0..(NbBlkIdx - 1)
      /\ cache_idx_head \in 0..(NbBlkIdx - 1) /\ Len(list) \in Nat
      /\ Len(list) >= 1 /\ Len(list) <= NbBlkIdx
      /\ nb_total_block \in Nat /\ nb_block = Len(list) /\ nb_total_block = SumOf(cur.left)
      /\ \A i \in 1..Len(list) : list[i] = Round(cache_idx_head + i - 1)
  BY <1>1, RoundLemma DEF Types, Loaded
<1>3. /\ first \in Nat /\ was.total \in Nat /\ cur.left <= was.total
      /\ cur.left = 0 => nb_total_block = was.total
      /\ cache_idx_head = first % NbBlkIdx /\ Len(list) = nb_total_block - first
      /\ cur.left \in Nat
  BY <1>1, <1>2 DEF RefLoading, Loaded
<1>4. nb_total_block <= was.total
  BY <1>2, <1>3 DEF SumOf
<1> HIDE DEF first
<1>5. ASSUME NEW s \in first..(nb_total_block - 1)
      PROVE  /\ s \in LiveOf(was) /\ s - first + 1 \in 1..Len(list)
             /\ list[s - first + 1] = s % NbBlkIdx /\ s % NbBlkIdx \in Slots
  <2>1. /\ s - first \in 0..NbBlkIdx /\ s - first + 1 \in 1..Len(list)
        /\ first + (s - first) = s /\ s \in first..(was.total - 1) /\ s \in Nat
    BY <1>2, <1>3, <1>4
  <2>2. s % NbBlkIdx = Round((first % NbBlkIdx) + (s - first)) /\ first % NbBlkIdx \in Slots
    BY <2>1, <1>2, <1>3, SlotLemma
  <2>3. list[s - first + 1] = Round(cache_idx_head + (s - first + 1) - 1)
    BY <2>1, <1>2
  <2>4. cache_idx_head + (s - first + 1) - 1 = (first % NbBlkIdx) + (s - first)
    BY <2>1, <1>2, <1>3
  <2>5. 0 \in 0..NbBlkIdx
    BY <1>2
  <2>6. s % NbBlkIdx \in Slots
    BY <2>1, <2>5, <1>2, SlotLemma
  <2> QED BY <2>1, <2>2, <2>3, <2>4, <2>6 DEF LiveOf, first
<1>6. list[Len(list)] = (nb_total_block - 1) % NbBlkIdx
  <2>1. nb_total_block - 1 \in first..(nb_total_block - 1)
        /\ (nb_total_block - 1) - first + 1 = Len(list)
    BY <1>2, <1>3
  <2> QED BY <2>1, <1>5
<1> QED BY <1>2, <1>3, <1>4, <1>5, <1>6 DEF first

(* ... and ends with those that it keeps.                                  *)
LEMMA LoadStoreRef ==
  ASSUME TornInv, TornInv', RefInv, LoadStore, UNCHANGED was
  PROVE  RefInv'
<1>1. pc \in Loading
  BY DEF LoadStore, StoreTail, StoreNbBlock, StoreNbTotal, StorePosition, Loading
<1>2. RefTypes /\ RefLoading /\ Types /\ Loaded
  BY <1>1 DEF RefInv, TornInv
<1>3. CASE StoreTail \/ StoreNbBlock \/ StoreNbTotal
  <2>1. /\ pc' \in Loading
        /\ UNCHANGED <<slots, cache_idx_head, data_pos_wr, list, edge, cur, was>>
    BY <1>3 DEF StoreTail, StoreNbBlock, StoreNbTotal, Loading
  <2>2. nb_total_block' = nb_total_block \/ cur.left > 0
    BY <1>3, <1>2 DEF StoreTail, StoreNbBlock, StoreNbTotal, Loaded
  <2>3. SumOf(cur.left)' = SumOf(cur.left)
    BY <2>1, <2>2 DEF SumOf
  <2>4. cur.left = 0 => nb_total_block' = nb_total_block
    BY <2>2, <1>2 DEF Loaded
  <2>5. RefLoading'
    BY <2>1, <2>3, <2>4, <1>2 DEF RefLoading, FirstOf, LiveOf
  <2>6. RefTypes'
    BY <2>1, <1>2 DEF RefTypes, SlotEntry, Slots
  <2> QED BY <2>1, <2>5, <2>6 DEF RefInv, Loading, Apart, InCall
<1>4. CASE StorePosition
  <2> DEFINE last == slots[list[Len(list)]]
  <2>1. /\ pc = "position" /\ pc' = "idle" /\ data_pos_wr' = last.off + LenOf(last.key)
        /\ cur' = NoBlock
        /\ UNCHANGED <<slots, cache_idx_head, nb_block, nb_total_block, list, dropping, was>>
    BY <1>4 DEF StorePosition
  <2>2. /\ FirstOf(was) \in Nat /\ nb_total_block \in Nat /\ Len(list) \in Nat
        /\ Len(list) = nb_total_block - FirstOf(was) /\ Len(list) >= 1
        /\ \A s \in FirstOf(was)..(nb_total_block - 1) :
             s \in LiveOf(was) /\ s % NbBlkIdx \in Slots
        /\ list[Len(list)] = (nb_total_block - 1) % NbBlkIdx
    BY <2>1, LoadedLemma
  <2>3. nb_total_block - 1 \in FirstOf(was)..(nb_total_block - 1)
    BY <2>2
  <2>4. last \in SlotEntry
    BY <2>2, <2>3, <1>2 DEF RefTypes
  <2>5. data_pos_wr' \in Nat
    <3>1. last.off \in Nat /\ last.key \in Keys \cup {NoKey}
      BY <2>4 DEF SlotEntry
    <3>2. LenOf(last.key) \in Nat
      BY <3>1, InsertionAssumption DEF LenOf
    <3> QED BY <3>1, <3>2, <2>1
  <2>6. RefTypes'
    BY <2>1, <2>5, <1>2 DEF RefTypes, SlotEntry, Slots, NoBlock
  <2>7. Behind' = 0 /\ Counted' = nb_total_block /\ Oldest' = FirstOf(was)
    <3>1. Behind' = 0 /\ Counted' = nb_total_block
      BY <2>1, <2>2, <1>2 DEF Behind, Counted, Loaded
    <3> QED BY <3>1, <2>1, <2>2 DEF Oldest
  <2>8. RefUp'
    <3>1. Oldest' - Behind' = FirstOf(was)
      BY <2>2, <2>7
    <3> QED BY <3>1, <2>1, <2>2, <2>7, <1>2 DEF RefUp, RefLoading
  <2> QED BY <2>1, <2>6, <2>8 DEF RefInv, Loading, InCall
<1> QED BY <1>3, <1>4 DEF LoadStore

LEMMA SameRef ==
  ASSUME RefInv, UNCHANGED <<compVars, was>>
  PROVE  RefInv'
<1>1. UNCHANGED <<slots, cache_idx_head, cache_idx_tail, nb_block, nb_total_block, data_pos_wr,
                  list, edge, pc, dropping, cur, was>>
  BY DEF compVars, file, call
<1>2. Counted' = Counted /\ Oldest' = Oldest /\ Behind' = Behind
  BY <1>1 DEF Counted, Oldest, Behind
<1>3. /\ RefTypes' = RefTypes /\ RefUp' = RefUp /\ RefDown' = RefDown
      /\ RefLoading' = RefLoading
  BY <1>1, <1>2 DEF RefTypes, RefUp, RefDown, RefLoading, SumOf, FirstOf, LiveOf, SlotEntry, Slots
<1>4. CallBase => CallBase'
  BY <1>1, <1>2 DEF CallBase, IsCached
<1>5. Calling => Calling'
  BY <1>1, <1>2, <1>4 DEF Calling, Removing, Writing, Filling, Written
<1> QED BY <1>1, <1>3, <1>5 DEF RefInv, InCall

LEMMA RefInit ==
  ASSUME Init
  PROVE  RefInv
<1>1. /\ slots = Blank /\ cache_idx_head = 0 /\ nb_total_block = 0 /\ data_pos_wr = 0
      /\ list = <<>> /\ pc = "idle" /\ dropping = FALSE /\ cur = NoBlock
  BY DEF Init, CompInit
<1>2. RefTypes
  BY <1>1 DEF RefTypes, Blank, NoBlock, SlotEntry
<1>3. Oldest = 0 /\ Behind = 0 /\ Counted = 0
  <2>1. Len(list) = 0 /\ Counted = 0
    BY <1>1 DEF Counted
  <2> QED BY <2>1, <1>1 DEF Oldest, Behind
<1>4. 0 % NbBlkIdx = 0
  BY RoundLemma
<1>5. RefUp
  BY <1>1, <1>3, <1>4 DEF RefUp
<1> QED BY <1>1, <1>2, <1>5 DEF RefInv, InCall, Apart, Loading

LEMMA RefNext ==
  ASSUME TornInv, TornInv', RefInv, [Next]_vars
  PROVE  RefInv'
<1>1. CASE \E k \in Keys : Compress(k)
  BY <1>1, BeginRef, SameRef DEF Compress
<1>2. CASE Continue
  BY <1>2, AdvanceHeadRef, LapRef, RoomRef, DieRef, WriteRef, SlotRef, FillRef, CountRef,
     LoadStoreRef DEF Continue, InnerStep
<1>3. CASE Return
  BY <1>3, ReturnRef DEF Return
<1>4. CASE Close
  BY <1>4, CloseRef DEF Close
<1>5. CASE \E m \in 0..MaxTotal : Load(m)
  BY <1>5, LoadRef DEF Load
<1>6. CASE UNCHANGED vars
  BY <1>6, SameRef DEF vars
<1> QED BY <1>1, <1>2, <1>3, <1>4, <1>5, <1>6 DEF Next

(* How far each call has come, and what the file holds when it is closed,  *)
(* at every store.                                                         *)
THEOREM RefInvariance == Spec => []RefInv
<1>1. Init => RefInv
  BY RefInit
<1>2. TornInv /\ TornInv' /\ RefInv /\ [Next]_vars => RefInv'
  BY RefNext
<1> QED BY <1>1, <1>2, TornInvariance, PTL DEF Spec

-----------------------------------------------------------------------------
(* The operators of DreCache, of what it sees of the cache.                *)
LEMMA SeenLemma ==
  /\ Whole!First = FirstOf(Seen) /\ Whole!Live = LiveOf(Seen)
  /\ Whole!PreviousLap = PreviousLapOf(Seen)
  /\ \A k : Whole!Matches(k) = {s \in LiveOf(Seen) : Seen.blk[s].key = k}
  /\ \A len : /\ Whole!Rotates(len) <=> RotatesOf(Seen, len)
              /\ Whole!WritePos(len) = WritePosOf(Seen, len)
              /\ Whole!Edging(len) <=> EdgingOf(Seen, len)
  /\ \A pos, len : Whole!InTheWay(pos, len) = InTheWayOf(Seen, pos, len)
<1>1. Whole!First = FirstOf(Seen) /\ Whole!Live = LiveOf(Seen)
  BY DEF Whole!First, Whole!Live, FirstOf, LiveOf
<1>2. Whole!PreviousLap = PreviousLapOf(Seen)
  BY <1>1 DEF Whole!PreviousLap, PreviousLapOf
<1>3. \A k : Whole!Matches(k) = {s \in LiveOf(Seen) : Seen.blk[s].key = k}
  BY <1>1 DEF Whole!Matches
<1>4. \A len : /\ Whole!Rotates(len) <=> RotatesOf(Seen, len)
               /\ Whole!WritePos(len) = WritePosOf(Seen, len)
               /\ Whole!Edging(len) <=> EdgingOf(Seen, len)
  BY DEF Whole!Rotates, RotatesOf, Whole!WritePos, WritePosOf, Whole!Edging, EdgingOf
<1>5. \A pos, len : Whole!InTheWay(pos, len) = InTheWayOf(Seen, pos, len)
  BY <1>1 DEF Whole!InTheWay, Whole!Minus, InTheWayOf
<1> QED BY <1>1, <1>2, <1>3, <1>4, <1>5

(* edge_cache has left f: DreCache's edge_cache can.                       *)
LEMMA EvictsLemma ==
  ASSUME NEW len, NEW f \in Int, FirstOf(Seen) \in Int, Seen.total \in Int,
         Evicts(Seen, len, f)
  PROVE  Whole!EdgeCache(len, f) /\ ~(Whole!Edging(len) /\ f = Seen.total)
<1>1. PICK f1 \in FirstOf(Seen)..f : FirstLoop(Seen, len, f1) /\ SecondLoop(Seen, len, f1, f)
  BY DEF Evicts
<1>2. f1 \in Int /\ FirstOf(Seen) <= f1 /\ f1 <= f /\ f <= Seen.total
  BY <1>1 DEF Evicts
<1>3. f1 \in Whole!First..Seen.total
  BY <1>1, <1>2, SeenLemma DEF Evicts
<1>4. IF Whole!Rotates(len) THEN Whole!Removes(Whole!First, f1, Whole!PreviousLap)
      ELSE f1 = Whole!First
  BY <1>1, <1>2, SeenLemma DEF FirstLoop, Whole!Removes
<1>5. IF Whole!Edging(len) THEN Whole!Removes(f1, f, Whole!InTheWay(Whole!WritePos(len), len))
      ELSE f = f1
  BY <1>1, <1>2, SeenLemma DEF SecondLoop, Whole!Removes
<1>6. ~(Whole!Edging(len) /\ f = Seen.total)
  <2>1. EdgingOf(Seen, len) => f < Seen.total
    BY DEF Evicts
  <2> QED BY <2>1, <1>2, SeenLemma
<1> QED BY <1>3, <1>4, <1>5, <1>6 DEF Whole!EdgeCache

(* A block the cache has, and a tail it does not take: DreCache does the   *)
(* same at once.                                                           *)
LEMMA AtOnceMap ==
  ASSUME TornInv, RefInv, pc = "idle", NEW k \in Keys, out' \in AtOnce(k),
         UNCHANGED <<compVars, was>>
  PROVE  Whole!CompressBlock(k) \/ Whole!Flush(k)
<1>1. Seen = Snapshot /\ Seen' = Snapshot' /\ pc' = pc
  BY DEF Seen, compVars, call
<1>2. Snapshot' = Snapshot
  <2>1. UNCHANGED <<slots, nb_block, nb_total_block, data_pos_wr, list, edge>>
    BY DEF compVars, file
  <2>2. Numbered' = Numbered
    BY <2>1 DEF Numbered
  <2> QED BY <2>1, <2>2 DEF Snapshot
<1>3. CASE IsCached(k) /\ out' \in References(k)
  <2>1. PICK i \in Matches(k) :
          /\ \A j \in Matches(k) : i <= j
          /\ out' = [compressed |-> TRUE, dict_offset |-> slots[list[i]].off, key |-> k]
    BY <1>3 DEF References
  <2> DEFINE s == Oldest + i - 1
  <2>2. s \in LiveOf(Seen) /\ Seen.blk[s] = slots[list[i]] /\ slots[list[i]].key = k
    BY <1>1, <2>1, LookupLemma DEF Snapshot
  <2>3. s \in Whole!Matches(k)
    BY <2>2, SeenLemma
  <2>4. ASSUME NEW t \in Whole!Matches(k)  PROVE s <= t
    <3>1. t \in LiveOf(Snapshot) /\ Numbered[t].key = k
      BY <1>1, SeenLemma DEF Snapshot
    <3>2. t - Oldest + 1 \in Matches(k)
      BY <3>1, LookupLemma
    <3>3. i <= t - Oldest + 1
      BY <3>2, <2>1
    <3>4. t \in Int /\ Oldest \in Nat /\ i \in 1..Len(list) /\ Len(list) \in Nat
      BY <2>1, <3>1, SnapshotLemma DEF Matches
    <3> QED BY <3>3, <3>4
  <2>5. Whole!Hit(k)
    BY <1>1, <1>2, <2>1, <2>2, <2>3, <2>4 DEF Whole!Hit
  <2>6. Whole!Store(k)
    BY <2>5 DEF Whole!Store
  <2> QED BY <1>3, <2>6 DEF IsCached, Whole!CompressBlock, Whole!Flush
<1>4. CASE IsSmall(k) /\ out' = [compressed |-> FALSE, dict_offset |-> 0, key |-> k]
  BY <1>1, <1>2, <1>4 DEF IsSmall, Whole!Flush, Whole!FlushSmall
<1> QED BY <1>3, <1>4 DEF AtOnce

(* The cache a call began with.                                            *)
LEMMA CallLemma ==
  ASSUME TornInv, RefInv, pc \in InCall
  PROVE  /\ Seen = was /\ Calling /\ CallBase /\ RefUp /\ Types /\ Beginning /\ pc \notin Apart
         /\ cur.key \in Keys /\ BlkLen[cur.key] \in Nat
         /\ was.total = nb_total_block /\ nb_total_block \in Nat /\ nb_total_block < MaxTotal
         /\ FirstOf(was) \in Nat /\ FirstOf(was) <= Oldest /\ Oldest \in Nat
         /\ Counted = Oldest + Len(list) /\ Len(list) \in Nat /\ nb_block = Len(list)
         /\ Whole!Matches(cur.key) = {} /\ pc # "dead"
         /\ BlkLen[cur.key] >= StreamMin \/ BlkLen[cur.key] >= MinBlk
<1>1. /\ Calling /\ CallBase /\ RefUp /\ Types /\ Beginning /\ pc \notin Apart /\ pc # "dead"
      /\ Seen = was
  BY DEF InCall, RefInv, Calling, TornInv, Seen, Apart, Loading
<1>2. /\ cur.key \in Keys /\ BlkLen[cur.key] \in Nat
      /\ was.total = nb_total_block /\ nb_total_block \in Nat /\ nb_total_block < MaxTotal
      /\ FirstOf(was) \in Nat /\ FirstOf(was) <= Oldest
      /\ BlkLen[cur.key] >= StreamMin \/ BlkLen[cur.key] >= MinBlk
  BY <1>1, InsertionAssumption DEF CallBase, IsCached, Types, InCall
<1>3. Oldest \in Nat /\ Counted = Oldest + Len(list) /\ Len(list) \in Nat /\ nb_block = Len(list)
  BY <1>1, OldestLemma
<1>4. Whole!Matches(cur.key) = {}
  BY <1>1, SeenLemma DEF CallBase
<1> QED BY <1>1, <1>2, <1>3, <1>4

(* A call returns: its stores make up one insertion.                       *)
LEMMA ReturnMap ==
  ASSUME TornInv, RefInv, CountTotal, out' = Inserted
  PROVE  Whole!Insert(cur.key)
<1> DEFINE k == cur.key
           len == BlkLen[cur.key]
           total == nb_total_block
<1>1. /\ pc = "total" /\ pc' = "idle" /\ nb_total_block' = total + 1
      /\ UNCHANGED <<slots, nb_block, data_pos_wr, list, edge>>
  BY DEF CountTotal, At
<1>2. pc \in InCall
  BY <1>1 DEF InCall
<1>3. /\ Seen = was /\ was.total = total /\ total \in Nat /\ total < MaxTotal /\ len \in Nat
      /\ FirstOf(was) \in Nat /\ Oldest \in Nat /\ Len(list) \in Nat /\ nb_block = Len(list)
      /\ total + 1 = Oldest + Len(list) /\ Whole!Matches(k) = {}
  <2>1. Counted = total + 1
    BY <1>1 DEF Counted
  <2> QED BY <2>1, <1>2, CallLemma
<1>4. /\ data_pos_wr = WritePosOf(was, len) + len /\ cur.off = WritePosOf(was, len)
      /\ edge = (EdgingOf(was, len) \/ (was.total + 1) % NbBlkIdx = 0)
      /\ slots[total % NbBlkIdx] = [key |-> k, off |-> WritePosOf(was, len)]
      /\ \A s \in Oldest..(total - 1) : was.blk[s] = slots[s % NbBlkIdx]
  BY <1>1, <1>2, CallLemma DEF Calling, CallBase, Writing, Filling, Written
<1>5. PICK g \in FirstOf(was)..was.total :
        Evicts(was, len, g) /\ Oldest = AfterSlot(was, len, g)
  BY <1>1, <1>2, CallLemma DEF Calling, Filling, Written
<1>6. g \in Int /\ g \in Whole!First..Seen.total
  BY <1>3, <1>5, SeenLemma
<1>7. Whole!EdgeCache(len, g) /\ ~(Whole!Edging(len) /\ g = Seen.total)
  BY <1>3, <1>5, <1>6, EvictsLemma
<1>8. Whole!AfterNewSlot(len, g) = Oldest
  BY <1>3, <1>5, SeenLemma DEF Whole!AfterNewSlot, AfterSlot, FreesSlot
<1>9. Seen' = Snapshot'
  BY <1>1 DEF Seen
<1>10. Numbered' = [s \in Oldest..total |->
                      IF s = total THEN [key |-> k, off |-> WritePosOf(was, len)]
                      ELSE was.blk[s]]
  <2>1. nb_total_block' - Len(list') = Oldest /\ nb_total_block' - 1 = total
    BY <1>1, <1>3
  <2>2. Numbered' = [s \in Oldest..total |-> slots[list[s - Oldest + 1]]]
    BY <2>1, <1>1 DEF Numbered
  <2>3. ASSUME NEW s \in Oldest..total
        PROVE  slots[list[s - Oldest + 1]] =
                 IF s = total THEN [key |-> k, off |-> WritePosOf(was, len)] ELSE was.blk[s]
    <3>1. Counted - 1 = total
      BY <1>1, <1>3 DEF Counted
    <3>2. list[s - Oldest + 1] = s % NbBlkIdx
      BY <3>1, <1>2, CallLemma, OldestLemma
    <3>3. s # total => s \in Oldest..(total - 1)
      BY <1>3
    <3> QED BY <3>2, <3>3, <1>4
  <2> QED BY <2>2, <2>3
<1>11. /\ Seen'.blk = Numbered' /\ Seen'.nb = total + 1 - Oldest /\ Seen'.total = total + 1
       /\ Seen'.pos = WritePosOf(was, len) + len /\ Seen'.edge = edge
  <2>1. nb_block = total + 1 - Oldest
    BY <1>3
  <2> QED BY <2>1, <1>1, <1>4, <1>9 DEF Snapshot
<1>12. out' = [compressed |-> FALSE, dict_offset |-> WritePosOf(was, len), key |-> k]
  BY <1>4 DEF Inserted
<1>13. Seen.total = total /\ Whole!WritePos(len) = WritePosOf(was, len)
       /\ (Whole!Edging(len) <=> EdgingOf(was, len))
  BY <1>3, SeenLemma
<1> HIDE DEF k, len, total
<1> QED BY <1>1, <1>3, <1>4, <1>6, <1>7, <1>8, <1>10, <1>11, <1>12, <1>13
        DEF Whole!Insert, k, len

(* Either loop of edge_cache runs out of blocks.                           *)
LEMMA DieMap ==
  ASSUME TornInv, RefInv, Die, UNCHANGED <<out, was>>
  PROVE  Whole!InsertFaults(cur.key)
<1> DEFINE k == cur.key
           len == BlkLen[cur.key]
           total == nb_total_block
           way == InTheWayOf(was, WritePosOf(was, len), len)
<1>1. /\ pc \in {"lap", "room"} /\ pc' = "dead" /\ list = <<>>
      /\ UNCHANGED <<slots, nb_block, nb_total_block, data_pos_wr, list, edge, out>>
  BY DieLemma DEF Die, file
<1>2. pc \in InCall /\ Counted = total /\ Len(list) = 0
  BY <1>1 DEF InCall, Counted, TornInv, Types
<1>3. /\ Seen = was /\ was.total = total /\ total \in Nat /\ total < MaxTotal
      /\ FirstOf(was) \in Nat /\ FirstOf(was) <= total /\ Oldest = total /\ nb_block = 0
      /\ Whole!Matches(k) = {} /\ Calling /\ Beginning
  BY <1>2, CallLemma
<1>4. total \notin LiveOf(was) /\ total..(total - 1) = {}
  BY <1>3 DEF LiveOf
<1>5. total \notin PreviousLapOf(was) /\ total \notin way
  BY <1>4 DEF PreviousLapOf, InTheWayOf
<1>6. Seen' = Snapshot'
  BY <1>1 DEF Seen
<1>7. /\ Seen'.blk = [s \in {} |-> Whole!NoOut] /\ Seen'.nb = 0
      /\ Seen'.total = total /\ Seen'.pos = data_pos_wr /\ Seen'.edge = edge
  <2>1. nb_total_block' - Len(list') = total /\ nb_total_block' - 1 = total - 1
    BY <1>1, <1>2, <1>3
  <2>2. Numbered' = [s \in {} |-> slots[list[s - total + 1]]]
    BY <2>1, <1>1, <1>4 DEF Numbered
  <2>3. Numbered' = [s \in {} |-> Whole!NoOut]
    BY <2>2
  <2> QED BY <2>3, <1>1, <1>3, <1>6 DEF Snapshot
<1>8. /\ EdgingOf(was, len)
      /\ \E f1 \in FirstOf(was)..total :
           /\ IF RotatesOf(was, len)
                THEN FirstOf(was)..(f1 - 1) \subseteq PreviousLapOf(was)
                     /\ f1 \notin PreviousLapOf(was)
                ELSE f1 = FirstOf(was)
           /\ f1..(total - 1) \subseteq way
      /\ IF RotatesOf(was, len) /\ ~(FirstOf(was)..(total - 1) \subseteq PreviousLapOf(was))
           THEN data_pos_wr = 0 /\ edge = TRUE
           ELSE data_pos_wr = was.pos /\ edge = was.edge
  <2>1. CASE pc = "lap"
    <3>1. /\ RotatesOf(was, len) /\ data_pos_wr = was.pos /\ edge = was.edge
          /\ FirstOf(was)..(total - 1) \subseteq PreviousLapOf(was)
      BY <2>1, <1>3 DEF Calling, Removing
    <3>2. total \in FirstOf(was)..total /\ total..(total - 1) \subseteq way
      BY <1>3, <1>4
    <3> QED BY <3>1, <3>2, <1>5 DEF EdgingOf
  <2>2. CASE pc = "room"
    <3>1. /\ data_pos_wr = WritePosOf(was, len) /\ EdgingOf(was, len)
          /\ (~RotatesOf(was, len) => edge = was.edge) /\ edge = TRUE
      BY <2>2, <1>3 DEF Calling, Removing, Beginning
    <3>2. PICK f1 \in FirstOf(was)..total :
            /\ FirstLoop(was, len, f1)
            /\ RotatesOf(was, len) => f1 < total
            /\ f1..(total - 1) \subseteq way
      BY <2>2, <1>3 DEF Calling, Removing
    <3>3. RotatesOf(was, len) => f1 \in FirstOf(was)..(total - 1) /\ f1 \notin PreviousLapOf(was)
      BY <3>2, <1>3 DEF FirstLoop
    <3>4. IF RotatesOf(was, len) /\ ~(FirstOf(was)..(total - 1) \subseteq PreviousLapOf(was))
            THEN data_pos_wr = 0 /\ edge = TRUE
            ELSE data_pos_wr = was.pos /\ edge = was.edge
      BY <3>1, <3>3 DEF WritePosOf
    <3> QED BY <3>1, <3>2, <3>4 DEF FirstLoop
  <2> QED BY <2>1, <2>2, <1>1
<1>9. Whole!EdgeCache(len, total)
  <2>1. PICK f1 \in FirstOf(was)..total :
          /\ IF RotatesOf(was, len)
               THEN FirstOf(was)..(f1 - 1) \subseteq PreviousLapOf(was)
                    /\ f1 \notin PreviousLapOf(was)
               ELSE f1 = FirstOf(was)
          /\ f1..(total - 1) \subseteq way
    BY <1>8
  <2>2. f1 \in Whole!First..Seen.total /\ FirstOf(was) <= f1 /\ f1 <= total
    BY <2>1, <1>3, SeenLemma
  <2>3. IF Whole!Rotates(len) THEN Whole!Removes(Whole!First, f1, Whole!PreviousLap)
        ELSE f1 = Whole!First
    BY <2>1, <2>2, <1>3, SeenLemma DEF Whole!Removes
  <2>4. Whole!Removes(f1, total, Whole!InTheWay(Whole!WritePos(len), len))
    BY <2>1, <2>2, <1>3, <1>5, SeenLemma DEF Whole!Removes
  <2>5. Whole!Edging(len)
    BY <1>3, <1>8, SeenLemma
  <2> QED BY <2>2, <2>3, <2>4, <2>5 DEF Whole!EdgeCache
<1>10. IF Whole!Rotates(len) /\ ~Whole!Removes(Whole!First, Seen.total, Whole!PreviousLap)
         THEN data_pos_wr = 0 /\ edge = TRUE
         ELSE data_pos_wr = Seen.pos /\ edge = Seen.edge
  <2>1. Whole!Removes(Whole!First, total, Whole!PreviousLap) <=>
          FirstOf(was)..(total - 1) \subseteq PreviousLapOf(was)
    BY <1>3, <1>5, SeenLemma DEF Whole!Removes
  <2> QED BY <2>1, <1>3, <1>8, SeenLemma
<1>11. Whole!Edging(len) /\ Seen.total = total
  BY <1>3, <1>8, SeenLemma
<1> HIDE DEF k, len, total, way
<1> QED BY <1>1, <1>3, <1>7, <1>9, <1>10, <1>11 DEF Whole!InsertFaults, k, len

(* comp_load_dre_cache restores what was there when the cache was closed.  *)
LEMMA LoadMap ==
  ASSUME TornInv, TornInv', RefInv, RefInv', StorePosition, UNCHANGED <<out, was>>
  PROVE  cur.left \in 0..MaxTotal /\ Whole!Load(cur.left)
<1> DEFINE oldest == FirstOf(was)
           total == nb_total_block
           m == cur.left
<1>1. /\ pc = "position" /\ pc' = "idle"
      /\ data_pos_wr' = slots[list[Len(list)]].off + LenOf(slots[list[Len(list)]].key)
      /\ UNCHANGED <<slots, nb_block, nb_total_block, list, edge, out, was>>
  BY DEF StorePosition
<1>2. Seen = was /\ Seen' = Snapshot' /\ Types /\ Loaded /\ RefLoading
  BY <1>1 DEF Seen, TornInv, RefInv, Loading
<1>3. /\ oldest \in Nat /\ total \in Nat /\ nb_block \in Nat /\ nb_block = total - oldest
      /\ nb_block = Len(list) /\ nb_block >= 1 /\ total <= was.total /\ total = SumOf(m)
      /\ \A s \in oldest..(total - 1) :
           /\ s \in LiveOf(was) /\ s - oldest + 1 \in 1..Len(list)
           /\ list[s - oldest + 1] = s % NbBlkIdx
      /\ list[Len(list)] = (total - 1) % NbBlkIdx
  BY <1>1, LoadedLemma
<1>4. /\ m \in 0..MaxTotal /\ m \in Nat /\ m <= was.total /\ (m = 0 => total = was.total)
      /\ edge = (was.total > was.nb)
      /\ was.nb > 0 /\ ~(was.nb = NbBlkIdx /\ was.total = NbBlkIdx)
      /\ m > 0 => \/ oldest % NbBlkIdx < was.total % NbBlkIdx
                  \/ m - oldest >= NbBlkIdx - (oldest % NbBlkIdx)
      /\ \A s \in LiveOf(was) :
           was.blk[s] = slots[s % NbBlkIdx] /\ slots[s % NbBlkIdx].key \in Keys
  BY <1>2, WrapLemma DEF RefLoading, Loaded
<1> HIDE DEF oldest
<1>5. total = IF m = 0 THEN was.total ELSE m
  BY <1>3, <1>4 DEF SumOf
<1>6. Whole!First = oldest
  BY <1>2, SeenLemma DEF oldest
<1>7. Whole!LoadIsSound(m)
  <2>1. m > 0 => oldest < m
    BY <1>3, <1>4, <1>5
  <2> QED BY <2>1, <1>2, <1>4, <1>6 DEF Whole!LoadIsSound, Whole!Slot
<1>8. Numbered' = [s \in oldest..(total - 1) |-> was.blk[s]]
  <2>1. total - Len(list) = oldest
    BY <1>3
  <2>2. Numbered' = [s \in oldest..(total - 1) |-> slots[list[s - oldest + 1]]]
    BY <2>1, <1>1 DEF Numbered
  <2> QED BY <2>2, <1>3, <1>4
<1>9. data_pos_wr' = Whole!End(Seen.blk[total - 1])
  <2>1. total - 1 \in oldest..(total - 1)
    BY <1>3
  <2>2. /\ was.blk[total - 1] = slots[(total - 1) % NbBlkIdx]
        /\ slots[(total - 1) % NbBlkIdx].key \in Keys
    BY <2>1, <1>3, <1>4
  <2> QED BY <2>2, <1>1, <1>2, <1>3, InsertionAssumption DEF LenOf, Whole!End
<1>10. /\ Seen'.blk = Numbered' /\ Seen'.nb = total - oldest /\ Seen'.total = total
       /\ Seen'.pos = data_pos_wr' /\ Seen'.edge = (Seen.total > Seen.nb)
  BY <1>1, <1>2, <1>3, <1>4 DEF Snapshot
<1> HIDE DEF m, total
<1>11. Whole!Load(m)
  BY <1>1, <1>2, <1>5, <1>6, <1>7, <1>8, <1>9, <1>10 DEF Whole!Load
<1> QED BY <1>4, <1>11 DEF m

-----------------------------------------------------------------------------
(* Every step of CompSteps is one of DreCache, or changes nothing there.   *)
LEMMA StepMap ==
  ASSUME TornInv, TornInv', RefInv, RefInv', [Next]_vars
  PROVE  [Whole!Next]_(Whole!vars)
<1>1. ASSUME NEW k \in Keys, Compress(k)  PROVE [Whole!Next]_(Whole!vars)
  <2>1. CASE pc = "idle" /\ out' \in AtOnce(k) /\ UNCHANGED <<compVars, was>>
    BY <2>1, AtOnceMap DEF Whole!Next
  <2>2. CASE Begin(k) /\ was' = Snapshot /\ UNCHANGED out
    <3>1. pc = "idle" /\ pc' \in InCall
      BY <2>2 DEF Begin, InCall
    <3>2. Seen = Snapshot /\ Seen' = Snapshot /\ pc # "dead" /\ pc' # "dead"
      BY <2>2, <3>1 DEF Seen, InCall
    <3> QED BY <2>2, <3>2 DEF Whole!vars
  <2> QED BY <1>1, <2>1, <2>2 DEF Compress
<1>2. CASE Continue
  <2>1. CASE Die
    <3>1. pc \in InCall
      BY <2>1, DieLemma
    <3>2. Whole!InsertFaults(cur.key)
      BY <1>2, <2>1, DieMap DEF Continue
    <3>3. Whole!Store(cur.key) /\ pc # "dead"
      BY <3>1, <3>2, CallLemma DEF Whole!Store
    <3> QED BY <3>1, <3>3, CallLemma DEF Whole!Next, Whole!CompressBlock, Whole!Flush
  <2>2. CASE LoadStore
    <3>1. CASE StorePosition
      <4>1. cur.left \in 0..MaxTotal /\ Whole!Load(cur.left)
        BY <1>2, <3>1, LoadMap DEF Continue
      <4> QED BY <4>1 DEF Whole!Next
    <3>2. CASE StoreTail \/ StoreNbBlock \/ StoreNbTotal
      <4>1. pc \in Loading /\ pc' \in Loading
        BY <3>2 DEF StoreTail, StoreNbBlock, StoreNbTotal, Loading
      <4>2. Seen = was /\ Seen' = was' /\ was' = was /\ out' = out /\ pc # "dead" /\ pc' # "dead"
        BY <4>1, <1>2 DEF Seen, Loading, Continue
      <4> QED BY <4>2 DEF Whole!vars
    <3> QED BY <2>2, <3>1, <3>2 DEF LoadStore
  <2>3. CASE ~Die /\ ~LoadStore
    <3>1. pc \in InCall /\ pc' \in InCall
      <4>1. AdvanceHead => pc \in InCall /\ pc' = pc
        BY DEF AdvanceHead, TornInv, Types, InCall
      <4>2. LeavePreviousLap \/ MakeRoom \/ FreeSlot => pc \in InCall /\ pc' = pc
        BY DEF LeavePreviousLap, MakeRoom, FreeSlot, Drop, At, InCall
      <4>3. Rotate \/ RoomMade \/ WritePart => pc \in InCall /\ pc' \in InCall
        BY DEF Rotate, RoomMade, WritePart, At, InCall
      <4>4. TakeSlot \/ FillKey \/ FillOffset \/ CountBlock => pc \in InCall /\ pc' \in InCall
        BY DEF TakeSlot, FillKey, FillOffset, CountBlock, At, InCall
      <4> QED BY <1>2, <2>3, <4>1, <4>2, <4>3, <4>4 DEF Continue, InnerStep
    <3>2. Seen = was /\ Seen' = was' /\ was' = was /\ out' = out /\ pc # "dead" /\ pc' # "dead"
      BY <3>1, <1>2 DEF Seen, InCall, Continue
    <3> QED BY <3>2 DEF Whole!vars
  <2> QED BY <2>1, <2>2, <2>3
<1>3. CASE Return
  <2>1. pc \in InCall /\ Whole!Insert(cur.key)
    BY <1>3, ReturnMap DEF Return, CountTotal, At, InCall
  <2>2. Whole!Store(cur.key)
    BY <2>1 DEF Whole!Store
  <2> QED BY <2>1, <2>2, CallLemma DEF Whole!Next, Whole!CompressBlock, Whole!Flush
<1>4. CASE Close
  <2>1. pc = "idle" /\ pc' = "down" /\ was' = Snapshot /\ out' = out
    BY <1>4 DEF Close, CompClose, CompEnd
  <2>2. Seen = Snapshot /\ Seen' = was'
    BY <2>1 DEF Seen
  <2> QED BY <2>1, <2>2 DEF Whole!vars
<1>5. CASE \E m \in 0..MaxTotal : Load(m)
  <2>1. pc = "down" /\ pc' = "tail" /\ UNCHANGED <<out, was>>
    BY <1>5 DEF Load, CompLoad
  <2>2. Seen = was /\ Seen' = was'
    BY <2>1 DEF Seen
  <2> QED BY <2>1, <2>2 DEF Whole!vars
<1>6. CASE UNCHANGED vars
  <2>1. UNCHANGED <<slots, list, nb_block, nb_total_block, data_pos_wr, edge, pc, was, out>>
    BY <1>6 DEF vars, compVars, file, call
  <2>2. Seen' = Seen
    BY <2>1 DEF Seen, Snapshot, Numbered
  <2> QED BY <2>1, <2>2 DEF Whole!vars
<1> QED BY <1>1, <1>2, <1>3, <1>4, <1>5, <1>6 DEF Next

LEMMA InitMap ==
  ASSUME Init
  PROVE  Whole!Init
<1>1. /\ nb_block = 0 /\ nb_total_block = 0 /\ data_pos_wr = 0 /\ list = <<>> /\ edge = FALSE
      /\ pc = "idle" /\ out = NoOut
  BY DEF Init, CompInit
<1>2. Seen = Snapshot
  BY <1>1 DEF Seen
<1>3. Numbered = [s \in {} |-> Whole!NoOut]
  <2>1. Len(list) = 0
    BY <1>1
  <2>2. (nb_total_block - Len(list))..(nb_total_block - 1) = {}
    BY <2>1, <1>1
  <2>3. Numbered = [s \in {} |-> slots[list[s - (nb_total_block - Len(list)) + 1]]]
    BY <2>2 DEF Numbered
  <2> QED BY <2>3
<1> QED BY <1>1, <1>2, <1>3 DEF Whole!Init, Snapshot, NoOut, Whole!NoOut

(* ImplementsDreCache of CompSteps, for every number of slots, size of     *)
(* data area and set of block lengths: whichever blocks the loops of       *)
(* edge_cache remove and however the writing is split, the stores of a     *)
(* call that returns add up to one insertion of DreCache, those of a call  *)
(* that dies to its fault, and a reload finds what was closed.             *)
THEOREM StepsImplementDreCache == Spec => ImplementsDreCache
<1>1. Init => Whole!Init
  BY InitMap
<1>2. TornInv /\ TornInv' /\ RefInv /\ RefInv' /\ [Next]_vars => [Whole!Next]_(Whole!vars)
  BY StepMap
<1> QED BY <1>1, <1>2, TornInvariance, RefInvariance, PTL
        DEF Spec, ImplementsDreCache, Whole!Spec
=============================================================================
