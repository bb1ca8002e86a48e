-------------------------- MODULE CrashLinkProofs --------------------------
(* Proofs about CrashLink: what the two ends have at any moment, inside a  *)
(* call too, and after a crash of either, is what they have in DreLink     *)
(* between two of its operations.  An insertion takes place there when the *)
(* block is counted, a removal when the head moves, and the storing of a   *)
(* block received when it begins.                                          *)
EXTENDS CrashLink, FiniteSetTheorems, TLAPS

(* What CompStepsProofs says of the compressor alone.                      *)
Steps == INSTANCE CompStepsProofs WITH out <- <<>>, was <- <<>>

-----------------------------------------------------------------------------
(* The compressor's end of DreLink.  The header counts a block less than   *)
(* was stored while nb_total_block follows nb_block, and for good if the   *)
(* process dies there; a load takes its blocks from nb_block before it     *)
(* takes them from nb_total_block; the head is one behind the first of the *)
(* nb_block blocks while it follows them.                                  *)
Over == (IF pc = "total" \/ "comp" \in uncounted THEN 1 ELSE 0) - cut
Linked == (nb_total_block + Over) - nb_block
HeadNo == IF cache_idx_head = Linked % NbBlkIdx THEN Linked ELSE Linked - 1

SlotOf(s) == slots[s % NbBlkIdx]
EndOf(s) == SlotOf(s).off + BlkLen[SlotOf(s).key]
Held == HeadNo..(nb_total_block - 1)

VBlk == [s \in Held |-> SlotOf(s)]
VNb == nb_total_block - HeadNo
VPos == IF HeadNo = nb_total_block THEN 0 ELSE EndOf(nb_total_block - 1)
VEdge == HeadNo > 0 \/ nb_total_block >= NbBlkIdx
VFault == nb_total_block > 0 /\ HeadNo = nb_total_block

(* The decompressor's.                                                     *)
Laying == {"rotate", "copy"}
Storing == {"rotate", "copy", "advance", "size", "total", "count"}

Place == IF dpc = "rotate" /\ dpos + Len(tmp) > DCacheSz THEN 0 ELSE dpos
VMem == IF dpc \in Laying
          THEN [p \in DOMAIN mem |-> IF p \in Place..(Place + Len(tmp) - 1)
                                       THEN tmp[p - Place + 1] ELSE mem[p]]
          ELSE mem
VDpos == IF dpc \in Laying \cup {"advance"} THEN Place + Len(tmp) ELSE dpos
VSize == IF dpc \in Laying \cup {"advance", "size"} THEN Len(tmp) ELSE last_block_size
VTotal == IF dpc \in Storing \ {"count"} THEN dtotal + 1 ELSE dtotal
VDnb == IF dpc \in Storing THEN dnb + 1 ELSE dnb
VGot == IF coming = NoKey THEN got ELSE Bytes(coming)

NoOut == [compressed |-> FALSE, dict_offset |-> 0, key |-> NoKey]

Link == INSTANCE DreLinkProofs WITH
  blk <- VBlk, nb_block <- VNb, data_pos_wr <- VPos, edge <- VEdge, fault <- VFault,
  mem <- VMem, dpos <- VDpos, last_block_size <- VSize, dtotal <- VTotal, dnb <- VDnb,
  got <- VGot, out <- NoOut,
  FakeSz <- 1, NoByte <- NoKey, MaxOuts <- 0,
  area <- <<>>, fake <- <<>>, fake_pos <- 0, calling <- "no", outs <- <<>>,
  tail_null <- FALSE, formed <- <<>>, failed <- FALSE, fresh <- 0, room <- 0

-----------------------------------------------------------------------------
(* The header and the ring, with or without a process.                     *)
Types ==
  /\ slots \in [Slots -> Steps!SlotEntry]
  /\ cache_idx_head \in Slots /\ cache_idx_tail \in Slots
  /\ nb_block \in 0..NbBlkIdx
  /\ nb_total_block \in 0..MaxTotal
  /\ data_pos_wr \in Nat
  /\ cur \in [key : Keys \cup {NoKey}, off : Nat, left : Int]
  /\ uncounted \subseteq {"comp", "decomp"}
  /\ joined \in BOOLEAN
  /\ "comp" \in uncounted => pc = "down" /\ cut = 0
  /\ cut \in Nat
  /\ cut > 0 => pc \in {"nb_total", "down"}
  /\ "decomp" \in uncounted => ~joined
  /\ pc = "down" => list = <<>> /\ ~edge
  /\ pc \in Steps!Apart => ~dropping

(* The ring holds the blocks of the view, whatever a crash interrupted;    *)
(* one that was linked and not counted follows them.                       *)
Ring ==
  /\ HeadNo \in 0..nb_total_block
  /\ nb_total_block - HeadNo <= NbBlkIdx
  /\ cache_idx_head = HeadNo % NbBlkIdx
  /\ \A s \in Held : SlotOf(s).key \in Keys
  /\ Over = 1 =>
       /\ HeadNo = Linked /\ nb_total_block + 1 - HeadNo <= NbBlkIdx
       /\ ~VFault
       /\ SlotOf(nb_total_block).key \in Keys
       /\ \A s \in Held : SlotOf(s).key # SlotOf(nb_total_block).key

(* The running process has the list the file has, once it has loaded it.   *)
Up == pc \notin Steps!Apart => Steps!TornInv /\ Steps!RefUp

-----------------------------------------------------------------------------
(* A call of the compressor.                                               *)
Turns(len) == VPos + len > CacheSz
StartAt(len) == IF Turns(len) THEN 0 ELSE VPos

Calling(k) ==
  LET len == BlkLen[k] IN
  /\ IsCached(k)
  /\ \A s \in Held : SlotOf(s).key # k
  /\ pc = "lap" =>
       /\ Turns(len) \/ VFault
       /\ cur.left = len
       /\ ~VFault => data_pos_wr = VPos
  /\ pc = "room" =>
       /\ cur.left = len
       /\ ~VFault =>
            /\ data_pos_wr = StartAt(len)
            /\ Turns(len) => HeadNo < nb_total_block /\ SlotOf(HeadNo).off < VPos
  /\ pc \in {"write", "slot", "fill", "offset", "count", "total"} =>
       /\ ~VFault
       /\ Link!Clear(k)
  /\ pc = "write" =>
       /\ cur.left \in 0..len
       /\ data_pos_wr = StartAt(len) + (len - cur.left)
       /\ cur.left < len => cur.off = StartAt(len)
  /\ pc \in {"slot", "fill", "offset", "count", "total"} =>
       data_pos_wr = StartAt(len) + len /\ cur.off = StartAt(len)
  /\ pc = "offset" => SlotOf(nb_total_block).key = k
  /\ pc \in {"count", "total"} =>
       SlotOf(nb_total_block) = [key |-> k, off |-> StartAt(len)]

CallInv ==
  /\ pc \in Steps!InCall => cur.key \in Keys /\ \A k \in Keys : k = cur.key => Calling(k)
  /\ pc = "idle" => ~VFault /\ data_pos_wr = VPos

-----------------------------------------------------------------------------
(* While a load stores, the two ends are connected and have not come       *)
(* together yet: they do when nb_total_block is set.                       *)
Settling == {"tail", "nb_block", "nb_total"}
Session == joined /\ pc \notin Settling

(* What the decompressor is doing.                                         *)
StoreInv ==
  /\ mem \in [Link!Area -> Link!Cell] /\ dpos \in Nat /\ dtotal \in Nat
  /\ last_block_size \in Nat
  /\ dtotal > 0 => last_block_size > 0
  /\ dpc \in Storing \cup {"idle", "down"}
  /\ dpc \in Storing =>
       /\ Session /\ coming \in Keys /\ tmp = Bytes(coming)
       /\ BlkLen[coming] <= DCacheSz /\ BlkLen[coming] >= DMinBlk
  /\ dpc \notin Storing => coming = NoKey /\ tmp = <<>>
  /\ ~Session => chan = <<>>
  /\ dpc = "down" => ~joined
  /\ dpc \in {"copy", "advance"} => dpos + Len(tmp) <= DCacheSz
  /\ dpc = "advance" => mem[dpos + Len(tmp) - 1] = <<coming, Len(tmp)>>
  /\ dpc \in {"size", "total"} =>
       dpos - 1 \in Link!Area /\ mem[dpos - 1] = <<coming, Len(tmp)>>
  /\ dpc \in {"total", "count"} => last_block_size = Len(tmp)
  /\ dpc = "count" => dtotal > 0

(* Block n - 1, if the compressor still has it, is the block k, and block  *)
(* n is not.                                                               *)
Before(n, k) ==
  /\ n - 1 \in Held => SlotOf(n - 1).key = k
  /\ n \in Held => SlotOf(n).key # k

(* The same block is not inserted twice in a row.                          *)
ChanApart ==
  /\ \A i \in 1..Len(chan) :
       Link!IsNew(chan[i]) =>
         /\ Before(VTotal + Cardinality(Link!NewIn(chan, i)), chan[i].key)
         /\ BlkLen[chan[i].key] <= CacheSz
  /\ dpc \in Storing => Before(VTotal, coming)

(* The bytes the crc is taken of lie in the mapping.                       *)
CrcReadable == last_block_size <= dpos

(* The block the crc of a decompressor that died would be that of.         *)
DOver == dpc \in {"size", "total"} \/ "decomp" \in uncounted
CrcSays ==
  /\ dtotal <= nb_total_block
  /\ dtotal > 0 /\ CrcReadable =>
       \A k \in Keys :
         LastBlockCrc = Bytes(k) =>
           IF DOver THEN dtotal < nb_total_block /\ Before(dtotal + 1, k)
           ELSE /\ Before(dtotal, k)
                /\ dtotal - 1 \in Held => dpos = EndOf(dtotal - 1)

(* What a decompressor that died has left.                                 *)
DataThere ==
  mem = DBlank \/
    \A s \in Held : s < dtotal =>
      \A i \in 1..BlkLen[SlotOf(s).key] :
        /\ SlotOf(s).off + i - 1 \in Link!Area
        /\ mem[SlotOf(s).off + i - 1] = <<SlotOf(s).key, i>>
DataKept == ~Session => DataThere

(* What relates the two ends.                                              *)
Relation ==
  /\ Link!IInv
  /\ Session => Link!LinkInv
  /\ StoreInv /\ ChanApart /\ CrcSays /\ DataKept

EndsInv == Types /\ Ring /\ Up /\ CallInv /\ Relation

(* A load in progress: its list is the blocks up to the decompressor's     *)
(* last one, and its stores bring the header there one at a time.          *)
Reload ==
  pc \in Loading =>
    /\ cur.left = dtotal /\ dtotal > 0
    /\ dtotal - 1 \in Held /\ dpos = EndOf(dtotal - 1)
    /\ chan = <<>> /\ dpc \in {"idle", "down"} /\ uncounted = {}
    /\ joined => mem # DBlank
    /\ HeadNo = Linked
    /\ HeadNo = 0 => nb_total_block < NbBlkIdx
    /\ list \in Seq(Slots) /\ Len(list) = dtotal - HeadNo
    /\ \A i \in 1..Len(list) : list[i] = Steps!Round(cache_idx_head + i - 1)
    /\ edge = (HeadNo > 0)
    /\ pc = "tail" => LoadEnd = Steps!Round(cache_idx_head + Len(list))
    /\ pc # "tail" => cache_idx_tail = Steps!Round(cache_idx_head + Len(list))
    /\ pc \in {"tail", "nb_block"} => MaxCount(dtotal) = Len(list)
    /\ pc \in {"nb_total", "position"} => nb_block = Len(list)
    /\ pc = "nb_total" => cut = nb_total_block - dtotal
    /\ pc = "position" => nb_total_block = dtotal

CrashInv == EndsInv /\ Reload

-----------------------------------------------------------------------------
(* The assumptions of the instances.                                       *)
LEMMA Assumptions ==
  /\ Steps!InsertionAssumption
  /\ Link!CacheAssumption /\ Link!LinkAssumption /\ Link!OutAssumption
<1>1. /\ NbBlkIdx \in Nat \ {0, 1} /\ MaxTotal \in Nat /\ Wrap \in Nat
      /\ NoKey \notin Keys /\ Wrap > MaxTotal + NbBlkIdx
  BY InsertionAssumption
<1>2. Link!CacheAssumption
  BY <1>1, CrashLinkAssumption DEF Link!CacheAssumption
<1>3. Link!LinkAssumption
  BY DecoderAssumption, CrashLinkAssumption DEF Link!LinkAssumption
<1>4. Link!OutAssumption
  BY DEF Link!OutAssumption
<1>5. Steps!InsertionAssumption
  BY InsertionAssumption DEF Steps!InsertionAssumption
<1> QED BY <1>2, <1>3, <1>4, <1>5

LEMMA Constants ==
  /\ NbBlkIdx \in Nat /\ NbBlkIdx >= 2 /\ Slots = 0..(NbBlkIdx - 1)
  /\ CacheSz \in Nat /\ CacheSz > 0 /\ MaxLen \in Nat /\ MaxTotal \in Nat
  /\ Wrap \in Nat /\ Wrap > CacheSz + MaxLen /\ Wrap > MaxTotal + NbBlkIdx
  /\ DCacheSz \in Nat /\ DCacheSz > 0 /\ DMinBlk \in Nat /\ MinBlk \in Nat
  /\ NoKey \notin Keys
  /\ \A k \in Keys : BlkLen[k] \in Nat /\ BlkLen[k] > 0 /\ BlkLen[k] <= MaxLen /\ LenOf(k) = BlkLen[k]
<1>1. \A k \in Keys : BlkLen[k] \in 1..MaxLen /\ LenOf(k) = BlkLen[k]
  BY InsertionAssumption, CrashLinkAssumption DEF LenOf
<1> QED BY <1>1, InsertionAssumption, CrashLinkAssumption, DecoderAssumption DEF Slots

-----------------------------------------------------------------------------
(* Going round the ring.                                                   *)
LEMMA Apart ==
  ASSUME NEW s \in Int, NEW t \in Int, s < t, t < s + NbBlkIdx, s >= 0
  PROVE  s % NbBlkIdx # t % NbBlkIdx
<1>1. s \in Nat /\ t \in Nat
  OBVIOUS
<1> QED BY <1>1, Assumptions, Steps!DistinctLemma

LEMMA InRing ==
  ASSUME NEW s \in Nat
  PROVE  s % NbBlkIdx \in Slots
BY Constants

(* The view, in the terms of DreCache.                                     *)
LEMMA RingFacts ==
  ASSUME Types, Ring
  PROVE  /\ HeadNo \in Nat /\ nb_total_block \in Nat /\ HeadNo <= nb_total_block
         /\ nb_total_block - HeadNo <= NbBlkIdx /\ nb_total_block <= MaxTotal
         /\ \A s \in Held : /\ s \in Nat /\ HeadNo <= s /\ s < nb_total_block
                            /\ s % NbBlkIdx \in Slots
                            /\ SlotOf(s).key \in Keys /\ SlotOf(s).off \in Nat
                            /\ SlotOf(s) = [key |-> SlotOf(s).key, off |-> SlotOf(s).off]
                            /\ EndOf(s) = SlotOf(s).off + BlkLen[SlotOf(s).key]
                            /\ EndOf(s) \in Nat
         /\ nb_total_block > HeadNo => nb_total_block - 1 \in Held /\ HeadNo \in Held
         /\ VPos \in Nat
<1>1. /\ HeadNo \in Nat /\ nb_total_block \in Nat /\ HeadNo <= nb_total_block
      /\ nb_total_block - HeadNo <= NbBlkIdx /\ nb_total_block <= MaxTotal
  BY Constants DEF Types, Ring
<1>2. ASSUME NEW s \in Held
      PROVE  /\ s \in Nat /\ HeadNo <= s /\ s < nb_total_block
             /\ s % NbBlkIdx \in Slots
             /\ SlotOf(s).key \in Keys /\ SlotOf(s).off \in Nat
             /\ SlotOf(s) = [key |-> SlotOf(s).key, off |-> SlotOf(s).off]
             /\ EndOf(s) = SlotOf(s).off + BlkLen[SlotOf(s).key]
             /\ EndOf(s) \in Nat
  <2>1. s \in Nat /\ HeadNo <= s /\ s < nb_total_block
    BY <1>1 DEF Held
  <2>2. s % NbBlkIdx \in Slots
    BY <2>1, InRing
  <2>3. SlotOf(s) \in [key : Keys \cup {NoKey}, off : Nat]
    BY <2>2 DEF Types, Steps!SlotEntry, SlotOf
  <2>4. SlotOf(s).key \in Keys
    BY DEF Ring
  <2>5. SlotOf(s).off \in Nat /\ SlotOf(s) = [key |-> SlotOf(s).key, off |-> SlotOf(s).off]
    BY <2>3
  <2>6. EndOf(s) = SlotOf(s).off + BlkLen[SlotOf(s).key] /\ EndOf(s) \in Nat
    BY <2>4, <2>5, Constants DEF EndOf
  <2> QED BY <2>1, <2>2, <2>4, <2>5, <2>6
<1>3. nb_total_block > HeadNo => nb_total_block - 1 \in Held /\ HeadNo \in Held
  BY <1>1 DEF Held
<1>4. VPos \in Nat
  BY <1>1, <1>2, <1>3 DEF VPos
<1> QED BY <1>1, <1>2, <1>3, <1>4

LEMMA ViewFacts ==
  ASSUME Types, Ring
  PROVE  /\ Link!First = HeadNo /\ Link!Live = Held
         /\ \A s \in Held : VBlk[s] = SlotOf(s) /\ Link!End(VBlk[s]) = EndOf(s)
         /\ VNb = nb_total_block - HeadNo /\ VNb \in Nat
         /\ VFault \in BOOLEAN /\ VEdge \in BOOLEAN
<1>1. HeadNo \in Nat /\ nb_total_block \in Nat /\ HeadNo <= nb_total_block
  BY RingFacts
<1>2. Link!First = HeadNo
  BY <1>1 DEF Link!First, VNb
<1>3. Link!Live = Held
  BY <1>2 DEF Link!Live, Held
<1>4. \A s \in Held : VBlk[s] = SlotOf(s)
  BY DEF VBlk
<1>5. \A s \in Held : Link!End(VBlk[s]) = EndOf(s)
  BY <1>4 DEF Link!End, EndOf
<1> QED BY <1>1, <1>2, <1>3, <1>4, <1>5 DEF VNb, VFault, VEdge

(* With a process, in the terms of CompStepsProofs.                        *)
LEMMA UpFacts ==
  ASSUME Types, Up, pc \notin Steps!Apart
  PROVE  /\ Over = IF pc = "total" THEN 1 ELSE 0
         /\ Steps!Counted = nb_total_block + Over /\ Steps!Counted \in Nat
         /\ Linked = Steps!Oldest /\ Linked \in Nat
         /\ Steps!Behind = IF dropping THEN 1 ELSE 0
         /\ HeadNo = Linked - Steps!Behind /\ HeadNo \in Nat
         /\ Len(list) \in Nat /\ nb_block = Len(list)
         /\ nb_total_block \in Nat /\ nb_total_block + Over = Linked + Len(list)
         /\ Len(list) + Steps!Behind + Steps!Ahead <= NbBlkIdx /\ Steps!Ahead \in {0, 1}
         /\ \A s \in Linked..(nb_total_block + Over - 1) :
              /\ s % NbBlkIdx \in Slots /\ list[s - Linked + 1] = s % NbBlkIdx
              /\ SlotOf(s).key \in Keys
         /\ cache_idx_tail = (nb_total_block + Over + Steps!Ahead) % NbBlkIdx
         /\ list # <<>> => list[1] = Linked % NbBlkIdx
         /\ list = <<>> <=> Linked = nb_total_block + Over
<1>1. Steps!TornInv /\ Steps!RefUp
  BY DEF Up
<1>2. Over = (IF pc = "total" THEN 1 ELSE 0) /\ Over \in Nat
  BY DEF Over, Types, Steps!Apart, Steps!Loading
<1>3. /\ Steps!Oldest \in Nat /\ Steps!Counted \in Nat /\ nb_total_block \in Nat
      /\ Len(list) \in Nat /\ Steps!Counted = Steps!Oldest + Len(list) /\ nb_block = Len(list)
      /\ Steps!Behind \in {0, 1} /\ Steps!Ahead \in {0, 1} /\ Steps!Oldest - Steps!Behind \in Nat
      /\ Len(list) + Steps!Behind + Steps!Ahead <= NbBlkIdx
      /\ \A s \in Steps!Oldest..(Steps!Counted - 1) :
           s % NbBlkIdx \in Steps!Slots /\ list[s - Steps!Oldest + 1] = s % NbBlkIdx
      /\ cache_idx_tail = (Steps!Counted + Steps!Ahead) % NbBlkIdx
  BY <1>1, Assumptions, Steps!OldestLemma
<1>4. Steps!Counted = nb_total_block + Over
  BY <1>2 DEF Steps!Counted
<1>5. Linked = Steps!Oldest
  BY <1>2, <1>3, <1>4 DEF Linked
<1>6. Steps!Behind = IF dropping THEN 1 ELSE 0
  BY DEF Steps!Behind
<1>7. HeadNo = Linked - Steps!Behind
  <2>1. cache_idx_head = (Linked - Steps!Behind) % NbBlkIdx
    BY <1>1, <1>5 DEF Steps!RefUp
  <2>2. CASE Steps!Behind = 0
    BY <2>1, <2>2, <1>3, <1>5 DEF HeadNo
  <2>3. CASE Steps!Behind = 1
    <3>1. Linked - 1 \in Int /\ Linked \in Int /\ Linked - 1 >= 0 /\ Linked < Linked - 1 + NbBlkIdx
      BY <2>3, <1>3, <1>5, Constants
    <3>2. (Linked - 1) % NbBlkIdx # Linked % NbBlkIdx
      BY <3>1, Apart
    <3> QED BY <2>1, <2>3, <3>2 DEF HeadNo
  <2> QED BY <2>2, <2>3, <1>3
<1>8. Steps!Slots = Slots
  BY DEF Steps!Slots, Slots
<1>9. \A s \in Linked..(nb_total_block + Over - 1) :
        /\ s % NbBlkIdx \in Slots /\ list[s - Linked + 1] = s % NbBlkIdx
        /\ SlotOf(s).key \in Keys
  <2>1. \A s \in Steps!Oldest..(Steps!Counted - 1) : SlotOf(s).key \in Keys
    BY <1>1 DEF Steps!RefUp, SlotOf
  <2>2. Linked..(nb_total_block + Over - 1) = Steps!Oldest..(Steps!Counted - 1)
    BY <1>2, <1>3, <1>4, <1>5
  <2> QED BY <2>1, <2>2, <1>3, <1>5, <1>8
<1>a. list \in Seq(Slots)
  BY <1>1, <1>8 DEF Steps!TornInv, Steps!Types
<1>10. list # <<>> => list[1] = Linked % NbBlkIdx
  <2> SUFFICES ASSUME list # <<>> PROVE list[1] = Linked % NbBlkIdx
    OBVIOUS
  <2>1. Len(list) # 0
    BY <1>a
  <2>2. Linked \in Linked..(nb_total_block + Over - 1) /\ Linked - Linked + 1 = 1
    BY <2>1, <1>2, <1>3, <1>4, <1>5
  <2> QED BY <2>2, <1>9
<1>11. list = <<>> <=> Linked = nb_total_block + Over
  <2>1. list = <<>> <=> Len(list) = 0
    BY <1>a
  <2> QED BY <2>1, <1>3, <1>4, <1>5
<1>12. nb_total_block + Over = Linked + Len(list)
  BY <1>3, <1>4, <1>5
<1>13. HeadNo \in Nat /\ cache_idx_tail = (nb_total_block + Over + Steps!Ahead) % NbBlkIdx
  BY <1>3, <1>4, <1>5, <1>7
<1> QED BY <1>2, <1>3, <1>4, <1>5, <1>6, <1>7, <1>9, <1>10, <1>11, <1>12, <1>13

-----------------------------------------------------------------------------
(* What the compressor does to its list, for the rest: blocks go, and one  *)
(* may come, which is not the one before it.                               *)
Extends ==
  /\ nb_total_block' \in Nat /\ nb_total_block <= nb_total_block'
  /\ \A s \in Held' : s \in Nat /\ (s # nb_total_block => s \in Held /\ SlotOf(s)' = SlotOf(s))
  /\ \A s \in Held' : s = nb_total_block /\ s > 0 =>
       s - 1 \in Held' /\ SlotOf(s - 1)'.key # SlotOf(s)'.key

DecoderSame == UNCHANGED <<decVars, coming, got, joined>>
               /\ ("decomp" \in uncounted' <=> "decomp" \in uncounted)

LEMMA SameView ==
  ASSUME Types, Ring, HeadNo' = HeadNo, nb_total_block' = nb_total_block,
         \A s \in Held : SlotOf(s)' = SlotOf(s)
  PROVE  /\ Held' = Held /\ VBlk' = VBlk /\ VNb' = VNb /\ VPos' = VPos
         /\ VEdge' = VEdge /\ VFault' = VFault
         /\ \A s \in Held : EndOf(s)' = EndOf(s)
         /\ Extends
<1>1. Held' = Held
  BY DEF Held
<1>2. \A s \in Held : EndOf(s)' = EndOf(s)
  BY DEF EndOf
<1>3. VBlk' = VBlk
  BY <1>1 DEF VBlk
<1>4. VPos' = VPos
  <2>1. CASE HeadNo = nb_total_block
    BY <2>1 DEF VPos
  <2>2. CASE HeadNo # nb_total_block
    <3>1. nb_total_block - 1 \in Held
      BY <2>2, RingFacts
    <3>2. EndOf(nb_total_block - 1)' = EndOf(nb_total_block - 1)
      BY <3>1, <1>2
    <3> QED BY <2>2, <3>2 DEF VPos, EndOf, SlotOf
  <2> QED BY <2>1, <2>2
<1>5. VNb' = VNb /\ VEdge' = VEdge /\ VFault' = VFault
  BY DEF VNb, VEdge, VFault
<1>6. Extends
  BY <1>1, RingFacts DEF Extends
<1> QED BY <1>1, <1>2, <1>3, <1>4, <1>5, <1>6

LEMMA DecoderView ==
  ASSUME DecoderSame
  PROVE  /\ VMem' = VMem /\ VDpos' = VDpos /\ VTotal' = VTotal /\ VDnb' = VDnb
         /\ VSize' = VSize /\ VGot' = VGot
         /\ DOver' = DOver /\ LastBlockCrc' = LastBlockCrc /\ CrcReadable' = CrcReadable
<1>1. UNCHANGED <<mem, dpos, last_block_size, dtotal, dnb, tmp, dpc, coming, got>>
  BY DEF DecoderSame, decVars, dfile, dmem
<1>2. Place' = Place
  BY <1>1 DEF Place
<1> QED BY <1>1, <1>2 DEF DecoderSame, VMem, VDpos, VTotal, VDnb, VSize, VGot, DOver,
                          LastBlockCrc, ReadMem, CrcReadable

LEMMA BeforeKept ==
  ASSUME Types, Ring, Extends, NEW n \in Nat, n >= 1, n <= nb_total_block,
         NEW k, Before(n, k)
  PROVE  Before(n, k)'
<1>1. nb_total_block \in Nat
  BY RingFacts
<1>2. ASSUME n - 1 \in Held'
      PROVE  SlotOf(n - 1)'.key = k
  <2>1. n - 1 \in Held /\ SlotOf(n - 1)' = SlotOf(n - 1)
    BY <1>1, <1>2 DEF Extends
  <2> QED BY <2>1 DEF Before
<1>3. ASSUME n \in Held'
      PROVE  SlotOf(n)'.key # k
  <2>1. CASE n # nb_total_block
    <3>1. n \in Held /\ SlotOf(n)' = SlotOf(n)
      BY <2>1, <1>3 DEF Extends
    <3> QED BY <3>1 DEF Before
  <2>2. CASE n = nb_total_block
    <3>1. n - 1 \in Held' /\ SlotOf(n - 1)'.key # SlotOf(n)'.key
      BY <2>2, <1>3 DEF Extends
    <3> QED BY <3>1, <1>2
  <2> QED BY <2>1, <2>2
<1> QED BY <1>2, <1>3 DEF Before

(* What holds of the decompressor and of what is under way stays true.     *)
LEMMA OthersKept ==
  ASSUME Types, Ring, StoreInv, CrcSays, DataKept, Extends, DecoderSame, Session' = Session
  PROVE  CrcSays' /\ DataKept'
<1>1. nb_total_block \in Nat /\ dtotal \in Nat /\ nb_total_block <= nb_total_block'
      /\ dtotal <= nb_total_block /\ dtotal' = dtotal /\ dpos' = dpos /\ mem' = mem
      /\ joined' = joined
  BY RingFacts DEF StoreInv, CrcSays, Extends, DecoderSame, decVars, dfile
<1>2. DOver' = DOver /\ LastBlockCrc' = LastBlockCrc /\ CrcReadable' = CrcReadable
  BY DecoderView
<1>3. \A s \in Held' : s \in Nat /\ (s < nb_total_block =>
        s \in Held /\ SlotOf(s)' = SlotOf(s) /\ EndOf(s)' = EndOf(s))
  BY <1>1 DEF Extends, EndOf
<1>4. CrcSays'
  <2>1. dtotal' <= nb_total_block'
    BY <1>1 DEF Extends
  <2>2. PICK d : d = dtotal
    OBVIOUS
  <2>3. ASSUME NEW k \in Keys, d > 0, CrcReadable, LastBlockCrc = Bytes(k)
        PROVE  IF DOver THEN d < nb_total_block' /\ Before(d + 1, k)'
               ELSE /\ Before(d, k)'
                    /\ d - 1 \in Held' => dpos = EndOf(d - 1)'
    <3>1. CASE DOver
      <4>1. d < nb_total_block /\ Before(d + 1, k)
        BY <2>2, <2>3, <3>1 DEF CrcSays
      <4>2. Before(d + 1, k)'
        BY <4>1, <2>2, <1>1, BeforeKept
      <4> QED BY <3>1, <4>1, <4>2, <2>2, <1>1 DEF Extends
    <3>2. CASE ~DOver
      <4>1. Before(d, k) /\ (d - 1 \in Held => dpos = EndOf(d - 1))
        BY <2>2, <2>3, <3>2 DEF CrcSays
      <4>2. Before(d, k)'
        BY <4>1, <2>2, <2>3, <1>1, BeforeKept
      <4>3. d - 1 \in Held' => dpos = EndOf(d - 1)'
        BY <4>1, <2>2, <1>1, <1>3
      <4> QED BY <3>2, <4>2, <4>3
    <3> QED BY <3>1, <3>2
  <2>4. dtotal' = d /\ dpos' = dpos
    BY <2>2, <1>1
  <2> QED BY <2>1, <2>3, <2>4, <1>2 DEF CrcSays, Before, SlotOf, EndOf
<1>5. DataKept'
  <2> SUFFICES ASSUME ~Session PROVE DataThere'
    BY <1>1 DEF DataKept
  <2>1. CASE mem = DBlank
    BY <2>1, <1>1 DEF DataThere, DBlank
  <2>2. CASE mem # DBlank
    <3>1. ASSUME NEW s \in Held', s < dtotal, NEW i \in 1..BlkLen[SlotOf(s)'.key]
          PROVE  /\ SlotOf(s)'.off + i - 1 \in Link!Area
                 /\ mem[SlotOf(s)'.off + i - 1] = <<SlotOf(s)'.key, i>>
      <4>1. s \in Held /\ SlotOf(s)' = SlotOf(s)
        BY <3>1, <1>1, <1>3
      <4> QED BY <4>1, <3>1, <2>2 DEF DataKept, DataThere
    <3> QED BY <3>1, <1>1 DEF DataThere, Link!Area
  <2> QED BY <2>1, <2>2
<1> QED BY <1>4, <1>5

LEMMA SessionSame ==
  ASSUME joined' = joined, pc' = pc \/ (pc \notin Steps!Apart /\ pc' \notin Steps!Apart)
  PROVE  Session' = Session
BY DEF Session, Settling, Steps!Apart, Steps!Loading

LEMMA SameCount == \A S : Link!Cardinality(S) = Cardinality(S)
BY DEF Link!Cardinality, Cardinality

(* A block on its way has been counted by the compressor.                  *)
LEMMA UnderWay ==
  ASSUME Link!LinkInv
  PROVE  /\ VTotal \in Nat /\ VTotal <= nb_total_block
         /\ chan \in Seq(Link!Message) /\ Len(chan) \in Nat
         /\ \A i \in 1..Len(chan) :
              /\ chan[i] \in Link!Message
              /\ Link!IsNew(chan[i]) =>
                   LET n == VTotal + Cardinality(Link!NewIn(chan, i)) IN
                   n \in Nat /\ n >= 1 /\ n <= nb_total_block
<1>1. chan \in Seq(Link!Message) /\ Len(chan) \in Nat
  BY DEF Link!LinkInv
<1>2. VTotal \in Nat
  BY Assumptions, Link!NowFacts
<1>3. VTotal <= nb_total_block
  <2>1. Link!Agrees(Link!Now)
    BY Assumptions, Link!NowFacts
  <2> QED BY <2>1 DEF Link!Agrees, Link!Now
<1>4. PICK D : Link!Foreseen(D)
  BY DEF Link!LinkInv
<1>5. /\ \A j \in 0..Len(chan) : /\ D[j] \in Link!Decompressor /\ D[j].total \in Nat
                                 /\ D[j].total <= nb_total_block
      /\ \A j \in 1..Len(chan) : chan[j] \in Link!Message /\ j - 1 \in 0..Len(chan)
  BY <1>4, Assumptions, Link!CourseFacts
<1>6. ASSUME NEW i \in 1..Len(chan), Link!IsNew(chan[i])
      PROVE  LET n == VTotal + Cardinality(Link!NewIn(chan, i)) IN
             n \in Nat /\ n >= 1 /\ n <= nb_total_block
  <2>1. i \in 0..Len(chan)
    BY <1>1
  <2>2. D[i].total = VTotal + Cardinality(Link!NewIn(chan, i))
    BY <2>1, <1>4, SameCount DEF Link!Foreseen, Link!Course
  <2>3. D[i] = Link!Stored(D[i - 1], chan[i].key)
    BY <1>4, <1>6 DEF Link!Foreseen, Link!Course, Link!Reads
  <2>4. chan[i].key \in Keys
    BY <1>5 DEF Link!Message
  <2>5. D[i - 1] \in Link!Decompressor /\ D[i - 1].total \in Nat
    BY <1>5
  <2>6. Link!Stored(D[i - 1], chan[i].key).total = D[i - 1].total + 1
    BY <2>4, <2>5, Assumptions, Link!StoredLemma
  <2> QED BY <2>1, <2>2, <2>3, <2>5, <2>6, <1>5
<1> QED BY <1>1, <1>2, <1>3, <1>5, <1>6

LEMMA ApartKept ==
  ASSUME Types, Ring, StoreInv, ChanApart, Session => Link!LinkInv, Extends, DecoderSame
  PROVE  /\ dpc \in Storing => Before(VTotal, coming)'
         /\ \A i \in 1..Len(chan) :
              Link!IsNew(chan[i]) =>
                \A n \in Nat, k \in Keys :
                  n = VTotal + Cardinality(Link!NewIn(chan, i)) /\ k = chan[i].key =>
                    Before(n, k)' /\ BlkLen[k] <= CacheSz
<1>1. ASSUME dpc \in Storing
      PROVE  Before(VTotal, coming)'
  <2>1. Session /\ dtotal \in Nat
    BY <1>1 DEF StoreInv
  <2>2. PICK n : n = VTotal
    OBVIOUS
  <2>3. n \in Nat /\ n <= nb_total_block
    BY <2>1, <2>2, UnderWay
  <2>4. n >= 1
    BY <1>1, <2>1, <2>2 DEF StoreInv, VTotal, Storing
  <2>5. PICK k : k = coming
    OBVIOUS
  <2>6. Before(n, k)
    BY <1>1, <2>2, <2>5 DEF ChanApart
  <2>7. Before(n, k)'
    BY <2>3, <2>4, <2>6, BeforeKept
  <2>8. VTotal' = n /\ coming' = k
    BY <2>2, <2>5, DecoderView DEF DecoderSame
  <2> QED BY <2>7, <2>8 DEF Before, SlotOf
<1>2. ASSUME NEW i \in 1..Len(chan), Link!IsNew(chan[i]),
             NEW n \in Nat, n = VTotal + Cardinality(Link!NewIn(chan, i)),
             NEW k \in Keys, k = chan[i].key
      PROVE  Before(n, k)' /\ BlkLen[k] <= CacheSz
  <2>1. Session
    BY <1>2 DEF StoreInv
  <2>2. n >= 1 /\ n <= nb_total_block
    BY <1>2, <2>1, UnderWay
  <2>3. Before(n, k) /\ BlkLen[k] <= CacheSz
    BY <1>2 DEF ChanApart
  <2>4. Before(n, k)'
    BY <2>2, <2>3, BeforeKept
  <2> QED BY <2>3, <2>4
<1> QED BY <1>1, <1>2

(* A step of the compressor that leaves its list of blocks as it is leaves *)
(* everything the two ends have as it is.                                  *)
LEMMA Quiet ==
  ASSUME Types, Ring, Relation,
         HeadNo' = HeadNo, nb_total_block' = nb_total_block,
         \A s \in Held : SlotOf(s)' = SlotOf(s),
         DecoderSame, Session' = Session, chan' = chan
  PROVE  Relation'
<1>1. /\ Held' = Held /\ VBlk' = VBlk /\ VNb' = VNb /\ VPos' = VPos
      /\ VEdge' = VEdge /\ VFault' = VFault /\ Extends
  BY SameView
<1>2. /\ VMem' = VMem /\ VDpos' = VDpos /\ VTotal' = VTotal /\ VDnb' = VDnb
      /\ VSize' = VSize /\ VGot' = VGot
  BY DecoderView
<1>3. Link!IInv'
  <2>1. NoOut' \in Link!OutBuff
    BY DEF NoOut, Link!OutBuff
  <2> QED BY <2>1, <1>1, Assumptions, Link!OutStep DEF Relation
<1>4. UNCHANGED <<mem, dpos, last_block_size, dtotal, dnb, tmp, dpc, coming, joined, chan>>
  BY DEF DecoderSame, decVars, dfile, dmem
<1>5. Session' => Link!LinkInv'
  <2> SUFFICES ASSUME Session PROVE Link!LinkInv'
    BY <1>4
  <2>1. Link!Live = Held /\ Link!Live' = Held
    <3>1. Link!Live = Held
      BY ViewFacts
    <3>2. Link!First' = Link!First
      BY <1>1 DEF Link!First
    <3> QED BY <3>1, <3>2 DEF Link!Live
  <2>2. \A s \in Link!Live' : s \in Nat /\ s \in Link!Live /\ VBlk'[s] = VBlk[s]
    BY <2>1, <1>1, RingFacts
  <2>3. nb_total_block <= nb_total_block'
    BY <1>1 DEF Extends
  <2>4. UNCHANGED <<chan, Link!decompVars>>
    BY <1>2, <1>4 DEF Link!decompVars
  <2>5. ~VFault' => ~VFault /\ VPos' = VPos /\ nb_total_block' = nb_total_block
    BY <1>1
  <2> QED BY <1>3, <2>2, <2>3, <2>4, <2>5, Assumptions, Link!Unsent DEF Relation
<1>6. StoreInv'
  BY <1>4 DEF StoreInv, Relation
<1>7. CrcSays' /\ DataKept'
  BY <1>1, OthersKept DEF Relation
<1>8. ChanApart'
  BY <1>1, <1>2, <1>4 DEF ChanApart, Before, SlotOf, Relation
<1> QED BY <1>3, <1>5, <1>6, <1>7, <1>8 DEF Relation

-----------------------------------------------------------------------------
(* The stores of a call are those of CompStepsProofs.                      *)
LEMMA SameActions ==
  /\ Drop => Steps!Drop
  /\ AdvanceHead => Steps!AdvanceHead
  /\ LeavePreviousLap \/ Rotate \/ MakeRoom \/ RoomMade \/ Die \/ WritePart =>
       Steps!LeavePreviousLap \/ Steps!Rotate \/ Steps!MakeRoom \/ Steps!RoomMade
         \/ Steps!Die \/ Steps!WritePart
  /\ FreeSlot \/ TakeSlot => Steps!FreeSlot \/ Steps!TakeSlot
  /\ FillKey \/ FillOffset \/ CountBlock => Steps!FillKey \/ Steps!FillOffset \/ Steps!CountBlock
  /\ CountTotal => Steps!CountTotal
<1>1. Drop => Steps!Drop
  BY DEF Drop, Steps!Drop
<1>2. AdvanceHead => Steps!AdvanceHead
  BY DEF AdvanceHead, Steps!AdvanceHead
<1>3. \A w : At(w) <=> Steps!At(w)
  BY DEF At, Steps!At
<1>4. Rotate \/ RoomMade \/ Die \/ WritePart =>
        Steps!Rotate \/ Steps!RoomMade \/ Steps!Die \/ Steps!WritePart
  BY <1>3 DEF Rotate, RoomMade, Die, WritePart, Steps!Rotate, Steps!RoomMade, Steps!Die,
              Steps!WritePart, PreviousLap, Steps!PreviousLap, InTheWay, Steps!InTheWay,
              file, Steps!file
<1>5. (LeavePreviousLap => Steps!LeavePreviousLap) /\ (MakeRoom => Steps!MakeRoom)
  BY <1>1, <1>3 DEF LeavePreviousLap, MakeRoom, Steps!LeavePreviousLap, Steps!MakeRoom,
                    PreviousLap, Steps!PreviousLap, InTheWay, Steps!InTheWay
<1>6. FreeSlot \/ TakeSlot => Steps!FreeSlot \/ Steps!TakeSlot
  BY <1>1, <1>3 DEF FreeSlot, TakeSlot, Steps!FreeSlot, Steps!TakeSlot
<1>7. FillKey \/ FillOffset \/ CountBlock => Steps!FillKey \/ Steps!FillOffset \/ Steps!CountBlock
  BY <1>3 DEF FillKey, FillOffset, CountBlock, Taken,
              Steps!FillKey, Steps!FillOffset, Steps!CountBlock, Steps!Taken
<1>8. CountTotal => Steps!CountTotal
  BY <1>3 DEF CountTotal, Steps!CountTotal, NoBlock, Steps!NoBlock
<1> QED BY <1>1, <1>2, <1>4, <1>5, <1>6, <1>7, <1>8

LEMMA SameBegin ==
  ASSUME NEW k \in Keys, Begin(k)
  PROVE  Steps!Begin(k)
BY DEF Begin, Steps!Begin, IsCached, Steps!IsCached, Matches, Steps!Matches, file, Steps!file

(* What a call leaves of a store is a list the reload can find again.      *)
LEMMA TornKept ==
  ASSUME Types, Up, pc \notin Steps!Apart, InnerStep \/ CountTotal \/ \E k \in Keys : Begin(k)
  PROVE  Steps!TornInv' /\ pc' \notin Steps!Apart
<1>1. Steps!TornInv
  BY DEF Up
<1>2. CASE AdvanceHead
  BY <1>1, <1>2, SameActions, Assumptions, Steps!AdvanceHeadStep DEF AdvanceHead
<1>3. CASE LeavePreviousLap \/ Rotate \/ MakeRoom \/ RoomMade \/ Die \/ WritePart
  <2>1. Steps!TornInv'
    BY <1>1, <1>3, SameActions, Assumptions, Steps!EdgeCacheStep
  <2>2. pc' \notin Steps!Apart
    BY <1>3 DEF LeavePreviousLap, Rotate, MakeRoom, RoomMade, Die, WritePart, Drop, At,
       Steps!Apart, Steps!Loading
  <2> QED BY <2>1, <2>2
<1>4. CASE FreeSlot \/ TakeSlot
  <2>1. Steps!TornInv'
    BY <1>1, <1>4, SameActions, Assumptions, Steps!NewBlockInfoStep
  <2>2. pc' \notin Steps!Apart
    BY <1>4 DEF FreeSlot, TakeSlot, Drop, At, Steps!Apart, Steps!Loading
  <2> QED BY <2>1, <2>2
<1>5. CASE FillKey \/ FillOffset \/ CountBlock
  <2>1. Steps!TornInv'
    BY <1>1, <1>5, SameActions, Assumptions, Steps!NewBlocStep
  <2>2. pc' \notin Steps!Apart
    BY <1>5 DEF FillKey, FillOffset, CountBlock, Steps!Apart, Steps!Loading
  <2> QED BY <2>1, <2>2
<1>6. CASE CountTotal \/ \E k \in Keys : Begin(k)
  <2>1. Steps!TornInv'
    <3>1. (\E k \in Keys : Steps!Begin(k)) \/ Steps!CountTotal
      BY <1>6, SameActions, SameBegin
    <3> QED BY <1>1, <3>1, Assumptions, Steps!BeginReturnStep
  <2>2. pc' \notin Steps!Apart
    BY <1>6 DEF CountTotal, Begin, Steps!Apart, Steps!Loading
  <2> QED BY <2>1, <2>2
<1> QED BY <1>2, <1>3, <1>4, <1>5, <1>6 DEF InnerStep

LEMMA TypesKept ==
  ASSUME Types, Up, pc \notin Steps!Apart, InnerStep \/ CountTotal \/ \E k \in Keys : Begin(k),
         UNCHANGED <<uncounted, cut, joined>>
  PROVE  Types'
<1>1. Steps!TornInv' /\ pc' \notin Steps!Apart
  BY TornKept
<1>2. /\ cache_idx_head' \in Slots /\ cache_idx_tail' \in Slots
      /\ nb_block' \in 0..NbBlkIdx /\ nb_total_block' \in 0..MaxTotal
  <2>1. Steps!Types' /\ Steps!Stretch'
    BY <1>1 DEF Steps!TornInv
  <2>2. /\ cache_idx_head' \in Slots /\ cache_idx_tail' \in Slots /\ nb_block' \in Nat
        /\ nb_total_block' \in 0..MaxTotal
    BY <2>1, Constants DEF Steps!Types, Steps!Slots, Slots
  <2>3. nb_block' <= NbBlkIdx
    <3>1. Len(list') = nb_block' /\ Len(list') + Steps!Behind' + Steps!Ahead' <= NbBlkIdx
      BY <2>1 DEF Steps!Stretch
    <3>2. Steps!Behind' \in Nat /\ Steps!Ahead' \in Nat
      BY DEF Steps!Behind, Steps!Ahead
    <3>3. PICK b \in Nat, a \in Nat : b = Steps!Behind' /\ a = Steps!Ahead'
      BY <3>2
    <3>4. PICK n : n = nb_block'
      OBVIOUS
    <3>5. n \in Nat /\ n + b + a <= NbBlkIdx /\ NbBlkIdx \in Nat
      BY <3>1, <3>3, <3>4, <2>2, Constants
    <3>6. n <= NbBlkIdx
      BY <3>5
    <3> QED BY <3>4, <3>6
  <2> QED BY <2>2, <2>3, Constants
<1>3. Steps!Types /\ dropping \in BOOLEAN
  BY DEF Up, Steps!TornInv, Steps!Types
<1>4. /\ cur \in [key : Keys \cup {NoKey}, off : Nat, left : Int] /\ data_pos_wr \in Nat
      /\ slots \in [Slots -> Steps!SlotEntry]
  BY DEF Types
<1>5. data_pos_wr' \in Nat /\ cur' \in [key : Keys \cup {NoKey}, off : Nat, left : Int]
  <2>1. CASE WritePart
    <3>1. PICK n \in 1..cur.left :
            /\ data_pos_wr' = data_pos_wr + n
            /\ cur' = [cur EXCEPT !.left = @ - n,
                         !.off = IF cur.left = BlkLen[cur.key] THEN data_pos_wr ELSE @]
      BY <2>1 DEF WritePart
    <3>2. n \in Nat /\ cur.left - n \in Int
      BY <1>4
    <3>3. data_pos_wr' \in Nat
      BY <3>1, <3>2, <1>4
    <3> QED BY <3>1, <3>2, <3>3, <1>4
  <2>2. ASSUME NEW k \in Keys, Begin(k)
        PROVE  data_pos_wr' \in Nat /\ cur' \in [key : Keys \cup {NoKey}, off : Nat, left : Int]
    BY <2>2, <1>4, Constants DEF Begin, file
  <2>3. CASE CountTotal
    BY <2>3, <1>4 DEF CountTotal, NoBlock
  <2>4. CASE InnerStep /\ ~WritePart
    BY <2>4, <1>4 DEF InnerStep, AdvanceHead, LeavePreviousLap, Rotate, MakeRoom, RoomMade, Die,
                      FreeSlot, TakeSlot, FillKey, FillOffset, CountBlock, Drop, file
  <2> QED BY <2>1, <2>2, <2>3, <2>4
<1>6. slots' \in [Slots -> Steps!SlotEntry]
  <2>1. CASE FillKey
    <3>1. slots' = [slots EXCEPT ![Taken].key = cur.key]
      BY <2>1 DEF FillKey
    <3> QED BY <3>1, <1>4 DEF Steps!SlotEntry
  <2>2. CASE FillOffset
    <3>1. slots' = [slots EXCEPT ![Taken].off = cur.off]
      BY <2>2 DEF FillOffset
    <3> QED BY <3>1, <1>4 DEF Steps!SlotEntry
  <2>3. CASE ~FillKey /\ ~FillOffset
    <3>1. slots' = slots
      BY <2>3 DEF InnerStep, AdvanceHead, LeavePreviousLap, Rotate, MakeRoom, RoomMade, Die,
                  WritePart, FreeSlot, TakeSlot, CountBlock, Drop, CountTotal, Begin, file
    <3> QED BY <3>1, <1>4
  <2> QED BY <2>1, <2>2, <2>3
<1> QED BY <1>1, <1>2, <1>5, <1>6 DEF Types, Steps!Apart, Steps!Loading

(* Where the head and the tail of the list are after a step.               *)
LEMMA TakenIs ==
  ASSUME Types, Up, pc \in {"fill", "offset", "count"}, ~dropping
  PROVE  /\ Taken = nb_total_block % NbBlkIdx /\ Taken \in Slots
         /\ HeadNo = Linked /\ Linked + Len(list) = nb_total_block
         /\ nb_total_block + 1 - HeadNo <= NbBlkIdx
         /\ \A s \in Linked..(nb_total_block - 1) : s % NbBlkIdx \in Slots \ {Taken}
<1>1. /\ Over = 0 /\ Steps!Behind = 0 /\ Steps!Ahead = 1
      /\ Linked \in Nat /\ HeadNo = Linked /\ Len(list) \in Nat
      /\ nb_total_block \in Nat /\ nb_total_block = Linked + Len(list)
      /\ Len(list) + 1 <= NbBlkIdx
      /\ cache_idx_tail = (nb_total_block + 1) % NbBlkIdx
  BY UpFacts DEF Steps!Ahead, Steps!Apart, Steps!Loading
<1>2. Taken = nb_total_block % NbBlkIdx /\ Taken \in Slots
  <2>1. nb_total_block % NbBlkIdx \in 0..(NbBlkIdx - 1)
    BY <1>1, InRing DEF Slots
  <2>2. (nb_total_block + 1) % NbBlkIdx = Steps!Round((nb_total_block % NbBlkIdx) + 1)
    BY <1>1, Constants, Assumptions, Steps!SlotLemma
  <2>3. PICK r : r = nb_total_block % NbBlkIdx
    OBVIOUS
  <2>4. cache_idx_tail = IF r + 1 < NbBlkIdx THEN r + 1 ELSE r + 1 - NbBlkIdx
    <3>1. cache_idx_tail = Steps!Round(r + 1) /\ r \in Nat /\ NbBlkIdx \in Nat
      BY <1>1, <2>1, <2>2, <2>3, Constants
    <3> QED BY <3>1 DEF Steps!Round
  <2>5. (cache_idx_tail - 1) % NbBlkIdx = r
    <3>1. CASE r + 1 < NbBlkIdx
      <4>1. cache_idx_tail - 1 = r /\ r \in 0..(NbBlkIdx - 1)
        BY <2>1, <2>3, <2>4, <3>1, Constants
      <4> QED BY <4>1, Constants
    <3>2. CASE ~(r + 1 < NbBlkIdx)
      <4>1. cache_idx_tail = 0 /\ r = NbBlkIdx - 1
        BY <2>1, <2>3, <2>4, <3>2, Constants
      <4>2. (-1) * NbBlkIdx + (NbBlkIdx - 1) = -1
        BY Constants
      <4>3. ((-1) * NbBlkIdx + (NbBlkIdx - 1)) % NbBlkIdx = NbBlkIdx - 1
        <5>1. NbBlkIdx - 1 \in 0..(NbBlkIdx - 1) /\ -1 \in Int
          BY Constants
        <5> QED BY <5>1, Assumptions, Steps!ModLemma
      <4> QED BY <4>1, <4>2, <4>3
    <3> QED BY <3>1, <3>2
  <2> QED BY <2>1, <2>3, <2>5 DEF Taken, Slots
<1>3. ASSUME NEW s \in Linked..(nb_total_block - 1)
      PROVE  s % NbBlkIdx \in Slots \ {Taken}
  <2>1. s \in Nat /\ s < nb_total_block /\ nb_total_block < s + NbBlkIdx
    BY <1>1, <1>3, Constants
  <2>2. s % NbBlkIdx # nb_total_block % NbBlkIdx
    BY <2>1, <1>1, Apart
  <2> QED BY <2>1, <2>2, <1>2, InRing
<1> QED BY <1>1, <1>2, <1>3, Constants

(* A step moves the head of the list when it says so, and not otherwise.   *)
Moves == IF AdvanceHead THEN 1 ELSE 0

LEMMA OldestKept ==
  ASSUME Types, Up, pc \notin Steps!Apart, pc' \notin Steps!Apart,
         Steps!Oldest' - Steps!Behind' = HeadNo + Moves,
         UNCHANGED slots, cache_idx_head' = (HeadNo + Moves) % NbBlkIdx,
         Steps!Counted' = Steps!Counted, Linked <= Steps!Oldest', Steps!Oldest' \in Nat
  PROVE  Steps!RefUp'
<1>1. /\ Linked = Steps!Oldest /\ Linked \in Nat /\ Steps!Counted \in Nat
      /\ Steps!RefUp
  BY UpFacts DEF Up
<1>2. PICK o : o = Steps!Oldest'
  OBVIOUS
<1>3. PICK c : c = Steps!Counted
  OBVIOUS
<1>4. \A s \in o..(c - 1) : slots[s % NbBlkIdx].key \in Keys
  BY <1>1, <1>2, <1>3 DEF Steps!RefUp
<1> QED BY <1>2, <1>3, <1>4 DEF Steps!RefUp

LEMMA UpDrop ==
  ASSUME Types, Up, pc \in {"lap", "room", "slot"}, ~dropping, list # <<>>, Drop
  PROVE  Steps!Oldest' - Steps!Behind' = HeadNo /\ Steps!RefUp'
<1>1. /\ Linked = Steps!Oldest /\ Linked \in Nat /\ HeadNo = Linked /\ Steps!Behind = 0
      /\ Over = 0 /\ Len(list) \in Nat /\ nb_total_block \in Nat
      /\ Steps!Counted = nb_total_block /\ nb_total_block = Linked + Len(list)
      /\ Steps!RefUp /\ list \in Seq(Slots)
  <2>1. list \in Seq(Steps!Slots) /\ Steps!Slots = Slots
    BY DEF Up, Steps!TornInv, Steps!Types, Steps!Slots, Slots, Steps!Apart, Steps!Loading
  <2> QED BY <2>1, UpFacts DEF Up, Steps!Apart, Steps!Loading
<1>2. Len(list') = Len(list) - 1
  BY <1>1 DEF Drop
<1>3. /\ pc' = pc /\ dropping' = TRUE /\ nb_total_block' = nb_total_block
      /\ cache_idx_head' = cache_idx_head /\ slots' = slots
  BY DEF Drop
<1>4. Steps!Counted' = Steps!Counted /\ Steps!Behind' = 1
  BY <1>3 DEF Steps!Counted, Steps!Behind
<1>5. Steps!Oldest' = Linked + 1
  <2>1. Steps!Oldest' = Steps!Counted' - Len(list')
    BY DEF Steps!Oldest
  <2>2. PICK n \in Nat : n = Len(list)
    BY <1>1
  <2>3. Steps!Counted' = Linked + n /\ Len(list') = n - 1
    BY <1>1, <1>2, <1>4, <2>2
  <2> QED BY <2>1, <2>2, <2>3, <1>1
<1>6. Moves = 0
  BY DEF Moves, AdvanceHead
<1>7. cache_idx_head = HeadNo % NbBlkIdx
  BY <1>1 DEF Steps!RefUp
<1>8. /\ Steps!Oldest' - Steps!Behind' = HeadNo + Moves
      /\ cache_idx_head' = (HeadNo + Moves) % NbBlkIdx
      /\ Linked <= Steps!Oldest' /\ Steps!Oldest' \in Nat
  BY <1>1, <1>3, <1>4, <1>5, <1>6, <1>7
<1>9. pc \notin Steps!Apart /\ pc' \notin Steps!Apart
  BY <1>3 DEF Steps!Apart, Steps!Loading
<1>10. Steps!RefUp'
  BY <1>3, <1>4, <1>8, <1>9, OldestKept
<1>11. Steps!Oldest' - Steps!Behind' = HeadNo
  BY <1>1, <1>4, <1>5
<1> QED BY <1>10, <1>11

LEMMA UpAdvance ==
  ASSUME Types, Up, pc \notin Steps!Apart, AdvanceHead
  PROVE  Steps!Oldest' - Steps!Behind' = HeadNo + 1 /\ Steps!RefUp'
<1>0. dropping /\ pc' = pc /\ dropping' = FALSE
      /\ UNCHANGED <<list, slots, nb_total_block>>
      /\ cache_idx_head' = (cache_idx_head + 1) % NbBlkIdx
  BY DEF AdvanceHead
<1>1. /\ Linked = Steps!Oldest /\ Linked \in Nat /\ HeadNo = Linked - 1 /\ HeadNo \in Nat
      /\ Steps!Behind = 1 /\ Steps!RefUp
  BY <1>0, UpFacts DEF Up
<1>2. Steps!Counted' = Steps!Counted /\ Steps!Behind' = 0 /\ Steps!Oldest' = Steps!Oldest
  BY <1>0 DEF Steps!Counted, Steps!Behind, Steps!Oldest
<1>3. cache_idx_head = HeadNo % NbBlkIdx
  BY <1>1 DEF Steps!RefUp
<1>4. cache_idx_head' = (HeadNo + 1) % NbBlkIdx
  <2>1. PICK h : h = HeadNo
    OBVIOUS
  <2>2. h \in Nat /\ 1 \in 0..NbBlkIdx /\ 0 \in 0..NbBlkIdx /\ h % NbBlkIdx \in 0..(NbBlkIdx - 1)
    BY <2>1, <1>1, Constants, InRing
  <2>3. (h + 1) % NbBlkIdx = Steps!Round((h % NbBlkIdx) + 1)
    BY <2>2, Assumptions, Steps!SlotLemma
  <2>4. PICK r : r = h % NbBlkIdx
    OBVIOUS
  <2>5. (r + 1) % NbBlkIdx = Steps!Round(r + 1)
    <3>1. r + 1 \in 0..(2 * NbBlkIdx - 1)
      BY <2>2, <2>4, Constants
    <3> QED BY <3>1, Assumptions, Steps!RoundLemma
  <2>6. cache_idx_head' = (r + 1) % NbBlkIdx
    BY <1>0, <1>3, <2>1, <2>4
  <2>7. cache_idx_head' = (h + 1) % NbBlkIdx
    BY <2>3, <2>4, <2>5, <2>6
  <2> QED BY <2>1, <2>7
<1>5. Moves = 1
  BY DEF Moves
<1>6. /\ Steps!Oldest' - Steps!Behind' = HeadNo + Moves
      /\ cache_idx_head' = (HeadNo + Moves) % NbBlkIdx
      /\ Linked <= Steps!Oldest' /\ Steps!Oldest' \in Nat
  BY <1>1, <1>2, <1>4, <1>5
<1> QED BY <1>0, <1>1, <1>2, <1>5, <1>6, OldestKept

LEMMA UpStay ==
  ASSUME Types, Up, pc \notin Steps!Apart \cup {"total"}, pc' \notin Steps!Apart \cup {"total"}, ~AdvanceHead,
         UNCHANGED <<slots, cache_idx_head, list, nb_total_block, dropping>>
  PROVE  Steps!Oldest' - Steps!Behind' = HeadNo /\ Steps!RefUp'
<1>1. /\ Linked = Steps!Oldest /\ Linked \in Nat /\ HeadNo = Linked - Steps!Behind /\ HeadNo \in Nat
      /\ Steps!RefUp
  BY UpFacts DEF Up
<1>2. Steps!Counted' = Steps!Counted /\ Steps!Behind' = Steps!Behind /\ Steps!Oldest' = Steps!Oldest
  BY DEF Steps!Counted, Steps!Behind, Steps!Oldest
<1>3. cache_idx_head = HeadNo % NbBlkIdx
  BY <1>1 DEF Steps!RefUp
<1>4. Moves = 0
  BY DEF Moves
<1>5. /\ Steps!Oldest' - Steps!Behind' = HeadNo + Moves
      /\ cache_idx_head' = (HeadNo + Moves) % NbBlkIdx
      /\ Linked <= Steps!Oldest' /\ Steps!Oldest' \in Nat
  BY <1>1, <1>2, <1>3, <1>4
<1> QED BY <1>1, <1>2, <1>5, OldestKept

LEMMA UpFill ==
  ASSUME Types, Up, FillKey \/ FillOffset
  PROVE  Steps!Oldest' - Steps!Behind' = HeadNo /\ Steps!RefUp'
<1>0. /\ pc \in {"fill", "offset"} /\ ~dropping /\ pc' \in {"offset", "count"}
      /\ UNCHANGED <<cache_idx_head, list, nb_total_block, dropping>>
      /\ \A s \in Slots \ {Taken} : slots'[s] = slots[s]
  <2>1. slots \in [Slots -> Steps!SlotEntry]
    BY DEF Types
  <2> QED BY <2>1 DEF FillKey, FillOffset, At
<1>1. /\ Linked = Steps!Oldest /\ Linked \in Nat /\ HeadNo = Linked /\ HeadNo \in Nat
      /\ Steps!Behind = 0 /\ Steps!RefUp /\ Steps!Counted = nb_total_block
  BY <1>0, UpFacts DEF Up, Steps!Apart, Steps!Loading
<1>2. Steps!Counted' = Steps!Counted /\ Steps!Behind' = 0 /\ Steps!Oldest' = Steps!Oldest
  BY <1>0 DEF Steps!Counted, Steps!Behind, Steps!Oldest
<1>3. cache_idx_head' = HeadNo % NbBlkIdx
  BY <1>0, <1>1 DEF Steps!RefUp
<1>4. \A s \in Linked..(nb_total_block - 1) : s % NbBlkIdx \in Slots \ {Taken}
  BY <1>0, TakenIs
<1>5. \A s \in Linked..(nb_total_block - 1) : slots'[s % NbBlkIdx].key \in Keys
  BY <1>0, <1>1, <1>4 DEF Steps!RefUp
<1>6. Steps!RefUp'
  <2>1. PICK o : o = Linked
    OBVIOUS
  <2>2. Steps!Oldest' = o /\ Steps!Counted' = nb_total_block /\ o \in Nat /\ HeadNo = o
    BY <2>1, <1>1, <1>2
  <2>3. \A s \in o..(nb_total_block - 1) : slots'[s % NbBlkIdx].key \in Keys
    BY <2>1, <1>5
  <2>4. cache_idx_head' = (o - 0) % NbBlkIdx
    BY <2>2, <1>3
  <2> QED BY <2>2, <2>3, <2>4, <1>2 DEF Steps!RefUp
<1> QED BY <1>1, <1>2, <1>6

LEMMA UpCount ==
  ASSUME Types, Up, CallInv, CountBlock
  PROVE  Steps!Oldest' - Steps!Behind' = HeadNo /\ Steps!RefUp'
<1>0. /\ pc = "count" /\ ~dropping /\ pc' = "total" /\ list' = Append(list, Taken)
      /\ UNCHANGED <<cache_idx_head, slots, nb_total_block, dropping>>
  BY DEF CountBlock, At
<1>1. /\ Linked = Steps!Oldest /\ Linked \in Nat /\ HeadNo = Linked /\ HeadNo \in Nat
      /\ Steps!Behind = 0 /\ Steps!RefUp /\ Steps!Counted = nb_total_block
      /\ Len(list) \in Nat /\ nb_total_block = Linked + Len(list)
  BY <1>0, UpFacts DEF Up, Steps!Apart, Steps!Loading
<1>2. Len(list') = Len(list) + 1
  <2>1. list \in Seq(Steps!Slots)
    BY <1>0 DEF Up, Steps!TornInv, Steps!Types, Steps!Apart, Steps!Loading
  <2> QED BY <2>1, <1>0
<1>3. Steps!Counted' = nb_total_block + 1 /\ Steps!Behind' = 0
  BY <1>0 DEF Steps!Counted, Steps!Behind
<1>4. Steps!Oldest' = Linked
  <2>1. Steps!Oldest' = Steps!Counted' - Len(list')
    BY DEF Steps!Oldest
  <2>2. PICK n \in Nat : n = Len(list)
    BY <1>1
  <2>3. Steps!Counted' = Linked + n + 1 /\ Len(list') = n + 1
    BY <1>1, <1>2, <1>3, <2>2
  <2> QED BY <2>1, <2>2, <2>3, <1>1
<1>5. slots[nb_total_block % NbBlkIdx].key \in Keys
  <2>1. cur.key \in Keys /\ Calling(cur.key)
    BY <1>0 DEF CallInv, Steps!InCall
  <2>2. SlotOf(nb_total_block).key = cur.key /\ cur.key \in Keys
    BY <2>1, <1>0 DEF Calling
  <2> QED BY <2>2 DEF SlotOf
<1>6. cache_idx_head' = HeadNo % NbBlkIdx
  BY <1>0, <1>1 DEF Steps!RefUp
<1>7. Steps!RefUp'
  <2>1. PICK o : o = Linked
    OBVIOUS
  <2>2. PICK t : t = nb_total_block
    OBVIOUS
  <2>3. Steps!Oldest' = o /\ Steps!Counted' = t + 1 /\ o \in Nat /\ t \in Nat /\ HeadNo = o
    BY <2>1, <2>2, <1>1, <1>3, <1>4
  <2>4. \A s \in o..t : slots[s % NbBlkIdx].key \in Keys
    <3>1. \A s \in o..(t - 1) : slots[s % NbBlkIdx].key \in Keys
      BY <2>1, <2>2, <1>1 DEF Steps!RefUp
    <3>2. slots[t % NbBlkIdx].key \in Keys
      BY <2>2, <1>5
    <3>3. \A s \in o..t : s \in o..(t - 1) \/ s = t
      BY <2>3
    <3> QED BY <3>1, <3>2, <3>3
  <2>5. cache_idx_head' = (o - 0) % NbBlkIdx
    BY <2>3, <1>6
  <2>6. \A s \in o..(Steps!Counted' - 1) : slots'[s % NbBlkIdx].key \in Keys
    <3>1. (t + 1) - 1 = t /\ slots' = slots
      BY <2>3, <1>0
    <3> QED BY <3>1, <2>3, <2>4
  <2> QED BY <2>3, <2>5, <2>6, <1>3 DEF Steps!RefUp
<1> QED BY <1>1, <1>3, <1>4, <1>7

LEMMA UpReturn ==
  ASSUME Types, Up, CountTotal
  PROVE  Steps!Oldest' - Steps!Behind' = HeadNo /\ Steps!RefUp'
<1>0. /\ pc = "total" /\ ~dropping /\ pc' = "idle" /\ nb_total_block' = nb_total_block + 1
      /\ UNCHANGED <<cache_idx_head, slots, list, dropping>>
  BY DEF CountTotal, At
<1>1. /\ Linked = Steps!Oldest /\ Linked \in Nat /\ HeadNo = Linked - Steps!Behind /\ HeadNo \in Nat
      /\ Steps!RefUp /\ Steps!Behind = 0
  BY <1>0, UpFacts DEF Up, Steps!Apart, Steps!Loading
<1>2. Steps!Counted' = Steps!Counted
  BY <1>0 DEF Steps!Counted
<1>3. Steps!Behind' = Steps!Behind /\ Steps!Oldest' = Steps!Oldest
  BY <1>0, <1>2 DEF Steps!Behind, Steps!Oldest
<1>4. cache_idx_head = HeadNo % NbBlkIdx
  BY <1>1 DEF Steps!RefUp
<1>5. Moves = 0
  BY <1>0 DEF Moves, AdvanceHead
<1>6. /\ Steps!Oldest' - Steps!Behind' = HeadNo + Moves
      /\ cache_idx_head' = (HeadNo + Moves) % NbBlkIdx
      /\ Linked <= Steps!Oldest' /\ Steps!Oldest' \in Nat
  BY <1>0, <1>1, <1>3, <1>4, <1>5
<1>7. pc \notin Steps!Apart /\ pc' \notin Steps!Apart
  BY <1>0 DEF Steps!Apart, Steps!Loading
<1> QED BY <1>0, <1>1, <1>2, <1>3, <1>6, <1>7, OldestKept

(* Where the head is, now or after a step.                                 *)
LEMMA HeadIs ==
  ASSUME Types, Up, pc \notin Steps!Apart
  PROVE  /\ Linked = Steps!Oldest /\ HeadNo = Linked - Steps!Behind
         /\ HeadNo \in Nat /\ cache_idx_head = HeadNo % NbBlkIdx
BY UpFacts DEF Up, Steps!RefUp

(* The running process keeps the list the file has.                        *)
LEMMA UpKept ==
  ASSUME Types, Up, CallInv, pc \notin Steps!Apart,
         InnerStep \/ CountTotal \/ \E k \in Keys : Begin(k),
         UNCHANGED <<uncounted, cut, joined>>
  PROVE  Types' /\ Up' /\ pc' \notin Steps!Apart /\ HeadNo' = HeadNo + Moves
<1>1. Types' /\ Steps!TornInv' /\ pc' \notin Steps!Apart
  BY TypesKept, TornKept
<1>2. Steps!TornInv /\ HeadNo \in Nat
  BY UpFacts DEF Up
<1>3. Steps!RefUp' /\ Steps!Oldest' - Steps!Behind' = HeadNo + Moves
  <2>1. CASE AdvanceHead
    <3>1. Steps!Oldest' - Steps!Behind' = HeadNo + 1 /\ Steps!RefUp'
      BY <2>1, UpAdvance
    <3> QED BY <2>1, <3>1 DEF Moves
  <2>2. ASSUME ~AdvanceHead, Steps!Oldest' - Steps!Behind' = HeadNo
        PROVE  Steps!Oldest' - Steps!Behind' = HeadNo + Moves
    BY <2>2, <1>2 DEF Moves
  <2>3. CASE LeavePreviousLap \/ MakeRoom
    <3>1. pc \in {"lap", "room", "slot"} /\ ~dropping /\ list # <<>> /\ Drop /\ ~AdvanceHead
      BY <2>3 DEF LeavePreviousLap, MakeRoom, At, AdvanceHead
    <3> QED BY <3>1, <2>2, UpDrop
  <2>4. CASE FreeSlot
    <3>1. pc = "slot" /\ ~dropping /\ edge /\ Drop /\ ~AdvanceHead
      BY <2>4 DEF FreeSlot, At, AdvanceHead
    <3>2. list # <<>>
      BY <3>1, <1>2 DEF Steps!TornInv, Steps!Beginning
    <3> QED BY <3>1, <3>2, <2>2, UpDrop
  <2>5. CASE Rotate \/ RoomMade \/ Die \/ WritePart \/ TakeSlot \/ \E k \in Keys : Begin(k)
    <3>1. ~AdvanceHead
      <4>1. dropping => pc \in {"lap", "room", "slot"}
        BY <1>2 DEF Steps!TornInv, Steps!Types
      <4> QED BY <4>1, <2>5 DEF Rotate, RoomMade, Die, WritePart, TakeSlot, Begin, At, AdvanceHead
    <3>2. /\ pc \notin Steps!Apart \cup {"total"} /\ pc' \notin Steps!Apart \cup {"total"}
          /\ UNCHANGED <<slots, cache_idx_head, list, nb_total_block, dropping>>
      BY <2>5 DEF Rotate, RoomMade, Die, WritePart, TakeSlot, Begin, At, file, Steps!Apart,
         Steps!Loading
    <3> QED BY <3>1, <3>2, <2>2, UpStay
  <2>6. CASE FillKey \/ FillOffset
    <3>1. ~AdvanceHead
      BY <2>6 DEF FillKey, FillOffset, At, AdvanceHead
    <3> QED BY <3>1, <2>6, <2>2, UpFill
  <2>7. CASE CountBlock
    <3>1. ~AdvanceHead
      BY <2>7 DEF CountBlock, At, AdvanceHead
    <3> QED BY <3>1, <2>7, <2>2, UpCount
  <2>8. CASE CountTotal
    <3>1. ~AdvanceHead
      BY <2>8 DEF CountTotal, At, AdvanceHead
    <3> QED BY <3>1, <2>8, <2>2, UpReturn
  <2> QED BY <2>1, <2>3, <2>4, <2>5, <2>6, <2>7, <2>8 DEF InnerStep
<1>4. Up'
  BY <1>1, <1>3 DEF Up
<1>5. HeadNo' = HeadNo + Moves
  <2>1. (Linked = Steps!Oldest /\ HeadNo = Linked - Steps!Behind)'
    <3>1. (Types /\ Up /\ pc \notin Steps!Apart)'
      BY <1>1, <1>4
    <3> QED BY <3>1, HeadIs, PTL
  <2> QED BY <2>1, <1>3
<1> QED BY <1>1, <1>4, <1>5

-----------------------------------------------------------------------------
(* Only AdvanceHead and the end of an insertion change the view.           *)
Unmoved ==
  HeadNo' = HeadNo /\ nb_total_block' = nb_total_block /\ \A s \in Held : SlotOf(s)' = SlotOf(s)

LEMMA ViewKept ==
  ASSUME Types, Ring, Up, CallInv, pc \notin Steps!Apart,
         (InnerStep /\ ~AdvanceHead) \/ \E k \in Keys : Begin(k),
         UNCHANGED <<uncounted, cut, joined>>
  PROVE  Unmoved
<1>1. HeadNo' = HeadNo
  <2>1. ~AdvanceHead
    BY DEF Begin, AdvanceHead, Up, Steps!TornInv, Steps!Types
  <2>2. HeadNo' = HeadNo + 0
    BY <2>1, UpKept DEF Moves
  <2> QED BY <2>2, RingFacts
<1>2. nb_total_block' = nb_total_block
  BY DEF Begin, InnerStep, LeavePreviousLap, Rotate, MakeRoom, RoomMade, Die, WritePart,
         FreeSlot, TakeSlot, FillKey, FillOffset, CountBlock, Drop, file
<1>3. ASSUME NEW s \in Held
      PROVE  SlotOf(s)' = SlotOf(s)
  <2>1. CASE FillKey \/ FillOffset
    <3>1. pc \in {"fill", "offset"} /\ ~dropping
      BY <2>1 DEF FillKey, FillOffset, At
    <3>2. s % NbBlkIdx \in Slots \ {Taken}
      BY <3>1, TakenIs DEF Held
    <3>3. slots \in [Slots -> Steps!SlotEntry]
      BY DEF Types
    <3>4. slots'[s % NbBlkIdx] = slots[s % NbBlkIdx]
      BY <2>1, <3>2, <3>3 DEF FillKey, FillOffset
    <3> QED BY <3>4 DEF SlotOf
  <2>2. CASE ~FillKey /\ ~FillOffset
    <3>1. slots' = slots
      BY <2>2 DEF Begin, InnerStep, LeavePreviousLap, Rotate, MakeRoom, RoomMade, Die, WritePart,
                  FreeSlot, TakeSlot, CountBlock, Drop, file
    <3> QED BY <3>1 DEF SlotOf
  <2> QED BY <2>1, <2>2
<1> QED BY <1>1, <1>2, <1>3 DEF Unmoved

(* The parts of the view, and of a call, that stay as they are.            *)
LEMMA CallSame ==
  ASSUME Types, Ring, Unmoved
  PROVE  /\ Held' = Held /\ VPos' = VPos /\ VFault' = VFault
         /\ \A s \in Held : SlotOf(s)' = SlotOf(s)
         /\ \A len \in Nat : Turns(len)' = Turns(len) /\ StartAt(len)' = StartAt(len)
         /\ \A k \in Keys : Link!Clear(k)' <=> Link!Clear(k)
<1>1. /\ Held' = Held /\ VBlk' = VBlk /\ VNb' = VNb /\ VPos' = VPos
      /\ VEdge' = VEdge /\ VFault' = VFault /\ nb_total_block' = nb_total_block
  BY SameView DEF Unmoved
<1>2. \A len \in Nat : Turns(len)' = Turns(len) /\ StartAt(len)' = StartAt(len)
  BY <1>1 DEF Turns, StartAt
<1>3. ASSUME NEW k \in Keys
      PROVE  Link!Clear(k)' <=> Link!Clear(k)
  <2>1. Link!First' = Link!First /\ Link!Live' = Link!Live
    BY <1>1 DEF Link!First, Link!Live
  <2>2. \A s : Link!CurrentLap(s)' <=> Link!CurrentLap(s)
    BY <1>1 DEF Link!CurrentLap
  <2>3. \A len : (Link!Rotates(len)' <=> Link!Rotates(len)) /\ (Link!Edging(len)' <=> Link!Edging(len))
    BY <1>1 DEF Link!Rotates, Link!Edging
  <2> QED BY <1>1, <2>1, <2>2, <2>3 DEF Link!Clear
<1> QED BY <1>1, <1>2, <1>3 DEF Unmoved

LEMMA RingKept ==
  ASSUME Types, Ring, Up, CallInv, pc \notin Steps!Apart,
         (InnerStep /\ ~AdvanceHead) \/ \E k \in Keys : Begin(k),
         UNCHANGED <<uncounted, cut, joined>>
  PROVE  Ring'
<1>1. /\ HeadNo' = HeadNo /\ nb_total_block' = nb_total_block
      /\ \A s \in Held : SlotOf(s)' = SlotOf(s)
      /\ Held' = Held /\ VFault' = VFault
  BY ViewKept, CallSame DEF Unmoved
<1>2. Types' /\ Up' /\ pc' \notin Steps!Apart
  BY UpKept
<1>3. (Linked = Steps!Oldest /\ HeadNo = Linked - Steps!Behind /\ HeadNo \in Nat
         /\ cache_idx_head = HeadNo % NbBlkIdx)'
  <2>1. (Types /\ Up /\ pc \notin Steps!Apart)'
    BY <1>2
  <2> QED BY <2>1, HeadIs, PTL
<1>4. HeadNo' \in 0..nb_total_block' /\ nb_total_block' - HeadNo' <= NbBlkIdx
  BY <1>1 DEF Ring
<1>5. \A s \in Held' : SlotOf(s)'.key \in Keys
  BY <1>1 DEF Ring
<1>6. ASSUME Over' = 1
      PROVE  /\ HeadNo' = Linked' /\ nb_total_block' + 1 - HeadNo' <= NbBlkIdx
             /\ ~VFault'
             /\ SlotOf(nb_total_block)'.key \in Keys
             /\ \A s \in Held' : SlotOf(s)'.key # SlotOf(nb_total_block)'.key
  <2>1. pc' = "total"
    BY <1>2, <1>6 DEF Over, Types, Steps!Apart, Steps!Loading
  <2>2. CountBlock
    <3>1. pc # "total"
      BY DEF InnerStep, LeavePreviousLap, Rotate, MakeRoom, RoomMade, Die, WritePart, FreeSlot,
             TakeSlot, FillKey, FillOffset, CountBlock, Begin, At
    <3> QED BY <2>1, <3>1 DEF InnerStep, LeavePreviousLap, Rotate, MakeRoom, RoomMade, Die,
               WritePart, FreeSlot, TakeSlot, FillKey, FillOffset, Drop, Begin
  <2>3. pc = "count" /\ ~dropping /\ ~dropping' /\ slots' = slots
    BY <2>2 DEF CountBlock, At
  <2>4. HeadNo' = Linked'
    <3>1. Steps!Behind' = 0
      BY <2>3 DEF Steps!Behind
    <3>2. Linked' = Steps!Oldest' /\ HeadNo' = Linked' - Steps!Behind' /\ HeadNo' \in Nat
      BY <1>3
    <3>3. HeadNo = Linked /\ Linked \in Nat
      BY <2>3, UpFacts DEF Steps!Behind
    <3>4. Steps!Oldest' - Steps!Behind' = HeadNo
      BY <2>2, UpCount
    <3>5. Linked' - 0 = HeadNo
      BY <3>1, <3>2, <3>4
    <3>6. HeadNo' = HeadNo /\ HeadNo \in Nat
      BY <3>3, <1>1
    <3>7. Steps!Oldest' \in Nat
      <4>1. (Types /\ Up /\ pc \notin Steps!Apart)'
        BY <1>2
      <4>2. (Linked \in Nat /\ Linked = Steps!Oldest)'
        BY <4>1, UpFacts, PTL
      <4> QED BY <4>2
    <3>8. PICK l : l = Linked'
      OBVIOUS
    <3>9. l \in Nat /\ l - 0 = HeadNo
      BY <3>2, <3>5, <3>7, <3>8
    <3>10. l = HeadNo
      BY <3>6, <3>9
    <3> QED BY <3>6, <3>8, <3>10
  <2>5. nb_total_block + 1 - HeadNo <= NbBlkIdx
    BY <2>3, TakenIs
  <2>6. cur.key \in Keys /\ Calling(cur.key)
    BY <2>3 DEF CallInv, Steps!InCall
  <2>7. /\ ~VFault /\ SlotOf(nb_total_block).key = cur.key
        /\ \A s \in Held : SlotOf(s).key # cur.key
    BY <2>3, <2>6 DEF Calling
  <2>8. SlotOf(nb_total_block)' = SlotOf(nb_total_block)
    BY <1>1, <2>3 DEF SlotOf
  <2> QED BY <1>1, <2>4, <2>5, <2>6, <2>7, <2>8
<1> QED BY <1>3, <1>4, <1>5, <1>6 DEF Ring, SlotOf

(* Where a call is, step by step.  The oldest block the header counts is   *)
(* the one the loops look at.                                              *)
LEMMA HeadSame ==
  ASSUME Types, Ring, Unmoved, HeadNo < nb_total_block
  PROVE  SlotOf(HeadNo)' = SlotOf(HeadNo)
<1>1. PICK h : h = HeadNo
  OBVIOUS
<1>2. h \in Held /\ HeadNo' = h
  BY <1>1, RingFacts DEF Unmoved
<1>3. slots'[h % NbBlkIdx] = slots[h % NbBlkIdx]
  BY <1>2 DEF Unmoved, SlotOf
<1> QED BY <1>1, <1>2, <1>3 DEF SlotOf

LEMMA CallDrop ==
  ASSUME Types, Ring, CallInv, Unmoved, pc \in {"lap", "room", "slot"}, UNCHANGED <<pc, cur, data_pos_wr>>
  PROVE  CallInv'
<1>1. cur.key \in Keys /\ Calling(cur.key)
  BY DEF CallInv, Steps!InCall
<1>2. PICK k \in Keys : k = cur.key
  BY <1>1
<1>3. /\ Held' = Held /\ VPos' = VPos /\ VFault' = VFault
      /\ \A s \in Held : SlotOf(s)' = SlotOf(s)
      /\ \A len \in Nat : Turns(len)' = Turns(len) /\ StartAt(len)' = StartAt(len)
      /\ Link!Clear(k)' <=> Link!Clear(k)
      /\ HeadNo' = HeadNo /\ nb_total_block' = nb_total_block
      /\ HeadNo < nb_total_block => SlotOf(HeadNo)' = SlotOf(HeadNo)
      /\ BlkLen[k] \in Nat
  BY CallSame, HeadSame, Constants DEF Unmoved
<1>4. Calling(k)
  BY <1>1, <1>2
<1>5. Calling(k)'
  BY <1>3, <1>4 DEF Calling
<1> QED BY <1>2, <1>5 DEF CallInv, Steps!InCall

LEMMA CallRotate ==
  ASSUME Types, Ring, Up, CallInv, Unmoved, Rotate
  PROVE  CallInv'
<1>0. /\ pc = "lap" /\ ~dropping /\ list # <<>> /\ ~PreviousLap(slots[list[1]].off)
      /\ data_pos_wr' = 0 /\ pc' = "room" /\ cur' = cur
  BY DEF Rotate, At
<1>1. cur.key \in Keys /\ Calling(cur.key)
  BY <1>0 DEF CallInv, Steps!InCall
<1>2. PICK k \in Keys : k = cur.key
  BY <1>1
<1>3. /\ Held' = Held /\ VPos' = VPos /\ VFault' = VFault
      /\ \A s \in Held : SlotOf(s)' = SlotOf(s)
      /\ \A len \in Nat : Turns(len)' = Turns(len) /\ StartAt(len)' = StartAt(len)
      /\ HeadNo' = HeadNo /\ nb_total_block' = nb_total_block
      /\ HeadNo < nb_total_block => SlotOf(HeadNo)' = SlotOf(HeadNo)
      /\ BlkLen[k] \in Nat
  BY CallSame, HeadSame, Constants DEF Unmoved
<1>4. /\ HeadNo = Linked /\ HeadNo < nb_total_block /\ list[1] = HeadNo % NbBlkIdx
      /\ nb_total_block \in Nat /\ HeadNo \in Nat
  BY <1>0, UpFacts DEF Steps!Apart, Steps!Loading
<1>5. ~VFault /\ Turns(BlkLen[k]) /\ data_pos_wr = VPos /\ cur.left = BlkLen[k]
      /\ IsCached(k) /\ \A s \in Held : SlotOf(s).key # k
  <2>1. ~VFault
    BY <1>4 DEF VFault
  <2> QED BY <2>1, <1>0, <1>1, <1>2 DEF Calling
<1>6. SlotOf(HeadNo).off < VPos
  <2>1. SlotOf(HeadNo).off < VPos \/ SlotOf(HeadNo).off = 0
    <3>1. SlotOf(HeadNo).off \in Nat /\ VPos \in Nat
      BY <1>4, RingFacts
    <3> QED BY <3>1, <1>0, <1>4, <1>5 DEF PreviousLap, SlotOf
  <2>2. VPos > 0
    <3>1. nb_total_block - 1 \in Held
      BY <1>4, RingFacts
    <3>2. EndOf(nb_total_block - 1) > 0
      <4>1. PICK z \in Held : z = nb_total_block - 1
        BY <3>1
      <4>2. SlotOf(z).off \in Nat /\ SlotOf(z).key \in Keys /\ EndOf(z) = SlotOf(z).off + BlkLen[SlotOf(z).key]
        BY RingFacts
      <4>3. BlkLen[SlotOf(z).key] \in Nat /\ BlkLen[SlotOf(z).key] > 0
        BY <4>2, Constants
      <4> QED BY <4>1, <4>2, <4>3
    <3> QED BY <3>2, <1>4 DEF VPos
  <2> QED BY <2>1, <2>2
<1>7. StartAt(BlkLen[k]) = 0
  BY <1>5 DEF StartAt
<1>8. Calling(k)'
  BY <1>0, <1>3, <1>4, <1>5, <1>6, <1>7 DEF Calling
<1> QED BY <1>0, <1>2, <1>8 DEF CallInv, Steps!InCall

LEMMA CallDie ==
  ASSUME Die
  PROVE  CallInv'
BY DEF Die, CallInv, Steps!InCall

LEMMA CallRoomMade ==
  ASSUME Types, Ring, Up, CallInv, Link!IInv, Unmoved, RoomMade
  PROVE  CallInv'
<1>0. /\ pc = "room" /\ ~dropping /\ list # <<>> /\ ~InTheWay(slots[list[1]].off)
      /\ data_pos_wr' = data_pos_wr /\ pc' = "write" /\ cur' = cur
  BY DEF RoomMade, At, file
<1>1. cur.key \in Keys /\ Calling(cur.key)
  BY <1>0 DEF CallInv, Steps!InCall
<1>2. PICK k \in Keys : k = cur.key
  BY <1>1
<1>3. /\ Held' = Held /\ VPos' = VPos /\ VFault' = VFault
      /\ \A s \in Held : SlotOf(s)' = SlotOf(s)
      /\ \A len \in Nat : Turns(len)' = Turns(len) /\ StartAt(len)' = StartAt(len)
      /\ Link!Clear(k)' <=> Link!Clear(k)
      /\ BlkLen[k] \in Nat
  BY CallSame, Constants DEF Unmoved
<1>4. /\ HeadNo = Linked /\ HeadNo < nb_total_block /\ list[1] = HeadNo % NbBlkIdx
      /\ nb_total_block \in Nat /\ HeadNo \in Nat /\ HeadNo \in Held
  BY <1>0, UpFacts DEF Held, Steps!Apart, Steps!Loading
<1>5. ~VFault /\ cur.left = BlkLen[k] /\ data_pos_wr = StartAt(BlkLen[k])
      /\ (Turns(BlkLen[k]) => SlotOf(HeadNo).off < VPos)
      /\ IsCached(k) /\ \A s \in Held : SlotOf(s).key # k
  <2>1. ~VFault
    BY <1>4 DEF VFault
  <2> QED BY <2>1, <1>0, <1>1, <1>2 DEF Calling
<1>6. Link!First = HeadNo /\ VBlk[HeadNo] = SlotOf(HeadNo)
  BY <1>4, ViewFacts
<1>7. Link!EdgeCache(BlkLen[k], Link!First)
  <2>1. HeadNo..(HeadNo - 1) = {} /\ HeadNo \in HeadNo..nb_total_block
    BY <1>4
  <2>2. Turns(BlkLen[k]) => HeadNo \notin Link!PreviousLap
    <3>1. SlotOf(HeadNo).off \in Nat /\ VPos \in Nat
      BY <1>4, RingFacts
    <3>2. SlotOf(HeadNo).off < VPos => ~(SlotOf(HeadNo).off >= VPos)
      BY <3>1
    <3> QED BY <3>2, <1>5, <1>6 DEF Link!PreviousLap
  <2>3. HeadNo \notin Link!InTheWay(StartAt(BlkLen[k]), BlkLen[k])
    BY <1>0, <1>4, <1>5, <1>6 DEF Link!InTheWay, Link!Minus, InTheWay, SlotOf
  <2>4. (Link!Rotates(BlkLen[k]) <=> Turns(BlkLen[k]))
        /\ Link!WritePos(BlkLen[k]) = StartAt(BlkLen[k])
    BY DEF Link!Rotates, Turns, Link!WritePos, StartAt
  <2> QED BY <2>1, <2>2, <2>3, <2>4, <1>4, <1>6 DEF Link!EdgeCache, Link!Removes
<1>8. Link!Clear(k)
  BY <1>4, <1>5, <1>6, <1>7, Assumptions, Link!ClearAfter
<1>9. Calling(k)'
  <2>1. StartAt(BlkLen[k]) \in Nat
    BY RingFacts DEF StartAt
  <2>2. data_pos_wr' = StartAt(BlkLen[k]) + (BlkLen[k] - cur'.left) /\ cur'.left \in 0..BlkLen[k]
        /\ ~(cur'.left < BlkLen[k])
    BY <2>1, <1>0, <1>3, <1>5
  <2> QED BY <2>2, <1>0, <1>3, <1>5, <1>8 DEF Calling
<1> QED BY <1>0, <1>2, <1>9 DEF CallInv, Steps!InCall

LEMMA CallWrite ==
  ASSUME Types, Ring, CallInv, Unmoved, WritePart
  PROVE  CallInv'
<1>0. pc = "write"
  BY DEF WritePart, At
<1>1. cur.key \in Keys /\ Calling(cur.key)
  BY <1>0 DEF CallInv, Steps!InCall
<1>2. PICK k \in Keys : k = cur.key
  BY <1>1
<1>3. /\ Held' = Held /\ VPos' = VPos /\ VFault' = VFault
      /\ \A s \in Held : SlotOf(s)' = SlotOf(s)
      /\ \A len \in Nat : Turns(len)' = Turns(len) /\ StartAt(len)' = StartAt(len)
      /\ Link!Clear(k)' <=> Link!Clear(k)
      /\ BlkLen[k] \in Nat
  BY CallSame, Constants DEF Unmoved
<1>4. PICK n \in 1..cur.left :
        /\ n < cur.left => cur.left = BlkLen[k]
        /\ data_pos_wr' = data_pos_wr + n
        /\ cur' = [cur EXCEPT !.left = @ - n,
                     !.off = IF cur.left = BlkLen[k] THEN data_pos_wr ELSE @]
        /\ pc' = IF n = cur.left THEN "slot" ELSE "write"
  BY <1>2 DEF WritePart
<1>5. /\ IsCached(k) /\ (\A s \in Held : SlotOf(s).key # k)
      /\ ~VFault /\ Link!Clear(k)
      /\ cur.left \in 0..BlkLen[k]
      /\ data_pos_wr = StartAt(BlkLen[k]) + (BlkLen[k] - cur.left)
      /\ cur.left < BlkLen[k] => cur.off = StartAt(BlkLen[k])
  BY <1>0, <1>1, <1>2 DEF Calling
<1>6. /\ cur'.key = k /\ cur'.left = cur.left - n
      /\ cur'.off = IF cur.left = BlkLen[k] THEN data_pos_wr ELSE cur.off
  <2>1. cur \in [key : Keys \cup {NoKey}, off : Nat, left : Int]
    BY DEF Types
  <2> QED BY <2>1, <1>2, <1>4
<1>7. StartAt(BlkLen[k]) \in Nat
  BY RingFacts DEF StartAt
<1>8. cur'.off = StartAt(BlkLen[k])
  BY <1>3, <1>5, <1>6, <1>7
<1>9. cur'.left \in 0..BlkLen[k]
      /\ data_pos_wr' = StartAt(BlkLen[k]) + (BlkLen[k] - cur'.left)
      /\ (pc' = "slot" => cur'.left = 0)
  BY <1>3, <1>4, <1>5, <1>6, <1>7
<1>10. pc' = "slot" => data_pos_wr' = StartAt(BlkLen[k]) + BlkLen[k]
  BY <1>3, <1>7, <1>9
<1>11. Calling(k)'
  BY <1>3, <1>4, <1>5, <1>8, <1>9, <1>10 DEF Calling
<1>12. \A l \in Keys : l = cur'.key => l = k
  BY <1>6
<1> QED BY <1>4, <1>6, <1>11, <1>12 DEF CallInv, Steps!InCall

LEMMA CallTakeSlot ==
  ASSUME Types, Ring, CallInv, Unmoved, TakeSlot
  PROVE  CallInv'
<1>0. pc = "slot" /\ pc' = "fill" /\ UNCHANGED <<cur, data_pos_wr>>
  BY DEF TakeSlot, At
<1>1. cur.key \in Keys /\ Calling(cur.key)
  BY <1>0 DEF CallInv, Steps!InCall
<1>2. PICK k \in Keys : k = cur.key
  BY <1>1
<1>3. /\ Held' = Held /\ VPos' = VPos /\ VFault' = VFault
      /\ \A s \in Held : SlotOf(s)' = SlotOf(s)
      /\ \A len \in Nat : Turns(len)' = Turns(len) /\ StartAt(len)' = StartAt(len)
      /\ Link!Clear(k)' <=> Link!Clear(k)
      /\ BlkLen[k] \in Nat
  BY CallSame, Constants DEF Unmoved
<1>4. Calling(k)'
  BY <1>0, <1>1, <1>2, <1>3 DEF Calling
<1> QED BY <1>0, <1>2, <1>4 DEF CallInv, Steps!InCall

LEMMA CallFill ==
  ASSUME Types, Ring, Up, CallInv, Unmoved, FillKey \/ FillOffset \/ CountBlock
  PROVE  CallInv'
<1>0. /\ pc \in {"fill", "offset", "count"} /\ ~dropping /\ pc' \in {"offset", "count", "total"}
      /\ UNCHANGED <<cur, data_pos_wr, nb_total_block>>
  BY DEF FillKey, FillOffset, CountBlock, At
<1>1. cur.key \in Keys /\ Calling(cur.key)
  BY <1>0 DEF CallInv, Steps!InCall
<1>2. PICK k \in Keys : k = cur.key
  BY <1>1
<1>3. /\ Held' = Held /\ VPos' = VPos /\ VFault' = VFault
      /\ \A s \in Held : SlotOf(s)' = SlotOf(s)
      /\ \A len \in Nat : Turns(len)' = Turns(len) /\ StartAt(len)' = StartAt(len)
      /\ Link!Clear(k)' <=> Link!Clear(k)
      /\ BlkLen[k] \in Nat
  BY CallSame, Constants DEF Unmoved
<1>4. /\ IsCached(k) /\ (\A s \in Held : SlotOf(s).key # k)
      /\ ~VFault /\ Link!Clear(k)
      /\ data_pos_wr = StartAt(BlkLen[k]) + BlkLen[k] /\ cur.off = StartAt(BlkLen[k])
      /\ pc = "offset" => SlotOf(nb_total_block).key = k
      /\ pc = "count" => SlotOf(nb_total_block) = [key |-> k, off |-> StartAt(BlkLen[k])]
  BY <1>0, <1>1, <1>2 DEF Calling
<1>5. Taken = nb_total_block % NbBlkIdx /\ Taken \in Slots
      /\ slots \in [Slots -> Steps!SlotEntry]
  BY <1>0, TakenIs DEF Types
<1>6. pc' = "offset" => SlotOf(nb_total_block)'.key = k
  <2> SUFFICES ASSUME FillKey PROVE SlotOf(nb_total_block)'.key = k
    BY DEF FillKey, FillOffset, CountBlock
  <2>1. slots' = [slots EXCEPT ![Taken].key = cur.key]
    BY DEF FillKey
  <2>2. slots'[Taken].key = k
    BY <2>1, <1>2, <1>5 DEF Steps!SlotEntry
  <2> QED BY <2>2, <1>0, <1>5 DEF SlotOf
<1>7. pc' \in {"count", "total"} =>
        SlotOf(nb_total_block)' = [key |-> k, off |-> StartAt(BlkLen[k])]
  <2>1. CASE FillOffset
    <3>1. slots' = [slots EXCEPT ![Taken].off = cur.off] /\ pc = "offset"
      BY <2>1 DEF FillOffset, At
    <3>2. slots[Taken].key = k
      BY <3>1, <1>4, <1>5 DEF SlotOf
    <3>3. slots'[Taken] = [key |-> k, off |-> cur.off]
      BY <3>1, <3>2, <1>5 DEF Steps!SlotEntry
    <3> QED BY <3>3, <1>0, <1>4, <1>5 DEF SlotOf
  <2>2. CASE CountBlock
    <3>1. slots' = slots /\ pc = "count"
      BY <2>2 DEF CountBlock, At
    <3> QED BY <3>1, <1>0, <1>4 DEF SlotOf
  <2>3. CASE FillKey
    BY <2>3 DEF FillKey
  <2> QED BY <2>1, <2>2, <2>3
<1>8. Calling(k)'
  BY <1>0, <1>3, <1>4, <1>6, <1>7 DEF Calling
<1> QED BY <1>0, <1>2, <1>8 DEF CallInv, Steps!InCall

LEMMA CallBegin ==
  ASSUME Types, Ring, Up, CallInv, Link!IInv, Unmoved, NEW k \in Keys, Begin(k)
  PROVE  CallInv'
<1>0. /\ pc = "idle" /\ IsCached(k) /\ Matches(k) = {}
      /\ cur' = [key |-> k, off |-> 0, left |-> BlkLen[k]]
      /\ pc' = IF data_pos_wr + BlkLen[k] > CacheSz THEN "lap" ELSE IF edge THEN "room" ELSE "write"
      /\ data_pos_wr' = data_pos_wr
  BY DEF Begin, file
<1>1. ~VFault /\ data_pos_wr = VPos
  BY <1>0 DEF CallInv
<1>2. /\ Held' = Held /\ VPos' = VPos /\ VFault' = VFault
      /\ \A s \in Held : SlotOf(s)' = SlotOf(s)
      /\ \A len \in Nat : Turns(len)' = Turns(len) /\ StartAt(len)' = StartAt(len)
      /\ Link!Clear(k)' <=> Link!Clear(k)
      /\ BlkLen[k] \in Nat
  BY CallSame, Constants DEF Unmoved
<1>3. /\ Over = 0 /\ HeadNo = Linked /\ Linked \in Nat /\ nb_total_block \in Nat
      /\ nb_total_block = Linked + Len(list) /\ Len(list) \in Nat
      /\ \A s \in Linked..(nb_total_block - 1) : list[s - Linked + 1] = s % NbBlkIdx
  <2>1. Steps!Behind = 0
    BY <1>0 DEF Steps!Behind, Up, Steps!TornInv, Steps!Types, Steps!Apart, Steps!Loading
  <2> QED BY <2>1, <1>0, UpFacts DEF Steps!Apart, Steps!Loading
<1>4. ASSUME NEW s \in Held
      PROVE  SlotOf(s).key # k
  <2>1. s - Linked + 1 \in DOMAIN list /\ list[s - Linked + 1] = s % NbBlkIdx
    <3>1. list \in Seq(Steps!Slots)
      BY <1>0 DEF Up, Steps!TornInv, Steps!Types, Steps!Apart, Steps!Loading
    <3>2. DOMAIN list = 1..Len(list)
      BY <3>1
    <3> QED BY <3>2, <1>3 DEF Held
  <2> QED BY <2>1, <1>0 DEF Matches, SlotOf
<1>5. VPos \in Nat
  BY RingFacts
<1>6. pc' = "lap" <=> Turns(BlkLen[k])
  BY <1>0, <1>1 DEF Turns
<1>7. pc' # "lap" => StartAt(BlkLen[k]) = VPos
  BY <1>6 DEF StartAt
<1>8. pc' = "write" => Link!Clear(k)
  <2> SUFFICES ASSUME pc' = "write" PROVE Link!Clear(k)
    OBVIOUS
  <2>1. ~edge /\ ~Turns(BlkLen[k])
    BY <1>0, <1>6
  <2>2. Len(list) = Steps!Counted /\ Len(list) + Steps!Ahead < NbBlkIdx
    BY <2>1, <1>0 DEF Up, Steps!TornInv, Steps!Beginning, Steps!Apart, Steps!Loading
  <2>3. Steps!Counted = nb_total_block /\ Steps!Ahead = 0
    BY <1>0, <1>3 DEF Steps!Counted, Steps!Ahead
  <2>4. HeadNo = 0 /\ nb_total_block < NbBlkIdx
    BY <2>2, <2>3, <1>3
  <2>5. ~VEdge
    BY <2>4, Constants, <1>3 DEF VEdge
  <2>6. ~Link!Edging(BlkLen[k]) /\ ~Link!Rotates(BlkLen[k])
    BY <2>1, <2>5 DEF Link!Edging, Link!Rotates, Turns
  <2>7. Link!First = HeadNo /\ HeadNo \in HeadNo..nb_total_block
    BY <1>3, ViewFacts
  <2>8. Link!EdgeCache(BlkLen[k], Link!First)
    BY <2>6, <2>7 DEF Link!EdgeCache
  <2> QED BY <2>6, <2>8, <1>1, Assumptions, Link!ClearAfter
<1>9. /\ cur'.key = k /\ cur'.left = BlkLen[k] /\ pc' \in {"lap", "room", "write"}
      /\ cur'.left \in 0..BlkLen[k] /\ ~(cur'.left < BlkLen[k])
      /\ data_pos_wr' = VPos + (BlkLen[k] - cur'.left)
  BY <1>0, <1>1, <1>2, <1>5
<1>10. ASSUME NEW l \in Keys, l = k
       PROVE  Calling(l)'
  BY <1>0, <1>1, <1>2, <1>4, <1>6, <1>7, <1>8, <1>9, <1>10 DEF Calling
<1> QED BY <1>9, <1>10 DEF CallInv, Steps!InCall

CompressorOnly == UNCHANGED <<decVars, chan, coming, got, joined, uncounted, cut>>

(* The stores that leave the list of the view as it is.                    *)
LEMMA QuietStep ==
  ASSUME EndsInv, pc \notin Steps!Apart, (InnerStep /\ ~AdvanceHead) \/ \E k \in Keys : Begin(k),
         CompressorOnly
  PROVE  EndsInv'
<1>0. Types /\ Ring /\ Up /\ CallInv /\ Relation /\ Link!IInv
  BY DEF EndsInv, Relation
<1>1. UNCHANGED <<uncounted, cut, joined>> /\ DecoderSame /\ chan' = chan
  BY DEF CompressorOnly, DecoderSame
<1>2. Unmoved
  BY <1>0, <1>1, ViewKept
<1>3. Types' /\ Up' /\ Ring'
  BY <1>0, <1>1, UpKept, RingKept
<1>4. Relation'
  <2>1. Session' = Session
    BY <1>0, <1>1, UpKept, SessionSame
  <2> QED BY <2>1, <1>0, <1>1, <1>2, Quiet DEF Unmoved
<1>5. CallInv'
  <2>1. CASE LeavePreviousLap \/ MakeRoom \/ FreeSlot
    <3>1. pc \in {"lap", "room", "slot"} /\ UNCHANGED <<pc, cur, data_pos_wr>>
      BY <2>1 DEF LeavePreviousLap, MakeRoom, FreeSlot, Drop, At
    <3> QED BY <3>1, <1>0, <1>2, CallDrop
  <2>2. CASE Rotate
    BY <2>2, <1>0, <1>2, CallRotate
  <2>3. CASE RoomMade
    BY <2>3, <1>0, <1>2, CallRoomMade
  <2>4. CASE Die
    BY <2>4, CallDie
  <2>5. CASE WritePart
    BY <2>5, <1>0, <1>2, CallWrite
  <2>6. CASE TakeSlot
    BY <2>6, <1>0, <1>2, CallTakeSlot
  <2>7. CASE FillKey \/ FillOffset \/ CountBlock
    BY <2>7, <1>0, <1>2, CallFill
  <2>8. CASE \E k \in Keys : Begin(k)
    BY <2>8, <1>0, <1>2, CallBegin
  <2> QED BY <2>1, <2>2, <2>3, <2>4, <2>5, <2>6, <2>7, <2>8 DEF InnerStep
<1> QED BY <1>3, <1>4, <1>5 DEF EndsInv

(* With the same messages in transit.                                      *)
LEMMA SameApart ==
  ASSUME Types, Ring, StoreInv, ChanApart, Session => Link!LinkInv, Extends, DecoderSame,
         chan' = chan
  PROVE  ChanApart'
<1>1. VTotal' = VTotal /\ dpc' = dpc /\ coming' = coming
  BY DecoderView DEF DecoderSame, decVars
<1>2. dpc' \in Storing => Before(VTotal, coming)'
  BY <1>1, ApartKept
<1>3. ASSUME NEW i \in 1..Len(chan), Link!IsNew(chan[i])
      PROVE  /\ Before(VTotal + Cardinality(Link!NewIn(chan, i)), chan[i].key)'
             /\ BlkLen[chan[i].key] <= CacheSz
  <2>1. Session
    BY <1>3 DEF StoreInv
  <2>2. PICK n \in Nat : n = VTotal + Cardinality(Link!NewIn(chan, i))
    BY <1>3, <2>1, UnderWay
  <2>3. PICK k \in Keys : k = chan[i].key
    BY <2>1, UnderWay DEF Link!Message
  <2>4. Before(n, k)' /\ BlkLen[k] <= CacheSz
    BY <1>3, <2>2, <2>3, ApartKept
  <2>5. (VTotal + Cardinality(Link!NewIn(chan, i)))' = n /\ chan'[i].key = k
    BY <1>1, <2>2, <2>3
  <2> QED BY <2>3, <2>4, <2>5 DEF Before, SlotOf
<1>4. \A i \in 1..Len(chan') : Link!IsNew(chan'[i]) =>
         /\ Before(VTotal + Cardinality(Link!NewIn(chan, i)), chan[i].key)'
         /\ BlkLen[chan'[i].key] <= CacheSz
  BY <1>3
<1> QED BY <1>2, <1>4 DEF ChanApart

-----------------------------------------------------------------------------
(* The head moves past the oldest block.                                   *)
LEMMA AdvanceView ==
  ASSUME Types, Ring, Up, pc \notin Steps!Apart, AdvanceHead, UNCHANGED <<uncounted, cut, joined>>, CallInv
  PROVE  /\ HeadNo < nb_total_block /\ ~VFault /\ HeadNo' = HeadNo + 1
         /\ nb_total_block' = nb_total_block /\ HeadNo \in Nat /\ nb_total_block \in Nat
         /\ VBlk' = [s \in (HeadNo + 1)..(nb_total_block - 1) |-> VBlk[s]]
         /\ VNb' = VNb - 1 /\ VEdge' = TRUE /\ VFault' = (VNb = 1)
         /\ VFault' => VPos' = 0
         /\ ~VFault' => VPos' = VPos
         /\ \A s \in Held' : s \in Held /\ s # HeadNo /\ s \in Nat /\ s # nb_total_block
                             /\ SlotOf(s)' = SlotOf(s)
         /\ Extends
         /\ pc \in {"lap", "room", "slot"} /\ Over' = 0
<1>0. /\ dropping /\ pc' = pc /\ slots' = slots /\ nb_total_block' = nb_total_block
  BY DEF AdvanceHead
<1>1. pc \in {"lap", "room", "slot"}
  BY <1>0 DEF Up, Steps!TornInv, Steps!Types
<1>2. Moves = 1
  BY DEF Moves
<1>3. HeadNo' = HeadNo + 1
  BY <1>2, UpKept DEF InnerStep
<1>4. /\ HeadNo \in Nat /\ nb_total_block \in Nat /\ HeadNo < nb_total_block /\ Over = 0
  BY <1>0, <1>1, UpFacts
<1>5. ~VFault /\ VNb = nb_total_block - HeadNo /\ VNb' = VNb - 1
  BY <1>0, <1>3, <1>4 DEF VFault, VNb
<1>6. VEdge' = TRUE
  BY <1>3, <1>4 DEF VEdge
<1>7. VFault' = (VNb = 1)
  <2>1. VFault' \in BOOLEAN
    BY DEF VFault
  <2>2. VFault' <=> nb_total_block > 0 /\ HeadNo + 1 = nb_total_block
    BY <1>0, <1>3 DEF VFault
  <2>3. VFault' <=> VNb = 1
    BY <2>2, <1>4, <1>5
  <2> QED BY <2>1, <2>3
<1>8. ASSUME NEW s \in Held'
      PROVE  s \in Held /\ s # HeadNo /\ s \in Nat /\ s # nb_total_block /\ SlotOf(s)' = SlotOf(s)
             /\ s \in (HeadNo + 1)..(nb_total_block - 1)
  BY <1>0, <1>3, <1>4 DEF Held, SlotOf
<1>9. Held' = (HeadNo + 1)..(nb_total_block - 1)
  BY <1>0, <1>3 DEF Held
<1>10. VBlk' = [s \in (HeadNo + 1)..(nb_total_block - 1) |-> VBlk[s]]
  BY <1>8, <1>9 DEF VBlk
<1>11. VFault' => VPos' = 0
  BY <1>0, <1>3, <1>4 DEF VFault, VPos
<1>12. ~VFault' => VPos' = VPos
  <2> SUFFICES ASSUME ~VFault' PROVE VPos' = VPos
    OBVIOUS
  <2>1. HeadNo' # nb_total_block' /\ HeadNo # nb_total_block
    BY <1>0, <1>3, <1>4 DEF VFault
  <2> QED BY <2>1, <1>0 DEF VPos, EndOf, SlotOf
<1>13. Extends
  BY <1>0, <1>4, <1>8 DEF Extends
<1>14. Over' = 0
  BY <1>0, <1>1 DEF Over, Types
<1> QED BY <1>0, <1>1, <1>3, <1>4, <1>5, <1>6, <1>7, <1>8, <1>10, <1>11, <1>12, <1>13, <1>14

LEMMA AdvanceRing ==
  ASSUME Types, Ring, Up, CallInv, pc \notin Steps!Apart, AdvanceHead, UNCHANGED <<uncounted, cut, joined>>
  PROVE  Ring'
<1>1. /\ HeadNo < nb_total_block /\ HeadNo' = HeadNo + 1 /\ nb_total_block' = nb_total_block
      /\ HeadNo \in Nat /\ nb_total_block \in Nat /\ Over' = 0
      /\ \A s \in Held' : s \in Held /\ SlotOf(s)' = SlotOf(s)
  BY AdvanceView
<1>2. (Types /\ Up /\ pc \notin Steps!Apart)'
  BY UpKept DEF InnerStep
<1>3. (cache_idx_head = HeadNo % NbBlkIdx)'
  BY <1>2, HeadIs, PTL
<1>4. HeadNo' \in 0..nb_total_block' /\ nb_total_block' - HeadNo' <= NbBlkIdx
  BY <1>1, Constants DEF Ring
<1>5. \A s \in Held' : SlotOf(s)'.key \in Keys
  BY <1>1 DEF Ring
<1> QED BY <1>1, <1>3, <1>4, <1>5 DEF Ring, SlotOf

LEMMA AdvanceCall ==
  ASSUME Types, Ring, Up, CallInv, Link!IInv, pc \notin Steps!Apart, AdvanceHead,
         UNCHANGED <<uncounted, cut, joined>>
  PROVE  CallInv'
<1>0. /\ pc' = pc /\ cur' = cur /\ data_pos_wr' = data_pos_wr /\ slots' = slots /\ dropping
  BY DEF AdvanceHead
<1>1. /\ HeadNo < nb_total_block /\ ~VFault /\ HeadNo' = HeadNo + 1
      /\ nb_total_block' = nb_total_block /\ HeadNo \in Nat /\ nb_total_block \in Nat
      /\ VEdge' = TRUE /\ VNb' = VNb - 1
      /\ ~VFault' => VPos' = VPos
      /\ \A s \in Held' : s \in Held /\ SlotOf(s)' = SlotOf(s)
      /\ pc \in {"lap", "room", "slot"}
  BY AdvanceView
<1>2. cur.key \in Keys /\ Calling(cur.key)
  BY <1>1 DEF CallInv, Steps!InCall
<1>3. PICK k \in Keys : k = cur.key
  BY <1>2
<1>4. BlkLen[k] \in Nat
  BY Constants
<1>5. IsCached(k) /\ \A s \in Held' : SlotOf(s)'.key # k
  BY <1>1, <1>2, <1>3 DEF Calling
<1>6. VPos' = VPos => Turns(BlkLen[k])' = Turns(BlkLen[k]) /\ StartAt(BlkLen[k])' = StartAt(BlkLen[k])
  BY DEF Turns, StartAt
<1>7. CASE pc = "lap"
  <2>1. cur.left = BlkLen[k] /\ data_pos_wr = VPos /\ Turns(BlkLen[k])
    BY <1>1, <1>2, <1>3, <1>7 DEF Calling
  <2>2. Turns(BlkLen[k])' \/ VFault'
    BY <2>1, <1>1, <1>6
  <2>3. Calling(k)'
    BY <2>1, <2>2, <1>0, <1>1, <1>5, <1>7 DEF Calling
  <2> QED BY <2>3, <1>0, <1>3, <1>7 DEF CallInv, Steps!InCall
<1>8. CASE pc = "room"
  <2>1. cur.left = BlkLen[k] /\ data_pos_wr = StartAt(BlkLen[k])
        /\ (Turns(BlkLen[k]) => SlotOf(HeadNo).off < VPos)
    BY <1>1, <1>2, <1>3, <1>8 DEF Calling
  <2>2. ASSUME ~VFault', Turns(BlkLen[k])'
        PROVE  HeadNo' < nb_total_block' /\ SlotOf(HeadNo)'.off < VPos'
    <3>1. HeadNo' < nb_total_block'
      BY <2>2, <1>1 DEF VFault
    <3>2. PICK h \in Nat : h = HeadNo
      BY <1>1
    <3>3. h \in Held /\ h + 1 \in Held /\ h < h + 1
      BY <3>1, <3>2, <1>1 DEF Held
    <3>4. VBlk[h] = SlotOf(h) /\ VBlk[h + 1] = SlotOf(h + 1) /\ Link!Live = Held
      BY <3>3, ViewFacts
    <3>5. Link!LapOrder
      BY DEF Link!IInv
    <3>6. VBlk[h].off < VPos
      BY <2>1, <2>2, <3>2, <3>4, <1>1, <1>6
    <3>7. VBlk[h + 1].off < VPos
      BY <3>3, <3>4, <3>5, <3>6 DEF Link!LapOrder, Link!CurrentLap
    <3>8. SlotOf(HeadNo)' = SlotOf(h + 1)
      BY <3>2, <1>0, <1>1 DEF SlotOf
    <3> QED BY <2>2, <3>1, <3>4, <3>7, <3>8, <1>1
  <2>3. Calling(k)'
    BY <2>1, <2>2, <1>0, <1>1, <1>5, <1>6, <1>8 DEF Calling
  <2> QED BY <2>3, <1>0, <1>3, <1>8 DEF CallInv, Steps!InCall
<1>9. CASE pc = "slot"
  <2>1. Link!Clear(k) /\ data_pos_wr = StartAt(BlkLen[k]) + BlkLen[k] /\ cur.off = StartAt(BlkLen[k])
    BY <1>1, <1>2, <1>3, <1>9 DEF Calling
  <2>2. list # <<>>
    <3>1. Steps!Types /\ Steps!Stretch /\ Steps!Beginning
      BY <1>9 DEF Up, Steps!TornInv
    <3>2. edge \in BOOLEAN /\ pc \notin {"lap", "dead"} /\ (Len(list) = Steps!Counted => ~dropping)
      BY <3>1, <1>9 DEF Steps!Types, Steps!Beginning
    <3>3. edge
      BY <3>1, <3>2, <1>0 DEF Steps!Beginning
    <3> QED BY <3>1, <3>3, <1>9 DEF Steps!Beginning
  <2>3. HeadNo + 1 < nb_total_block
    <3>1. HeadNo = Linked - 1 /\ Linked \in Nat /\ Over = 0
          /\ ~(Linked = nb_total_block) /\ nb_total_block = Linked + Len(list) /\ Len(list) \in Nat
      BY <2>2, <1>0, <1>9, UpFacts
    <3> QED BY <3>1
  <2>4. ~VFault' /\ VPos' = VPos
    BY <2>3, <1>1 DEF VFault
  <2>5. Link!Clear(k)'
    <3>1. Link!First' = HeadNo + 1 /\ Link!Live' = Held'
      <4>1. VNb = nb_total_block - HeadNo
        BY DEF VNb
      <4>2. Link!First' = HeadNo + 1
        BY <4>1, <1>1 DEF Link!First
      <4> QED BY <4>2, <1>1 DEF Link!Live, Held
    <3>2. Link!Live = Held /\ \A s \in Held' : VBlk'[s] = VBlk[s]
      <4>1. \A s \in Held' : VBlk'[s] = SlotOf(s)'
        BY DEF VBlk
      <4> QED BY <4>1, <1>1, ViewFacts
    <3>3. Link!Rotates(BlkLen[k])' <=> Link!Rotates(BlkLen[k])
      BY <2>4 DEF Link!Rotates
    <3> QED BY <2>1, <2>3, <2>4, <3>1, <3>2, <3>3, <1>1 DEF Link!Clear, Link!CurrentLap
  <2>6. Calling(k)'
    BY <2>1, <2>4, <2>5, <1>0, <1>5, <1>6, <1>9 DEF Calling
  <2> QED BY <2>6, <1>0, <1>3, <1>9 DEF CallInv, Steps!InCall
<1> QED BY <1>1, <1>7, <1>8, <1>9

LEMMA AdvanceStep ==
  ASSUME EndsInv, AdvanceHead, CompressorOnly
  PROVE  EndsInv'
<1>0. Types /\ Ring /\ Up /\ CallInv /\ Relation /\ Link!IInv
      /\ StoreInv /\ ChanApart /\ CrcSays /\ DataKept
  BY DEF EndsInv, Relation
<1>1. UNCHANGED <<uncounted, cut, joined>> /\ DecoderSame /\ chan' = chan
  BY DEF CompressorOnly, DecoderSame
<1>2. pc \notin Steps!Apart
  BY <1>0 DEF AdvanceHead, Types
<1>3. /\ HeadNo < nb_total_block /\ ~VFault /\ HeadNo' = HeadNo + 1
      /\ nb_total_block' = nb_total_block /\ HeadNo \in Nat /\ nb_total_block \in Nat
      /\ VBlk' = [s \in (HeadNo + 1)..(nb_total_block - 1) |-> VBlk[s]]
      /\ VNb' = VNb - 1 /\ VEdge' = TRUE /\ VFault' = (VNb = 1)
      /\ VFault' => VPos' = 0
      /\ ~VFault' => VPos' = VPos
      /\ Extends
  BY <1>0, <1>1, <1>2, AdvanceView
<1>4. Types' /\ Up' /\ Ring' /\ CallInv'
  BY <1>0, <1>1, <1>2, UpKept, AdvanceRing, AdvanceCall DEF InnerStep
<1>5. Link!RemoveOldest
  <2>1. Link!First = HeadNo
    BY <1>0, ViewFacts
  <2>2. VPos' \in 0..CacheSz
    <3>1. VPos \in Nat /\ VPos <= CacheSz /\ CacheSz \in Nat
      BY <1>0, RingFacts, Constants DEF Link!IInv
    <3>2. VFault' \in BOOLEAN
      BY <1>3
    <3> QED BY <3>1, <3>2, <1>3
  <2> QED BY <2>1, <2>2, <1>3 DEF Link!RemoveOldest
<1>6. /\ Link!IInv' /\ \A s \in Link!Live' : s \in Link!Live /\ VBlk'[s] = VBlk[s]
  <2>1. NoOut' \in Link!OutBuff
    BY DEF NoOut, Link!OutBuff
  <2> QED BY <2>1, <1>0, <1>3, <1>5, Assumptions, Link!RemoveStep
<1>7. /\ VMem' = VMem /\ VDpos' = VDpos /\ VTotal' = VTotal /\ VDnb' = VDnb
      /\ VSize' = VSize /\ VGot' = VGot
  BY <1>1, DecoderView
<1>8. UNCHANGED <<mem, dpos, last_block_size, dtotal, dnb, tmp, dpc, coming, joined, chan>>
  BY <1>1 DEF DecoderSame, decVars, dfile, dmem
<1>13. Session' = Session
  BY <1>0, <1>1, <1>2, UpKept, SessionSame DEF InnerStep
<1>9. Session' => Link!LinkInv'
  <2> SUFFICES ASSUME Session PROVE Link!LinkInv'
    BY <1>13
  <2>1. Link!LinkInv
    BY <1>0 DEF Relation
  <2>2. \A s \in Link!Live' : s \in Nat /\ s \in Link!Live /\ VBlk'[s] = VBlk[s]
    <3>1. \A s \in Held : s \in Nat
      BY <1>0, RingFacts
    <3> QED BY <3>1, <1>0, <1>6, ViewFacts
  <2>3. nb_total_block <= nb_total_block'
    BY <1>3
  <2>4. UNCHANGED <<chan, Link!decompVars>>
    BY <1>7, <1>8 DEF Link!decompVars
  <2>5. ~VFault' => ~VFault /\ VPos' = VPos /\ nb_total_block' = nb_total_block
    BY <1>3
  <2> QED BY <1>6, <2>1, <2>2, <2>3, <2>4, <2>5, Assumptions, Link!Unsent
<1>10. StoreInv'
  BY <1>0, <1>8, <1>13 DEF StoreInv
<1>11. CrcSays' /\ DataKept'
  BY <1>0, <1>1, <1>3, <1>13, OthersKept
<1>12. ChanApart'
  <2>1. Session => Link!LinkInv
    BY <1>0 DEF Relation
  <2> QED BY <2>1, <1>0, <1>1, <1>3, SameApart
<1> QED BY <1>4, <1>6, <1>9, <1>10, <1>11, <1>12 DEF EndsInv, Relation

-----------------------------------------------------------------------------
(* A block is counted: the insertion of DreLink.                           *)
LEMMA CountFacts ==
  ASSUME EndsInv, CountTotal, UNCHANGED <<uncounted, cut, joined>>,
         NEW k \in Keys, k = cur.key, NEW t, t = nb_total_block
  PROVE  /\ Types' /\ Up' /\ Calling(k) /\ pc = "total" /\ pc' = "idle"
         /\ HeadNo' = HeadNo /\ HeadNo \in Nat /\ t \in Nat
         /\ HeadNo <= t /\ nb_total_block' = t + 1
         /\ t + 1 - HeadNo <= NbBlkIdx
         /\ slots' = slots
         /\ SlotOf(t) = [key |-> k, off |-> StartAt(BlkLen[k])]
         /\ Held' = HeadNo..t
         /\ \A s \in Held : SlotOf(s).key # k
         /\ VPos' = StartAt(BlkLen[k]) + BlkLen[k] /\ data_pos_wr' = VPos'
         /\ ~VFault /\ ~VFault' /\ (HeadNo < t \/ t = 0)
         /\ Extends
<1>0. /\ Types /\ Ring /\ Up /\ CallInv
      /\ pc = "total" /\ ~dropping /\ pc' = "idle" /\ slots' = slots
      /\ nb_total_block' = nb_total_block + 1 /\ data_pos_wr' = data_pos_wr
  BY DEF EndsInv, CountTotal, At
<1>1. Types' /\ Up' /\ pc' \notin Steps!Apart /\ HeadNo' = HeadNo + Moves
  BY <1>0, UpKept DEF Steps!Apart, Steps!Loading
<1>2. Moves = 0
  BY <1>0 DEF Moves, AdvanceHead
<1>3. /\ HeadNo \in Nat /\ t \in Nat /\ HeadNo <= t /\ nb_total_block' = t + 1
  BY <1>0, RingFacts
<1>4. HeadNo' = HeadNo
  BY <1>1, <1>2, <1>3
<1>5. Calling(k)
  BY <1>0 DEF CallInv, Steps!InCall
<1>6. /\ ~VFault /\ data_pos_wr = StartAt(BlkLen[k]) + BlkLen[k]
      /\ SlotOf(t) = [key |-> k, off |-> StartAt(BlkLen[k])]
      /\ \A s \in Held : SlotOf(s).key # k
  BY <1>0, <1>5 DEF Calling
<1>7. t + 1 - HeadNo <= NbBlkIdx
  <2>1. Over = 1
    BY <1>0 DEF Over, Types
  <2> QED BY <2>1, <1>0 DEF Ring
<1>9. Held' = HeadNo..t
  BY <1>3, <1>4 DEF Held
<1>10. HeadNo < t \/ t = 0
  BY <1>3, <1>6 DEF VFault
<1>11. ~VFault'
  BY <1>3, <1>4 DEF VFault
<1>12. VPos' = StartAt(BlkLen[k]) + BlkLen[k]
  <2>1. HeadNo' # nb_total_block' /\ nb_total_block' - 1 = t
    BY <1>3, <1>4
  <2>2. slots'[t % NbBlkIdx] = [key |-> k, off |-> StartAt(BlkLen[k])]
    BY <1>0, <1>6 DEF SlotOf
  <2> QED BY <2>1, <2>2 DEF VPos, EndOf, SlotOf
<1>13. Extends
  <2>1. ASSUME NEW s \in Held'
        PROVE  s \in Nat /\ (s # t => s \in Held /\ SlotOf(s)' = SlotOf(s))
    <3>1. s \in Nat /\ (s # t => s \in Held)
      <4>1. s \in HeadNo..t
        BY <1>9
      <4> QED BY <4>1, <1>3 DEF Held
    <3>2. SlotOf(s)' = SlotOf(s)
      BY <1>0 DEF SlotOf
    <3> QED BY <3>1, <3>2
  <2>2. ASSUME t > 0
        PROVE  t - 1 \in Held' /\ SlotOf(t - 1)'.key # SlotOf(t)'.key
    <3>1. t - 1 \in Held' /\ t - 1 \in Held
      <4>1. HeadNo <= t - 1 /\ t - 1 \in Nat
        BY <2>2, <1>3, <1>10
      <4>2. t - 1 \in HeadNo..t
        BY <4>1, <1>3
      <4>3. t - 1 \in Held
        BY <4>1, <1>3 DEF Held
      <4> QED BY <4>2, <4>3, <1>9
    <3>2. SlotOf(t - 1)' = SlotOf(t - 1) /\ SlotOf(t)' = SlotOf(t)
      BY <1>0 DEF SlotOf
    <3> QED BY <3>1, <3>2, <1>6
  <2>3. nb_total_block' \in Nat /\ nb_total_block <= nb_total_block'
    BY <1>3
  <2>4. \A s \in Held' : s = t /\ s > 0 => s - 1 \in Held' /\ SlotOf(s - 1)'.key # SlotOf(s)'.key
    BY <2>2
  <2> QED BY <2>1, <2>3, <2>4 DEF Extends
<1> QED BY <1>0, <1>1, <1>3, <1>4, <1>5, <1>6, <1>7, <1>9, <1>10, <1>11, <1>12, <1>13

LEMMA CountRing ==
  ASSUME EndsInv, CountTotal, UNCHANGED <<uncounted, cut, joined>>
  PROVE  Ring' /\ CallInv'
<1>1. cur.key \in Keys
  BY DEF EndsInv, CallInv, Steps!InCall, CountTotal, At
<1> PICK t : t = nb_total_block
  OBVIOUS
<1>2. PICK k \in Keys : k = cur.key
  BY <1>1
<1>3. /\ Types' /\ Up' /\ pc' = "idle"
      /\ HeadNo' = HeadNo /\ HeadNo \in Nat /\ t \in Nat
      /\ HeadNo <= t /\ nb_total_block' = t + 1
      /\ t + 1 - HeadNo <= NbBlkIdx
      /\ slots' = slots
      /\ SlotOf(t) = [key |-> k, off |-> StartAt(BlkLen[k])]
      /\ Held' = HeadNo..t
      /\ data_pos_wr' = VPos' /\ ~VFault'
  BY <1>2, CountFacts
<1>4. (cache_idx_head = HeadNo % NbBlkIdx)'
  <2>1. (Types /\ Up /\ pc \notin Steps!Apart)'
    BY <1>3 DEF Steps!Apart, Steps!Loading
  <2> QED BY <2>1, HeadIs, PTL
<1>5. Over' = 0
  BY <1>3 DEF Over, Types
<1>6. \A s \in Held' : SlotOf(s)'.key \in Keys
  <2>1. \A s \in Held' : s \in Held \/ s = t
    BY <1>2, <1>3 DEF Held
  <2>2. \A s \in Held : SlotOf(s).key \in Keys
    BY DEF EndsInv, Ring
  <2>3. \A s \in Held' : SlotOf(s)' = SlotOf(s)
    BY <1>3 DEF SlotOf
  <2> QED BY <2>1, <2>2, <2>3, <1>2, <1>3
<1>7. HeadNo' \in 0..nb_total_block' /\ nb_total_block' - HeadNo' <= NbBlkIdx
  BY <1>3
<1>8. Ring'
  BY <1>4, <1>5, <1>6, <1>7 DEF Ring, SlotOf
<1>9. CallInv'
  BY <1>3 DEF CallInv, Steps!InCall
<1> QED BY <1>8, <1>9

LEMMA CountView ==
  ASSUME EndsInv, CountTotal, UNCHANGED <<uncounted, cut, joined>>,
         NEW k \in Keys, k = cur.key
  PROVE  Link!InsertCache(k) /\ Link!IInv' /\ BlkLen[k] <= CacheSz
<1>1. PICK t : t = nb_total_block
  OBVIOUS
<1>2. /\ Calling(k) /\ pc = "total"
      /\ HeadNo' = HeadNo /\ HeadNo \in Nat /\ t \in Nat
      /\ HeadNo <= t /\ nb_total_block' = t + 1
      /\ t + 1 - HeadNo <= NbBlkIdx
      /\ slots' = slots
      /\ SlotOf(t) = [key |-> k, off |-> StartAt(BlkLen[k])]
      /\ Held' = HeadNo..t
      /\ \A s \in Held : SlotOf(s).key # k
      /\ VPos' = StartAt(BlkLen[k]) + BlkLen[k]
      /\ ~VFault /\ ~VFault' /\ (HeadNo < t \/ t = 0)
  BY <1>1, CountFacts
<1>3. Types /\ Ring /\ Link!IInv
  BY DEF EndsInv, Relation
<1>4. /\ Link!First = HeadNo /\ Link!Live = Held
      /\ \A s \in Held : VBlk[s] = SlotOf(s)
  BY <1>3, ViewFacts
<1>5. Link!Clear(k) /\ Link!EdgeCache(BlkLen[k], HeadNo)
  <2>1. Link!Clear(k)
    BY <1>2 DEF Calling
  <2>2. Link!EdgeCache(BlkLen[k], Link!First)
    BY <2>1, <1>2, <1>3, Assumptions, Link!ClearKeeps
  <2> QED BY <2>1, <2>2, <1>4
<1>6. /\ Link!Edging(BlkLen[k]) => HeadNo < t
      /\ Link!Rotates(BlkLen[k]) => HeadNo < t /\ \A s \in Held : SlotOf(s).off >= BlkLen[k]
  <2>1. Link!Rotates(BlkLen[k]) => Link!Edging(BlkLen[k])
    BY DEF Link!Edging
  <2>2. Link!Edging(BlkLen[k]) => Link!First < nb_total_block
    BY <1>5 DEF Link!Clear
  <2>3. Link!Rotates(BlkLen[k]) => \A s \in Held : VBlk[s].off >= BlkLen[k]
    BY <1>4, <1>5 DEF Link!Clear
  <2> QED BY <2>1, <2>2, <2>3, <1>1, <1>4
<1>7. Link!AfterNewSlot(BlkLen[k], HeadNo) = HeadNo
  <2>1. t - HeadNo # NbBlkIdx
    BY <1>2, Constants
  <2> QED BY <2>1, <1>1 DEF Link!AfterNewSlot
<1>8. VBlk' = [s \in HeadNo..t |-> IF s = t THEN [key |-> k, off |-> Link!WritePos(BlkLen[k])]
                                            ELSE VBlk[s]]
  <2>1. VBlk' = [s \in HeadNo..t |-> SlotOf(s)]
    <3>1. VBlk' = [s \in Held' |-> slots'[s % NbBlkIdx]]
      BY DEF VBlk, SlotOf
    <3>2. VBlk' = [s \in HeadNo..t |-> slots[s % NbBlkIdx]]
      BY <3>1, <1>2
    <3> QED BY <3>2 DEF SlotOf
  <2>2. \A s \in HeadNo..t : s = t \/ s \in Held
    BY <1>1, <1>2 DEF Held
  <2>3. Link!WritePos(BlkLen[k]) = StartAt(BlkLen[k])
    BY DEF Link!WritePos, Link!Rotates, StartAt, Turns
  <2>4. \A s \in HeadNo..t :
          SlotOf(s) = IF s = t THEN [key |-> k, off |-> Link!WritePos(BlkLen[k])] ELSE VBlk[s]
    BY <2>2, <2>3, <1>2, <1>4
  <2> QED BY <2>1, <2>4
<1>9. VNb' = t + 1 - HeadNo /\ VPos' = Link!WritePos(BlkLen[k]) + BlkLen[k]
  BY <1>2 DEF VNb, Link!WritePos, Link!Rotates, StartAt, Turns
<1>10. VEdge' = (Link!Edging(BlkLen[k]) \/ (t + 1) % NbBlkIdx = 0)
  <2>1. VEdge' <=> HeadNo > 0 \/ t + 1 >= NbBlkIdx
    BY <1>2 DEF VEdge
  <2>2. VEdge <=> HeadNo > 0 \/ t >= NbBlkIdx
    BY <1>1 DEF VEdge
  <2>3. CASE Link!Rotates(BlkLen[k])
    <3>1. HeadNo > 0
      <4> SUFFICES ASSUME HeadNo = 0 PROVE FALSE
        BY <1>2
      <4>1. 0 < t /\ 0 \in Held
        BY <1>1, <1>2, <1>6, <2>3 DEF Held
      <4>2. VBlk[0].off = 0
        <5>1. Link!FromZero
          BY <1>3 DEF Link!IInv
        <5> QED BY <5>1, <4>1, <1>1, <1>4 DEF Link!FromZero
      <4>3. BlkLen[k] \in Nat /\ BlkLen[k] > 0
        BY Constants
      <4> QED BY <4>1, <4>2, <4>3, <1>4, <1>6, <2>3
    <3> QED BY <3>1, <2>1, <2>3 DEF Link!Edging, VEdge
  <2>4. CASE ~Link!Rotates(BlkLen[k])
    <3>1. Link!Edging(BlkLen[k]) <=> VEdge
      BY <2>4 DEF Link!Edging
    <3>2. NbBlkIdx \in Nat /\ NbBlkIdx >= 2
      BY Constants
    <3>3. CASE HeadNo > 0 \/ t >= NbBlkIdx
      BY <2>1, <2>2, <3>1, <3>2, <3>3, <1>2 DEF VEdge
    <3>4. CASE ~(HeadNo > 0 \/ t >= NbBlkIdx)
      <4>1. ~Link!Edging(BlkLen[k]) /\ t + 1 <= NbBlkIdx /\ t + 1 \in Nat
        BY <2>2, <3>1, <3>2, <3>4, <1>2
      <4>2. t + 1 < NbBlkIdx => (t + 1) % NbBlkIdx = t + 1
        <5>1. t + 1 < NbBlkIdx => t + 1 \in 0..(NbBlkIdx - 1)
          BY <3>2, <4>1
        <5> QED BY <5>1, <3>2
      <4>3. t + 1 = NbBlkIdx => (t + 1) % NbBlkIdx = 0
        <5>1. 1 * NbBlkIdx + 0 = NbBlkIdx /\ 0 \in 0..(NbBlkIdx - 1) /\ 1 \in Int
          BY <3>2
        <5>2. (1 * NbBlkIdx + 0) % NbBlkIdx = 0
          BY <5>1, Assumptions, Steps!ModLemma
        <5> QED BY <5>1, <5>2
      <4>4. (t + 1) % NbBlkIdx = 0 <=> t + 1 >= NbBlkIdx
        <5>1. CASE t + 1 < NbBlkIdx
          <6>1. ~(t + 1 >= NbBlkIdx) /\ t + 1 # 0
            BY <5>1, <4>1, <3>2, <1>2
          <6> QED BY <6>1, <5>1, <4>2
        <5>2. CASE t + 1 = NbBlkIdx
          BY <5>2, <4>3, <3>2
        <5> QED BY <5>1, <5>2, <4>1, <3>2
      <4> QED BY <4>1, <4>4, <2>1, <3>4 DEF VEdge
    <3> QED BY <3>3, <3>4
  <2> QED BY <2>3, <2>4
<1>11. VFault' = VFault
  <2>1. VFault \in BOOLEAN /\ VFault' \in BOOLEAN
    BY DEF VFault
  <2> QED BY <2>1, <1>2
<1>12. Link!Matches(k) = {}
  BY <1>2, <1>4 DEF Link!Matches
<1>13. Link!InsertCache(k)
  <2>1. HeadNo \in HeadNo..nb_total_block
    BY <1>1, <1>2
  <2>2. ~(Link!Edging(BlkLen[k]) /\ HeadNo = nb_total_block)
    BY <1>1, <1>2, <1>6
  <2> QED BY <2>1, <2>2, <1>1, <1>2, <1>4, <1>5, <1>7, <1>8, <1>9, <1>10, <1>11, <1>12
          DEF Link!InsertCache
<1>14. Link!IInv'
  <2>1. NoOut' \in Link!OutBuff
    BY DEF NoOut, Link!OutBuff
  <2> QED BY <2>1, <1>2, <1>3, <1>13, Assumptions, Link!InsertCacheStep
<1>15. BlkLen[k] <= CacheSz
  <2>1. VPos' <= CacheSz
    BY <1>14 DEF Link!IInv
  <2>2. StartAt(BlkLen[k]) \in Nat /\ BlkLen[k] \in Nat /\ CacheSz \in Nat
    BY <1>3, RingFacts, Constants DEF StartAt
  <2> QED BY <2>1, <2>2, <1>2
<1> QED BY <1>13, <1>14, <1>15

(* A message is added to those in transit: the block just counted, or one  *)
(* the decompressor does not store.                                        *)
LEMMA AppendedApart ==
  ASSUME Types, Ring, StoreInv, ChanApart, Session, Link!LinkInv, Extends, DecoderSame,
         Link!LinkInv', NEW m, chan' = Append(chan, m),
         NEW k \in Keys, m.key = k, NEW n \in Nat, n = nb_total_block',
         Link!IsNew(m) =>
           ~VFault' /\ BlkLen[k] <= CacheSz /\ Before(n, k)'
  PROVE  ChanApart'
<1>1. VTotal' = VTotal /\ dpc' = dpc /\ coming' = coming
  BY DecoderView DEF DecoderSame, decVars
<1>2. dpc' \in Storing => Before(VTotal, coming)'
  BY <1>1, ApartKept
<1>3. PICK l \in Nat : l = Len(chan) /\ chan \in Seq(Link!Message)
  BY UnderWay
<1>4. Len(chan') = l + 1 /\ chan'[l + 1] = m /\ \A i \in 1..l : chan'[i] = chan[i]
  BY <1>3
<1>5. ASSUME NEW i \in 1..l, Link!IsNew(chan[i])
      PROVE  \E x \in Nat, y \in Keys :
               /\ x = VTotal' + Cardinality(Link!NewIn(chan', i)) /\ y = chan'[i].key
               /\ Before(x, y)' /\ BlkLen[y] <= CacheSz
  <2>1. PICK x \in Nat : x = VTotal + Cardinality(Link!NewIn(chan, i))
    BY <1>3, <1>5, UnderWay
  <2>2. PICK y \in Keys : y = chan[i].key
    BY <1>3, <1>5, UnderWay DEF Link!Message
  <2>3. Before(x, y)' /\ BlkLen[y] <= CacheSz
    BY <2>1, <2>2, <1>3, <1>5, ApartKept
  <2>4. Link!NewIn(chan', i) = Link!NewIn(chan, i)
    <3>1. i \in Nat /\ \A j \in 1..i : chan'[j] = chan[j]
      BY <1>4
    <3>2. PICK c, e : c = chan /\ e = chan'
      OBVIOUS
    <3>3. Link!NewIn(e, i) = Link!NewIn(c, i)
      BY <3>1, <3>2 DEF Link!NewIn, Link!IsNew
    <3> QED BY <3>2, <3>3
  <2> QED BY <2>1, <2>2, <2>3, <2>4, <1>1, <1>4
<1>6. ASSUME Link!IsNew(m)
      PROVE  \E x \in Nat, y \in Keys :
               /\ x = VTotal' + Cardinality(Link!NewIn(chan', l + 1)) /\ y = chan'[l + 1].key
               /\ Before(x, y)' /\ BlkLen[y] <= CacheSz
  <2>1. Link!InStep'
    BY Assumptions, Link!InStepLemma, PTL
  <2>2. n = VTotal' + Cardinality(Link!NewIn(chan', l + 1))
    BY <2>1, <1>4, <1>6, SameCount DEF Link!InStep
  <2> QED BY <2>2, <1>4, <1>6
<1>7. \A i \in 1..Len(chan') : Link!IsNew(chan'[i]) =>
        \E x \in Nat, y \in Keys :
          /\ x = VTotal' + Cardinality(Link!NewIn(chan', i)) /\ y = chan'[i].key
          /\ Before(x, y)' /\ BlkLen[y] <= CacheSz
  <2>1. \A i \in 1..Len(chan') : i \in 1..l \/ i = l + 1
    BY <1>3, <1>4
  <2> QED BY <2>1, <1>4, <1>5, <1>6
<1>8. \A i \in 1..Len(chan') : Link!IsNew(chan'[i]) =>
        /\ Before(VTotal + Cardinality(Link!NewIn(chan, i)), chan[i].key)'
        /\ BlkLen[chan'[i].key] <= CacheSz
  <2> SUFFICES ASSUME NEW i \in 1..Len(chan'), Link!IsNew(chan'[i])
               PROVE  /\ Before(VTotal + Cardinality(Link!NewIn(chan, i)), chan[i].key)'
                      /\ BlkLen[chan'[i].key] <= CacheSz
    OBVIOUS
  <2>1. PICK x \in Nat, y \in Keys :
          /\ x = VTotal' + Cardinality(Link!NewIn(chan', i)) /\ y = chan'[i].key
          /\ Before(x, y)' /\ BlkLen[y] <= CacheSz
    BY <1>7
  <2> QED BY <2>1 DEF Before, SlotOf
<1> QED BY <1>2, <1>8 DEF ChanApart

LEMMA EndInsertionStep ==
  ASSUME SameEnds, EndsInv, EndInsertion
  PROVE  EndsInv'
<1>0. /\ Types /\ Ring /\ Relation /\ Link!IInv /\ StoreInv /\ ChanApart /\ CrcSays /\ DataKept
      /\ CountTotal /\ WriteOut(Inserted) /\ UNCHANGED <<uncounted, cut, joined>> /\ DecoderSame
      /\ pc = "total"
  BY DEF EndsInv, Relation, EndInsertion, DecoderSame, CountTotal, At, history
<1>1. cur.key \in Keys
  BY <1>0 DEF EndsInv, CallInv, Steps!InCall
<1> PICK t : t = nb_total_block
  OBVIOUS
<1>2. PICK k \in Keys : k = cur.key
  BY <1>1
<1>3. /\ Types' /\ Up' /\ Calling(k) /\ Extends /\ ~VFault /\ ~VFault'
      /\ t \in Nat /\ nb_total_block' = t + 1 /\ Held' = HeadNo..t /\ HeadNo \in Nat /\ HeadNo <= t
      /\ slots' = slots /\ SlotOf(t) = [key |-> k, off |-> StartAt(BlkLen[k])]
  BY <1>0, <1>2, CountFacts
<1>4. Ring' /\ CallInv'
  BY <1>0, CountRing
<1>5. Link!InsertCache(k) /\ Link!IInv' /\ BlkLen[k] <= CacheSz
  BY <1>0, <1>2, CountView
<1>6. /\ VMem' = VMem /\ VDpos' = VDpos /\ VTotal' = VTotal /\ VDnb' = VDnb
      /\ VSize' = VSize /\ VGot' = VGot
  BY <1>0, DecoderView
<1>7. UNCHANGED <<mem, dpos, last_block_size, dtotal, dnb, tmp, dpc, coming, joined>>
  BY <1>0 DEF DecoderSame, decVars, dfile, dmem
<1>14. Session' = Session /\ (Session <=> joined)
  <2>1. pc \notin Steps!Apart /\ pc' \notin Steps!Apart
    BY <1>0 DEF CountTotal, Steps!Apart, Steps!Loading
  <2>2. Session <=> joined
    BY <2>1 DEF Session, Settling, Steps!Apart, Steps!Loading
  <2> QED BY <2>1, <2>2, <1>0, SessionSame
<1>8. BlkLen[k] >= MinBlk /\ BlkLen[k] >= DMinBlk
  <2>1. IsCached(k)
    BY <1>3 DEF Calling
  <2>2. StreamMin \in Nat /\ MinBlk \in Nat /\ BlkLen[k] \in Nat
    BY Constants, CrashLinkAssumption
  <2> QED BY <2>1, <2>2 DEF IsCached, SameEnds
<1>9. Inserted = [compressed |-> FALSE, dict_offset |-> Link!WritePos(BlkLen[k]), key |-> k]
  <2>1. cur.off = StartAt(BlkLen[k])
    BY <1>0, <1>3 DEF Calling
  <2> QED BY <2>1, <1>2 DEF Inserted, Link!WritePos, Link!Rotates, StartAt, Turns
<1>10. CrcSays' /\ DataKept'
  BY <1>0, <1>3, <1>14, OthersKept
<1>11. StoreInv'
  <2>1. ~Session => chan' = chan
    BY <1>0, <1>14 DEF WriteOut
  <2> QED BY <2>1, <1>0, <1>7, <1>14 DEF StoreInv
<1>12. CASE ~Session
  <2>1. chan' = chan
    BY <1>0, <1>12, <1>14 DEF WriteOut
  <2>2. ChanApart'
    BY <2>1, <1>0, <1>3, <1>12, SameApart
  <2> QED BY <2>2, <1>3, <1>4, <1>5, <1>7, <1>10, <1>11, <1>12, <1>14
         DEF EndsInv, Relation
<1>13. CASE Session
  <2>1. PICK m : m = Inserted
    OBVIOUS
  <2>2. chan' = Append(chan, m) /\ m.key = k
        /\ m = [compressed |-> FALSE, dict_offset |-> Link!WritePos(BlkLen[k]), key |-> k]
    BY <2>1, <1>0, <1>9, <1>13, <1>14 DEF WriteOut
  <2>3. Link!LinkInv
    BY <1>0, <1>13 DEF Relation
  <2>4. Link!SameEnds
    BY DEF SameEnds, Link!SameEnds
  <2>5. UNCHANGED Link!decompVars
    BY <1>6 DEF Link!decompVars
  <2>6. Link!LinkInv'
    BY <2>2, <2>3, <2>4, <2>5, <1>3, <1>5, <1>8, Assumptions, Link!NewSent
  <2>7. ChanApart'
    <3>1. PICK n \in Nat : n = nb_total_block'
      BY <1>3
    <3>2. Before(n, k)'
      <4>1. n = t + 1 /\ n - 1 = t /\ SlotOf(t)' = SlotOf(t)
        BY <3>1, <1>3 DEF SlotOf
      <4>2. SlotOf(n - 1)'.key = k
        BY <4>1, <1>3
      <4>3. n \notin Held'
        BY <4>1, <1>3
      <4> QED BY <4>2, <4>3 DEF Before
    <3>3. m.key = k
      BY <2>2
    <3> QED BY <2>2, <2>3, <2>6, <3>1, <3>2, <3>3, <1>0, <1>3, <1>5, <1>13, AppendedApart
  <2> QED BY <2>6, <2>7, <1>3, <1>4, <1>5, <1>7, <1>10, <1>11, <1>13 DEF EndsInv, Relation
<1> QED BY <1>12, <1>13

-----------------------------------------------------------------------------
(* The file is all a view of the compressor depends on.                    *)
LEMMA FileKept ==
  ASSUME Types, Ring, UNCHANGED file, Over' = Over
  PROVE  Unmoved /\ HeadNo' = HeadNo /\ slots' = slots /\ Ring'
<1>1. /\ slots' = slots /\ cache_idx_head' = cache_idx_head /\ nb_block' = nb_block
      /\ nb_total_block' = nb_total_block
  BY DEF file
<1>2. Linked' = Linked
  BY <1>1 DEF Linked
<1>3. HeadNo' = HeadNo
  BY <1>1, <1>2 DEF HeadNo
<1>4. Unmoved
  BY <1>1, <1>3 DEF Unmoved, SlotOf
<1>5. Held' = Held /\ VFault' = VFault
  BY <1>4, CallSame
<1>6. Ring'
  BY <1>1, <1>2, <1>3, <1>5 DEF Ring, SlotOf
<1> QED BY <1>1, <1>3, <1>4, <1>6

(* The compressor does nothing.                                            *)
LEMMA CompressorSame ==
  ASSUME Types, Ring, Up, CallInv, UNCHANGED compVars,
         uncounted' \subseteq {"comp", "decomp"},
         "comp" \in uncounted' <=> "comp" \in uncounted,
         cut' = cut, joined' \in BOOLEAN, "decomp" \in uncounted' => ~joined'
  PROVE  /\ Types' /\ Ring' /\ Up' /\ CallInv' /\ Unmoved /\ slots' = slots
         /\ Held' = Held /\ VBlk' = VBlk /\ VNb' = VNb /\ VPos' = VPos
         /\ VEdge' = VEdge /\ VFault' = VFault /\ nb_total_block' = nb_total_block
         /\ Extends
<1>1. UNCHANGED <<file, list, edge, call, slots, cache_idx_head, cache_idx_tail, nb_block,
                  nb_total_block, data_pos_wr, pc, dropping, cur>>
  BY DEF compVars, file, call
<1>2. Over' = Over
  BY <1>1 DEF Over
<1>3. Unmoved /\ Ring' /\ HeadNo' = HeadNo /\ slots' = slots
  BY <1>1, <1>2, FileKept
<1>4. Types'
  BY <1>1 DEF Types
<1>5. Up'
  <2>1. Steps!TornInv /\ pc \notin Steps!Apart => Steps!TornInv'
    BY <1>1 DEF Steps!TornInv, Steps!Types, Steps!Stretch, Steps!Beginning, Steps!Round,
                Steps!Counted, Steps!Behind, Steps!Ahead, Steps!Slots,
                Steps!Loaded, Steps!Apart, Steps!Loading, Steps!InCall
  <2>2. Steps!RefUp => Steps!RefUp'
    BY <1>1 DEF Steps!RefUp, Steps!Oldest, Steps!Counted, Steps!Behind
  <2> QED BY <2>1, <2>2, <1>1 DEF Up
<1>6. /\ Held' = Held /\ VBlk' = VBlk /\ VNb' = VNb /\ VPos' = VPos
      /\ VEdge' = VEdge /\ VFault' = VFault /\ Extends
  BY <1>3, SameView DEF Unmoved
<1>7. \A len \in Nat : Turns(len)' = Turns(len) /\ StartAt(len)' = StartAt(len)
  BY <1>3, CallSame
<1>8. \A k \in Keys : Link!Clear(k)' <=> Link!Clear(k)
  BY <1>3, CallSame
<1>9. ASSUME NEW k \in Keys, Calling(k)
      PROVE  Calling(k)'
  <2>1. BlkLen[k] \in Nat
    BY Constants
  <2>2. Turns(BlkLen[k])' = Turns(BlkLen[k]) /\ StartAt(BlkLen[k])' = StartAt(BlkLen[k])
    BY <2>1, <1>7
  <2>3. SlotOf(HeadNo)' = SlotOf(HeadNo) /\ SlotOf(nb_total_block)' = SlotOf(nb_total_block)
        /\ \A s : SlotOf(s)' = SlotOf(s)
    BY <1>1, <1>3 DEF SlotOf
  <2> QED BY <1>1, <1>3, <1>6, <1>8, <1>9, <2>2, <2>3 DEF Calling
<1>10. CallInv'
  BY <1>1, <1>6, <1>9 DEF CallInv
<1> QED BY <1>1, <1>3, <1>4, <1>5, <1>6, <1>10

(* A reference, or a tail too small to be cached.                          *)
LEMMA Listed ==
  ASSUME Types, Ring, Up, pc = "idle", NEW k \in Keys, NEW m \in References(k)
  PROVE  \E s \in Link!Matches(k) :
           m = [compressed |-> TRUE, dict_offset |-> VBlk[s].off, key |-> k]
<1>1. PICK i \in Matches(k) :
        m = [compressed |-> TRUE, dict_offset |-> slots[list[i]].off, key |-> k]
  BY DEF References
<1>2. i \in DOMAIN list /\ slots[list[i]].key = k
  BY DEF Matches
<1>3. Steps!TornInv /\ list \in Seq(Steps!Slots) /\ ~dropping
  BY DEF Up, Steps!TornInv, Steps!Types, Steps!Apart, Steps!Loading
<1>4. i \in 1..Len(list)
  BY <1>2, <1>3
<1>5. /\ Linked \in Nat /\ Len(list) \in Nat /\ HeadNo = Linked /\ nb_total_block = Linked + Len(list)
      /\ \A s \in Linked..(nb_total_block + Over - 1) : list[s - Linked + 1] = s % NbBlkIdx
      /\ Over = 0
  BY <1>3, UpFacts DEF Steps!Apart, Steps!Loading
<1>6. PICK s : s = Linked + i - 1
  OBVIOUS
<1>7. s \in Nat /\ s \in HeadNo..(nb_total_block - 1) /\ s - Linked + 1 = i
      /\ s \in Linked..(nb_total_block + Over - 1)
  BY <1>4, <1>5, <1>6
<1>8. list[i] = s % NbBlkIdx
  BY <1>5, <1>7
<1>9. s \in Held /\ VBlk[s] = slots[list[i]]
  BY <1>7, <1>8, ViewFacts DEF Held, SlotOf
<1>10. s \in Link!Matches(k)
  BY <1>2, <1>9, ViewFacts DEF Link!Matches
<1> QED BY <1>1, <1>9, <1>10

LEMMA SendStep ==
  ASSUME SameEnds, EndsInv, NEW k \in Keys, Send(k)
  PROVE  EndsInv'
<1>0. /\ Types /\ Ring /\ Up /\ CallInv /\ Relation /\ Link!IInv /\ StoreInv /\ ChanApart
      /\ CrcSays /\ DataKept /\ pc = "idle"
      /\ UNCHANGED <<compVars, decVars, coming, got, joined, uncounted, cut>>
  BY DEF EndsInv, Relation, Send, history
<1>1. DecoderSame
  BY <1>0 DEF DecoderSame
<1>2. /\ Types' /\ Ring' /\ Up' /\ CallInv' /\ Unmoved /\ Held' = Held /\ VBlk' = VBlk
      /\ VNb' = VNb /\ VPos' = VPos /\ VEdge' = VEdge /\ VFault' = VFault
      /\ nb_total_block' = nb_total_block /\ Extends
  <2>1. /\ uncounted' \subseteq {"comp", "decomp"} /\ joined' \in BOOLEAN
        /\ ("comp" \in uncounted' <=> "comp" \in uncounted)
        /\ ("decomp" \in uncounted' => ~joined')
    BY <1>0 DEF Types
  <2> QED BY <2>1, <1>0, CompressorSame
<1>5. Session' = Session /\ (Session <=> joined)
  BY <1>0 DEF Session, Settling, compVars, call
<1>3. CASE ~joined
  <2>1. chan' = chan
    BY <1>3 DEF Send, WriteOut
  <2>2. Relation'
    BY <2>1, <1>0, <1>1, <1>2, <1>5, Quiet DEF Unmoved
  <2> QED BY <2>2, <1>2 DEF EndsInv
<1>4. CASE joined
  <2>1. PICK m \in AtOnce(k) : WriteOut(m)
    BY DEF Send
  <2>2. chan' = Append(chan, m)
    BY <2>1, <1>4 DEF WriteOut
  <2>3. \/ m \in References(k)
        \/ BlkLen[k] < MinBlk /\ m = [compressed |-> FALSE, dict_offset |-> 0, key |-> k]
    BY <2>1 DEF AtOnce, IsSmall
  <2>4. Link!LinkInv
    BY <1>0, <1>4, <1>5 DEF Relation
  <2>5. Link!SameEnds
    BY DEF SameEnds, Link!SameEnds
  <2>6. UNCHANGED Link!decompVars
    BY <1>1, DecoderView DEF Link!decompVars
  <2>7. Link!IInv'
    <3>1. NoOut' \in Link!OutBuff
      BY DEF NoOut, Link!OutBuff
    <3> QED BY <3>1, <1>0, <1>2, Assumptions, Link!OutStep
  <2>8. ~VFault
    BY <1>0 DEF CallInv
  <2>9. Link!LinkInv' /\ m.key = k /\ ~Link!IsNew(m)
    <3>1. CASE m \in References(k)
      <4>1. PICK s \in Link!Matches(k) :
              m = [compressed |-> TRUE, dict_offset |-> VBlk[s].off, key |-> k]
        BY <3>1, <1>0, Listed
      <4>2. Link!LinkInv'
        BY <4>1, <1>2, <2>2, <2>4, <2>6, <2>7, <2>8, Assumptions, Link!ReferenceSent
      <4> QED BY <4>1, <4>2 DEF Link!IsNew
    <3>2. CASE BlkLen[k] < MinBlk /\ m = [compressed |-> FALSE, dict_offset |-> 0, key |-> k]
      <4>1. Link!LinkInv'
        BY <3>2, <1>2, <2>2, <2>4, <2>5, <2>6, <2>7, Assumptions, Link!SmallSent
      <4>2. ~(BlkLen[k] >= DMinBlk)
        BY <3>2, Constants DEF SameEnds
      <4> QED BY <3>2, <4>1, <4>2 DEF Link!IsNew
    <3> QED BY <2>3, <3>1, <3>2
  <2>10. ChanApart'
    <3>1. PICK n \in Nat : n = nb_total_block'
      BY <1>2 DEF Extends
    <3> QED BY <3>1, <1>0, <1>1, <1>2, <1>4, <1>5, <2>2, <2>4, <2>9, AppendedApart
  <2>11. CrcSays' /\ DataKept'
    BY <1>0, <1>1, <1>2, <1>5, OthersKept
  <2>12. StoreInv'
    <3>1. UNCHANGED <<mem, dpos, last_block_size, dtotal, dnb, tmp, dpc, coming, joined>>
      BY <1>1 DEF DecoderSame, decVars, dfile, dmem
    <3> QED BY <3>1, <1>0, <1>4, <1>5 DEF StoreInv
  <2> QED BY <1>2, <2>7, <2>9, <2>10, <2>11, <2>12 DEF EndsInv, Relation
<1> QED BY <1>0, <1>3, <1>4 DEF Types

-----------------------------------------------------------------------------
(* The decompressor reads a message.                                       *)
LEMMA BytesFacts ==
  ASSUME NEW k \in Keys
  PROVE  /\ Bytes(k) = Link!Bytes(k) /\ Bytes(k) \in Seq(Link!Cell) /\ Len(Bytes(k)) = BlkLen[k]
         /\ BlkLen[k] \in Nat /\ BlkLen[k] > 0
         /\ \A i \in 1..BlkLen[k] : Bytes(k)[i] = <<k, i>>
         /\ \A l \in Keys : Bytes(l) = Bytes(k) => l = k
<1>1. BlkLen[k] \in Nat /\ BlkLen[k] > 0 /\ LenOf(k) = BlkLen[k]
  BY Constants
<1>2. \A l \in Keys : Bytes(l) = Link!Bytes(l)
  BY Constants DEF Bytes, Link!Bytes
<1>3. \A i \in 1..BlkLen[k] : <<k, i>> \in Link!Cell
  BY <1>1 DEF Link!Cell
<1>4. Bytes(k) \in Seq(Link!Cell) /\ Len(Bytes(k)) = BlkLen[k]
      /\ \A i \in 1..BlkLen[k] : Bytes(k)[i] = <<k, i>>
  BY <1>1, <1>3 DEF Bytes
<1>5. \A l \in Keys : Bytes(l) = Bytes(k) => l = k
  BY <1>2, Assumptions, Link!BytesLemma
<1> QED BY <1>1, <1>2, <1>4, <1>5

LEMMA ReceiveFacts ==
  ASSUME StoreInv, Receive, Link!LinkInv, NEW m, m = Head(chan), NEW k, k = m.key
  PROVE  /\ chan # <<>> /\ m = chan[1] /\ m \in Link!Message /\ k \in Keys
         /\ chan' = Tail(chan) /\ Session /\ dpc = "idle" /\ tmp = <<>> /\ coming = NoKey
         /\ UNCHANGED <<mem, dpos, last_block_size, dtotal, dnb, joined, Session, uncounted, cut, compVars>>
         /\ Link!IsNew(m) => dpc' = "rotate" /\ tmp' = Bytes(k) /\ coming' = k /\ got' = got
         /\ ~Link!IsNew(m) =>
              /\ dpc' = "idle" /\ tmp' = <<>> /\ coming' = NoKey
              /\ got' = IF m.compressed THEN ReadMem(m.dict_offset, LenOf(k)) ELSE Bytes(k)
<1>1. /\ chan # <<>> /\ chan' = Tail(chan) /\ Session /\ dpc = "idle"
      /\ UNCHANGED <<joined, Session, uncounted, cut, compVars>>
  BY DEF Receive, StoreInv, Session, compVars, call, history
<1>2. tmp = <<>> /\ coming = NoKey
  BY <1>1 DEF StoreInv, Storing
<1>3. chan \in Seq(Link!Message)
  BY DEF Link!LinkInv
<1>4. m = chan[1] /\ m \in Link!Message /\ k \in Keys /\ m.compressed \in BOOLEAN
  <2>1. m = chan[1] /\ 1 \in 1..Len(chan)
    BY <1>1, <1>3
  <2>2. m \in Link!Message
    BY <2>1, <1>3
  <2> QED BY <2>1, <2>2 DEF Link!Message
<1>5. CASE m.compressed
  BY <1>1, <1>2, <1>4, <1>5 DEF Receive, decVars, dfile, dmem, Link!IsNew
<1>6. CASE ~m.compressed
  <2>1. /\ AppendFragment(Bytes(k), TRUE)
        /\ IF dpc' = "idle" THEN got' = Bytes(k) /\ UNCHANGED coming
                            ELSE coming' = k /\ UNCHANGED got
    BY <1>6 DEF Receive
  <2>2. Len(tmp) = 0 /\ Len(Bytes(k)) = BlkLen[k] /\ BlkLen[k] \in Nat
    BY <1>2, <1>4, BytesFacts
  <2>3. Kept \o Bytes(k) = Bytes(k) /\ tmp \o Bytes(k) = Bytes(k)
    <3>1. Kept = <<>>
      BY <1>2, <2>2 DEF Kept
    <3> QED BY <3>1, <1>2, <1>4, BytesFacts
  <2>4. UNCHANGED <<mem, dpos, last_block_size, dtotal, dnb>>
    BY <2>1 DEF AppendFragment, dfile
  <2>5. Len(tmp) + Len(Bytes(k)) = BlkLen[k]
    BY <2>2
  <2>6. /\ tmp' = IF ~LongEnough(BlkLen[k]) THEN <<>> ELSE Bytes(k)
        /\ dpc' = IF LongEnough(BlkLen[k]) THEN "rotate" ELSE "idle"
    BY <2>1, <2>2, <2>3, <2>5 DEF AppendFragment
  <2>7. LongEnough(BlkLen[k]) <=> Link!IsNew(m)
    BY <1>6 DEF LongEnough, Link!IsNew
  <2> QED BY <1>1, <1>2, <1>4, <1>6, <2>1, <2>4, <2>6, <2>7
<1> QED BY <1>4, <1>5, <1>6

LEMMA ReceiveView ==
  ASSUME Types, Ring, Up, CallInv, StoreInv, Receive, Link!LinkInv
  PROVE  /\ Link!Receive
         /\ Types' /\ Ring' /\ Up' /\ CallInv' /\ Unmoved /\ Held' = Held
         /\ nb_total_block' = nb_total_block /\ slots' = slots
         /\ UNCHANGED <<VBlk, VNb, VPos, VEdge, VFault>>
         /\ VTotal' = VTotal + (IF Link!IsNew(chan[1]) THEN 1 ELSE 0) /\ VTotal \in Nat
<1>1. PICK m, k : m = Head(chan) /\ k = m.key
  OBVIOUS
<1>2. /\ chan # <<>> /\ m = chan[1] /\ m \in Link!Message /\ k \in Keys
      /\ chan' = Tail(chan) /\ Session /\ dpc = "idle" /\ tmp = <<>> /\ coming = NoKey
      /\ UNCHANGED <<mem, dpos, last_block_size, dtotal, dnb, joined, Session, uncounted, cut, compVars>>
      /\ Link!IsNew(m) => dpc' = "rotate" /\ tmp' = Bytes(k) /\ coming' = k /\ got' = got
      /\ ~Link!IsNew(m) =>
           /\ dpc' = "idle" /\ tmp' = <<>> /\ coming' = NoKey
           /\ got' = IF m.compressed THEN ReadMem(m.dict_offset, LenOf(k)) ELSE Bytes(k)
  BY <1>1, ReceiveFacts
<1>3. /\ Types' /\ Ring' /\ Up' /\ CallInv' /\ Unmoved /\ slots' = slots
      /\ Held' = Held /\ VBlk' = VBlk /\ VNb' = VNb /\ VPos' = VPos
      /\ VEdge' = VEdge /\ VFault' = VFault /\ nb_total_block' = nb_total_block
  <2>1. /\ uncounted' \subseteq {"comp", "decomp"} /\ joined' \in BOOLEAN
        /\ ("comp" \in uncounted' <=> "comp" \in uncounted)
        /\ ("decomp" \in uncounted' => ~joined')
    BY <1>2 DEF Types
  <2> QED BY <2>1, <1>2, CompressorSame
<1>4. UNCHANGED Link!vars
  BY <1>3 DEF Link!vars, NoOut
<1>5. /\ Bytes(k) = Link!Bytes(k) /\ Len(Bytes(k)) = BlkLen[k] /\ BlkLen[k] \in Nat /\ BlkLen[k] > 0
      /\ \A i \in 1..BlkLen[k] : Bytes(k)[i] = <<k, i>>
      /\ LenOf(k) = BlkLen[k] /\ NoKey # k
  BY <1>2, BytesFacts, Constants
<1>6. /\ VMem = mem /\ VDpos = dpos /\ VSize = last_block_size /\ VTotal = dtotal /\ VDnb = dnb
      /\ VGot = got
  BY <1>2 DEF VMem, VDpos, VSize, VTotal, VDnb, VGot, Laying, Storing
<1>7. mem \in [Link!Area -> Link!Cell] /\ dpos \in Nat /\ dtotal \in Nat
  BY DEF StoreInv
<1>8. CASE ~Link!IsNew(m)
  <2>1. /\ VMem' = mem /\ VDpos' = dpos /\ VSize' = last_block_size /\ VTotal' = dtotal
        /\ VDnb' = dnb /\ VGot' = got'
    BY <1>2, <1>8 DEF VMem, VDpos, VSize, VTotal, VDnb, VGot, Laying, Storing
  <2>2. CASE m.compressed
    <3>1. got' = Link!ReadMem(m.dict_offset, BlkLen[k])
      BY <1>2, <1>5, <1>6, <1>8, <2>2 DEF ReadMem, Link!ReadMem
    <3> QED BY <1>1, <1>2, <1>3, <1>4, <1>6, <1>7, <1>8, <2>1, <2>2, <3>1 DEF Link!Receive
  <2>3. CASE ~m.compressed
    <3>1. ~(BlkLen[k] >= DMinBlk)
      BY <1>1, <1>8, <2>3 DEF Link!IsNew
    <3>2. Link!StoreBlock(k)
      BY <1>6, <2>1, <3>1 DEF Link!StoreBlock
    <3>3. got' = Link!Bytes(k)
      BY <1>2, <1>5, <1>8, <2>3
    <3> QED BY <1>1, <1>2, <1>3, <1>4, <1>6, <1>7, <1>8, <2>1, <2>3, <3>2, <3>3 DEF Link!Receive
  <2> QED BY <2>2, <2>3
<1>9. CASE Link!IsNew(m)
  <2>1. ~m.compressed /\ BlkLen[k] >= DMinBlk
    BY <1>1, <1>9 DEF Link!IsNew
  <2>2. PICK pos : pos = IF dpos + BlkLen[k] > DCacheSz THEN 0 ELSE dpos
    OBVIOUS
  <2>3. Place' = pos /\ pos \in Nat
    BY <1>2, <1>5, <1>7, <1>9, <2>2 DEF Place
  <2>4. /\ VDpos' = pos + BlkLen[k] /\ VSize' = BlkLen[k] /\ VTotal' = dtotal + 1
        /\ VDnb' = dnb + 1 /\ VGot' = Bytes(k)
    <3>1. dpc' = "rotate" /\ coming' = k /\ Len(tmp') = BlkLen[k] /\ UNCHANGED <<dtotal, dnb>>
      BY <1>2, <1>5, <1>9
    <3>2. VGot' = Bytes(k)
      BY <3>1, <1>5 DEF VGot
    <3> QED BY <3>1, <3>2, <2>3 DEF VDpos, VSize, VTotal, VDnb, Laying, Storing
  <2>5. VMem' = [p \in DOMAIN mem |-> IF p \in pos..(pos + BlkLen[k] - 1)
                                        THEN <<k, p - pos + 1>> ELSE mem[p]]
    <3>1. VMem' = [p \in DOMAIN mem |-> IF p \in pos..(pos + BlkLen[k] - 1)
                                          THEN Bytes(k)[p - pos + 1] ELSE mem[p]]
      BY <1>2, <1>5, <1>9, <2>3 DEF VMem, Laying
    <3>2. \A p \in DOMAIN mem : p \in pos..(pos + BlkLen[k] - 1) =>
            Bytes(k)[p - pos + 1] = <<k, p - pos + 1>>
      <4> SUFFICES ASSUME NEW p \in DOMAIN mem, p \in pos..(pos + BlkLen[k] - 1)
                   PROVE  Bytes(k)[p - pos + 1] = <<k, p - pos + 1>>
        OBVIOUS
      <4>1. p - pos + 1 \in 1..BlkLen[k]
        BY <2>3, <1>5
      <4> QED BY <4>1, <1>5
    <3> QED BY <3>1, <3>2
  <2>6. Link!StoreBlock(k)
    BY <1>6, <2>1, <2>2, <2>4, <2>5 DEF Link!StoreBlock
  <2> QED BY <1>1, <1>2, <1>3, <1>4, <1>5, <1>6, <1>7, <1>9, <2>1, <2>4, <2>6 DEF Link!Receive
<1> QED BY <1>8, <1>9

(* The rest of what is under way is what it was.                           *)
LEMMA ShiftedApart ==
  ASSUME ChanApart, Link!LinkInv, chan # <<>>, chan' = Tail(chan),
         Held' = Held, slots' = slots,
         VTotal' = VTotal + (IF Link!IsNew(chan[1]) THEN 1 ELSE 0), VTotal \in Nat,
         IF Link!IsNew(chan[1]) THEN coming' = chan[1].key ELSE dpc' \notin Storing
  PROVE  ChanApart'
<1>1. \A s : SlotOf(s)' = SlotOf(s)
  BY DEF SlotOf
<1>2. PICK n : n = Len(chan)
  OBVIOUS
<1>3. /\ chan \in Seq(Link!Message) /\ n \in Nat /\ n > 0 /\ n - 1 \in Nat
      /\ chan' \in Seq(Link!Message) /\ Len(chan') = n - 1
      /\ \A j \in 1..(n - 1) : chan'[j] = chan[j + 1]
  BY <1>2 DEF Link!LinkInv
<1>4. PICK one : one = IF Link!IsNew(chan[1]) THEN 1 ELSE 0
  OBVIOUS
<1>5. ASSUME NEW i \in 1..(n - 1), Link!IsNew(chan'[i])
      PROVE  /\ Before(VTotal' + Cardinality(Link!NewIn(chan', i)), chan'[i].key)
             /\ BlkLen[chan'[i].key] <= CacheSz
  <2>1. i \in Nat /\ i + 1 \in 1..n /\ chan'[i] = chan[i + 1] /\ \A j \in 1..i : chan'[j] = chan[j + 1]
    BY <1>3
  <2>2. PICK c, e : c = chan /\ e = chan'
    OBVIOUS
  <2>3. /\ Link!Cardinality(Link!NewIn(c, i + 1)) = Link!Cardinality(Link!NewIn(e, i)) + one
        /\ Link!Cardinality(Link!NewIn(e, i)) \in Nat
    <3>1. \A j \in 1..i : e[j] = c[j + 1]
      BY <2>1, <2>2
    <3>2. Link!Cardinality(Link!NewIn(e, i)) \in Nat
      BY <2>1, Assumptions, Link!NewInFinite
    <3>3. Link!Cardinality(Link!NewIn(c, i + 1)) =
            Link!Cardinality(Link!NewIn(e, i)) + (IF Link!IsNew(c[1]) THEN 1 ELSE 0)
      BY <2>1, <3>1, Assumptions, Link!NewInShift
    <3> QED BY <2>2, <3>2, <3>3, <1>4
  <2>4. VTotal' + Cardinality(Link!NewIn(chan', i)) = VTotal + Cardinality(Link!NewIn(chan, i + 1))
    BY <2>2, <2>3, <1>4, SameCount
  <2>5. /\ Before(VTotal + Cardinality(Link!NewIn(chan, i + 1)), chan[i + 1].key)
        /\ BlkLen[chan[i + 1].key] <= CacheSz
    BY <1>2, <1>5, <2>1 DEF ChanApart
  <2> QED BY <2>1, <2>4, <2>5
<1>6. dpc' \in Storing => Before(VTotal', coming')
  <2> SUFFICES ASSUME dpc' \in Storing PROVE Before(VTotal', coming')
    OBVIOUS
  <2>1. Link!IsNew(chan[1]) /\ coming' = chan[1].key /\ 1 \in 1..n
    BY <1>3
  <2>2. Before(VTotal + Cardinality(Link!NewIn(chan, 1)), chan[1].key)
    BY <1>2, <2>1 DEF ChanApart
  <2>3. Cardinality(Link!NewIn(chan, 1)) = 1
    <3>1. Link!NewIn(chan, 1) = {1}
      BY <2>1 DEF Link!NewIn
    <3> QED BY <3>1, FS_Singleton
  <2> QED BY <2>1, <2>2, <2>3
<1>7. \A x, y : Before(x, y) => (x - 1 \in Held' => SlotOf(x - 1)'.key = y)
                             /\ (x \in Held' => SlotOf(x)'.key # y)
  BY <1>1 DEF Before
<1>8. \A i \in 1..Len(chan') : Link!IsNew(chan'[i]) =>
        Before(VTotal + Cardinality(Link!NewIn(chan, i)), chan[i].key)'
        /\ BlkLen[chan'[i].key] <= CacheSz
  <2> SUFFICES ASSUME NEW i \in 1..Len(chan'), Link!IsNew(chan'[i])
               PROVE  Before(VTotal + Cardinality(Link!NewIn(chan, i)), chan[i].key)'
                      /\ BlkLen[chan'[i].key] <= CacheSz
    OBVIOUS
  <2>1. i \in 1..(n - 1)
    BY <1>3
  <2>2. PICK x, y : x = VTotal' + Cardinality(Link!NewIn(chan', i)) /\ y = chan'[i].key
    OBVIOUS
  <2>3. Before(x, y) /\ BlkLen[y] <= CacheSz
    BY <1>5, <2>1, <2>2
  <2>4. Before(x, y)'
    BY <2>3, <1>1 DEF Before
  <2> QED BY <2>2, <2>3, <2>4 DEF Before, SlotOf
<1>9. dpc' \in Storing => Before(VTotal, coming)'
  BY <1>1, <1>6 DEF Before
<1> QED BY <1>8, <1>9 DEF ChanApart

LEMMA ReceiveStep ==
  ASSUME SameEnds, EndsInv, Receive
  PROVE  EndsInv'
<1>0. /\ Types /\ Ring /\ Up /\ CallInv /\ Relation /\ Link!IInv /\ StoreInv /\ ChanApart
      /\ CrcSays /\ DataKept /\ Link!LinkInv
  BY DEF EndsInv, Relation, Receive, StoreInv
<1>1. PICK m, k : m = Head(chan) /\ k = m.key
  OBVIOUS
<1>2. /\ chan # <<>> /\ m = chan[1] /\ m \in Link!Message /\ k \in Keys
      /\ chan' = Tail(chan) /\ Session /\ dpc = "idle" /\ tmp = <<>> /\ coming = NoKey
      /\ UNCHANGED <<mem, dpos, last_block_size, dtotal, dnb, joined, Session, uncounted, cut, compVars>>
      /\ Link!IsNew(m) => dpc' = "rotate" /\ tmp' = Bytes(k) /\ coming' = k /\ got' = got
      /\ ~Link!IsNew(m) => dpc' = "idle" /\ tmp' = <<>> /\ coming' = NoKey
  BY <1>0, <1>1, ReceiveFacts
<1>3. /\ Link!Receive
      /\ Types' /\ Ring' /\ Up' /\ CallInv' /\ Unmoved /\ Held' = Held
      /\ nb_total_block' = nb_total_block /\ slots' = slots
      /\ UNCHANGED <<VBlk, VNb, VPos, VEdge, VFault>>
      /\ VTotal' = VTotal + (IF Link!IsNew(chan[1]) THEN 1 ELSE 0) /\ VTotal \in Nat
  BY <1>0, ReceiveView
<1>4. Link!LinkInv'
  BY <1>0, <1>3, Assumptions, Link!ReceiveStep
<1>5. Link!IInv'
  BY <1>4 DEF Link!LinkInv
<1>6. ChanApart'
  <2>1. IF Link!IsNew(chan[1]) THEN coming' = chan[1].key ELSE dpc' \notin Storing
    BY <1>1, <1>2 DEF Storing
  <2> QED BY <2>1, <1>0, <1>2, <1>3, ShiftedApart
<1>7. StoreInv'
  <2>1. /\ mem' \in [Link!Area -> Link!Cell] /\ dpos' \in Nat /\ dtotal' \in Nat
        /\ last_block_size' \in Nat /\ (dtotal' > 0 => last_block_size' > 0) /\ Session'
    BY <1>0, <1>2 DEF StoreInv
  <2>2. CASE ~Link!IsNew(m)
    BY <2>1, <2>2, <1>2 DEF StoreInv, Storing
  <2>3. CASE Link!IsNew(m)
    <3>1. BlkLen[k] <= DCacheSz /\ BlkLen[k] >= DMinBlk
      <4>1. 1 \in 1..Len(chan)
        BY <1>2, <1>0 DEF Link!LinkInv
      <4>2. BlkLen[k] <= CacheSz
        BY <4>1, <1>0, <1>1, <1>2, <2>3 DEF ChanApart
      <4> QED BY <4>2, <2>3, <1>1 DEF SameEnds, Link!IsNew
    <3> QED BY <3>1, <2>1, <2>3, <1>2 DEF StoreInv, Storing
  <2> QED BY <2>2, <2>3
<1>8. CrcSays'
  <2>1. DOver' = DOver
    <3>1. dpc' \notin {"size", "total"}
      BY <1>2
    <3> QED BY <3>1, <1>2 DEF DOver
  <2>2. LastBlockCrc' = LastBlockCrc /\ (CrcReadable' <=> CrcReadable)
    BY <1>2 DEF LastBlockCrc, ReadMem, CrcReadable
  <2>3. \A s : SlotOf(s)' = SlotOf(s) /\ EndOf(s)' = EndOf(s)
    BY <1>3 DEF SlotOf, EndOf
  <2> QED BY <2>1, <2>2, <2>3, <1>0, <1>2, <1>3 DEF CrcSays, Before
<1>9. DataKept'
  BY <1>2 DEF DataKept
<1> QED BY <1>3, <1>4, <1>5, <1>6, <1>7, <1>8, <1>9 DEF EndsInv, Relation

-----------------------------------------------------------------------------
(* The decompressor goes on with the block it has received.  The view took *)
(* it for stored from the beginning.                                       *)
LEMMA StoreFacts ==
  ASSUME StoreInv, dpc \in Storing, NEW k, k = coming
  PROVE  /\ k \in Keys /\ Session /\ tmp = Bytes(k) /\ Len(tmp) = BlkLen[k]
         /\ BlkLen[k] \in Nat /\ BlkLen[k] > 0 /\ BlkLen[k] <= DCacheSz
         /\ \A i \in 1..BlkLen[k] : tmp[i] = <<k, i>>
         /\ mem \in [Link!Area -> Link!Cell] /\ DOMAIN mem = Link!Area
         /\ dpos \in Nat /\ dtotal \in Nat /\ last_block_size \in Nat /\ DCacheSz \in Nat
<1>1. k \in Keys /\ Session /\ tmp = Bytes(k) /\ BlkLen[k] <= DCacheSz
      /\ mem \in [Link!Area -> Link!Cell] /\ dpos \in Nat /\ dtotal \in Nat
      /\ last_block_size \in Nat
  BY DEF StoreInv
<1> QED BY <1>1, BytesFacts, Constants

LEMMA RotateStore ==
  ASSUME StoreInv, ContinueStore, DecRotate
  PROVE  /\ UNCHANGED <<VMem, VDpos, VSize, VTotal, VDnb, VGot>> /\ StoreInv'
         /\ UNCHANGED <<mem, last_block_size, dtotal, coming>>
         /\ dpos' = dpos \/ dpos' = 0
<1>1. /\ dpc = "rotate" /\ dpc' = "copy" /\ dpc \in Storing /\ dpc' \in Storing
      /\ UNCHANGED <<mem, last_block_size, dtotal, dnb, tmp, got, coming, chan, Session>>
      /\ dpos' = IF dpos + Len(tmp) > DCacheSz THEN 0 ELSE dpos
  BY DEF DecRotate, ContinueStore, Session, compVars, call, dmem, Storing
<1>2. PICK k : k = coming
  OBVIOUS
<1>3. /\ k \in Keys /\ Session /\ tmp = Bytes(k) /\ Len(tmp) = BlkLen[k]
      /\ BlkLen[k] \in Nat /\ BlkLen[k] > 0 /\ BlkLen[k] <= DCacheSz
      /\ dpos \in Nat /\ DCacheSz \in Nat
  BY <1>1, <1>2, StoreFacts
<1>4. Place' = Place
  BY <1>1 DEF Place
<1>5. UNCHANGED <<VMem, VDpos, VSize, VTotal, VDnb, VGot>>
  BY <1>1, <1>4 DEF VMem, VDpos, VSize, VTotal, VDnb, VGot, Laying, Storing
<1>6. dpos' + Len(tmp') <= DCacheSz /\ dpos' \in Nat
  BY <1>1, <1>3
<1> QED BY <1>1, <1>5, <1>6 DEF StoreInv

LEMMA CopyStore ==
  ASSUME StoreInv, ContinueStore, DecCopy
  PROVE  /\ UNCHANGED <<VMem, VDpos, VSize, VTotal, VDnb, VGot>> /\ StoreInv'
         /\ UNCHANGED <<dpos, last_block_size, dtotal, coming>>
         /\ mem' = Written(Target)
<1>1. /\ dpc = "copy" /\ dpc' = "advance" /\ dpc \in Storing /\ dpc' \in Storing
      /\ UNCHANGED <<dpos, last_block_size, dtotal, dnb, tmp, got, coming, chan, Session>>
      /\ mem' = Written(Target)
  BY DEF DecCopy, ContinueStore, Session, compVars, call, dmem, Storing
<1>2. PICK k : k = coming
  OBVIOUS
<1>3. /\ k \in Keys /\ Session /\ tmp = Bytes(k) /\ Len(tmp) = BlkLen[k]
      /\ BlkLen[k] \in Nat /\ BlkLen[k] > 0 /\ BlkLen[k] <= DCacheSz
      /\ \A i \in 1..BlkLen[k] : tmp[i] = <<k, i>>
      /\ mem \in [Link!Area -> Link!Cell] /\ DOMAIN mem = Link!Area
      /\ dpos \in Nat /\ DCacheSz \in Nat
  BY <1>1, <1>2, StoreFacts
<1>4. dpos + Len(tmp) <= DCacheSz
  BY <1>1 DEF StoreInv
<1>5. Place = dpos /\ Place' = dpos
  BY <1>1 DEF Place
<1>6. mem' = [p \in Link!Area |-> IF p \in dpos..(dpos + BlkLen[k] - 1)
                                    THEN tmp[p - dpos + 1] ELSE mem[p]]
  BY <1>1, <1>3 DEF Written, Target
<1>7. VMem' = VMem
  BY <1>1, <1>3, <1>5, <1>6 DEF VMem, Laying
<1>8. UNCHANGED <<VDpos, VSize, VTotal, VDnb, VGot>>
  BY <1>1, <1>5 DEF VDpos, VSize, VTotal, VDnb, VGot, Laying, Storing
<1>9. mem' \in [Link!Area -> Link!Cell]
  <2>1. \A p \in Link!Area : p \in dpos..(dpos + BlkLen[k] - 1) =>
          tmp[p - dpos + 1] \in Link!Cell
    <3> SUFFICES ASSUME NEW p \in Link!Area, p \in dpos..(dpos + BlkLen[k] - 1)
                 PROVE  tmp[p - dpos + 1] \in Link!Cell
      OBVIOUS
    <3>1. p - dpos + 1 \in 1..BlkLen[k]
      BY <1>3
    <3>2. PICK i \in 1..BlkLen[k] : i = p - dpos + 1
      BY <3>1
    <3>3. tmp[i] = <<k, i>> /\ i \in Nat
      BY <1>3
    <3> QED BY <3>2, <3>3, <1>3 DEF Link!Cell
  <2> QED BY <2>1, <1>3, <1>6
<1>10. mem'[dpos + Len(tmp) - 1] = <<k, Len(tmp)>>
  <2>1. PICK p : p = dpos + BlkLen[k] - 1
    OBVIOUS
  <2>2. p \in Link!Area /\ p \in dpos..(dpos + BlkLen[k] - 1) /\ p - dpos + 1 = BlkLen[k]
        /\ BlkLen[k] \in 1..BlkLen[k]
    BY <2>1, <1>3, <1>4 DEF Link!Area
  <2>3. mem'[p] = <<k, BlkLen[k]>>
    BY <2>2, <1>3, <1>6
  <2> QED BY <2>1, <2>3, <1>3
<1> QED BY <1>1, <1>2, <1>4, <1>7, <1>8, <1>9, <1>10 DEF StoreInv

LEMMA AdvanceStore ==
  ASSUME StoreInv, ContinueStore, DecAdvance
  PROVE  /\ UNCHANGED <<VMem, VDpos, VSize, VTotal, VDnb, VGot>> /\ StoreInv'
         /\ UNCHANGED <<dtotal, coming>> /\ dpc' = "size"
<1>1. /\ dpc = "advance" /\ dpc' = "size" /\ dpc \in Storing /\ dpc' \in Storing
      /\ UNCHANGED <<mem, last_block_size, dtotal, dnb, tmp, got, coming, chan, Session>>
      /\ dpos' = dpos + Len(tmp)
  BY DEF DecAdvance, ContinueStore, Session, compVars, call, dmem, Storing
<1>2. PICK k : k = coming
  OBVIOUS
<1>3. /\ k \in Keys /\ Len(tmp) = BlkLen[k]
      /\ BlkLen[k] \in Nat /\ BlkLen[k] > 0 /\ dpos \in Nat /\ DCacheSz \in Nat
  BY <1>1, <1>2, StoreFacts
<1>4. dpos + Len(tmp) <= DCacheSz /\ mem[dpos + Len(tmp) - 1] = <<coming, Len(tmp)>>
  BY <1>1 DEF StoreInv
<1>5. Place = dpos
  BY <1>1 DEF Place
<1>6. UNCHANGED <<VMem, VDpos, VSize, VTotal, VDnb, VGot>>
  BY <1>1, <1>5 DEF VMem, VDpos, VSize, VTotal, VDnb, VGot, Laying, Storing
<1>7. dpos' \in Nat /\ dpos' - 1 \in Link!Area /\ dpos' - 1 = dpos + Len(tmp) - 1
  BY <1>1, <1>3, <1>4 DEF Link!Area
<1>8. mem'[dpos' - 1] = <<coming', Len(tmp')>>
  BY <1>1, <1>4, <1>7
<1> QED BY <1>1, <1>6, <1>7, <1>8 DEF StoreInv

LEMMA SizeStore ==
  ASSUME StoreInv, ContinueStore, DecSetSize
  PROVE  /\ UNCHANGED <<VMem, VDpos, VSize, VTotal, VDnb, VGot>> /\ StoreInv'
         /\ UNCHANGED <<dtotal, coming>> /\ dpc' = "total"
<1>1. /\ dpc = "size" /\ dpc' = "total" /\ dpc \in Storing /\ dpc' \in Storing
      /\ UNCHANGED <<mem, dpos, dtotal, dnb, tmp, got, coming, chan, Session>>
      /\ last_block_size' = Len(tmp)
  BY DEF DecSetSize, ContinueStore, Session, compVars, call, dmem, Storing
<1>2. PICK k : k = coming
  OBVIOUS
<1>3. Len(tmp) \in Nat /\ Len(tmp) > 0
  BY <1>1, <1>2, StoreFacts
<1>4. UNCHANGED <<VMem, VDpos, VSize, VTotal, VDnb, VGot>>
  BY <1>1 DEF VMem, VDpos, VSize, VTotal, VDnb, VGot, Laying, Storing
<1> QED BY <1>1, <1>3, <1>4 DEF StoreInv

LEMMA TotalStore ==
  ASSUME StoreInv, ContinueStore, DecCountTotal
  PROVE  /\ UNCHANGED <<VMem, VDpos, VSize, VTotal, VDnb, VGot>> /\ StoreInv'
         /\ UNCHANGED <<mem, dpos, last_block_size, coming>> /\ dpc = "total" /\ dpc' = "count"
         /\ dtotal' = VTotal
<1>1. /\ dpc = "total" /\ dpc' = "count" /\ dpc \in Storing /\ dpc' \in Storing
      /\ UNCHANGED <<mem, dpos, last_block_size, dnb, tmp, got, coming, chan, Session>>
      /\ dtotal' = dtotal + 1
  BY DEF DecCountTotal, ContinueStore, Session, compVars, call, dmem, Storing
<1>2. PICK k : k = coming
  OBVIOUS
<1>3. Len(tmp) \in Nat /\ Len(tmp) > 0 /\ dtotal \in Nat
  BY <1>1, <1>2, StoreFacts
<1>4. UNCHANGED <<VMem, VDpos, VSize, VTotal, VDnb, VGot>> /\ dtotal' = VTotal
  BY <1>1 DEF VMem, VDpos, VSize, VTotal, VDnb, VGot, Laying, Storing
<1>5. last_block_size = Len(tmp)
  BY <1>1 DEF StoreInv
<1> QED BY <1>1, <1>3, <1>4, <1>5 DEF StoreInv

LEMMA LastStore ==
  ASSUME StoreInv, ContinueStore, DecCountBlock
  PROVE  /\ UNCHANGED <<VMem, VDpos, VSize, VTotal, VDnb, VGot>> /\ StoreInv'
         /\ UNCHANGED <<mem, dpos, last_block_size, dtotal>> /\ dpc = "count" /\ dpc' = "idle"
<1>1. /\ dpc = "count" /\ dpc' = "idle" /\ dpc \in Storing /\ dpc' \notin Storing
      /\ UNCHANGED <<mem, dpos, last_block_size, dtotal, chan, Session>>
      /\ dnb' = dnb + 1 /\ tmp' = <<>> /\ got' = Bytes(coming) /\ coming' = NoKey
  BY DEF DecCountBlock, ContinueStore, Session, compVars, call, Storing
<1>2. PICK k : k = coming
  OBVIOUS
<1>3. k \in Keys /\ Session /\ k # NoKey
  BY <1>1, <1>2, StoreFacts, Constants
<1>4. UNCHANGED <<VMem, VDpos, VSize, VTotal, VDnb, VGot>>
  BY <1>1, <1>2, <1>3 DEF VMem, VDpos, VSize, VTotal, VDnb, VGot, Laying, Storing
<1> QED BY <1>1, <1>3, <1>4 DEF StoreInv

(* The crc over bytes that end with the last one of the block stored.      *)
LEMMA LastCell ==
  StoreInv /\ CrcReadable /\ last_block_size > 0 /\ dpos - 1 \in Link!Area =>
    \A k \in Keys : LastBlockCrc = Bytes(k) =>
      last_block_size = BlkLen[k] /\ mem[dpos - 1] = <<k, BlkLen[k]>>
<1> SUFFICES ASSUME StoreInv, CrcReadable, last_block_size > 0, dpos - 1 \in Link!Area,
                    NEW k \in Keys, LastBlockCrc = Bytes(k)
             PROVE  last_block_size = BlkLen[k] /\ mem[dpos - 1] = <<k, BlkLen[k]>>
  OBVIOUS
<1>1. PICK n : n = last_block_size
  OBVIOUS
<1>2. /\ n \in Nat /\ n > 0 /\ dpos \in Nat /\ DOMAIN mem = Link!Area
      /\ BlkLen[k] \in Nat /\ BlkLen[k] > 0
      /\ \A i \in 1..BlkLen[k] : Bytes(k)[i] = <<k, i>>
  BY <1>1, BytesFacts DEF StoreInv
<1>3. DOMAIN LastBlockCrc = 1..n /\ DOMAIN Bytes(k) = 1..BlkLen[k]
  BY <1>1, Constants DEF LastBlockCrc, ReadMem, Bytes
<1>4. n \in 1..BlkLen[k] /\ BlkLen[k] \in 1..n
  BY <1>2, <1>3
<1>5. n = BlkLen[k]
  BY <1>2, <1>4
<1>6. LastBlockCrc[n] = mem[dpos - 1]
  <2>1. (dpos - n) + n - 1 = dpos - 1 /\ n \in 1..n
    BY <1>2
  <2> QED BY <2>1, <1>1, <1>2 DEF LastBlockCrc, ReadMem
<1> QED BY <1>1, <1>2, <1>4, <1>5, <1>6

LEMMA CrcOfComing ==
  StoreInv /\ CrcReadable /\ (dpc = "total" \/ (dpc = "size" /\ dtotal > 0)) =>
    \A l \in Keys : LastBlockCrc = Bytes(l) => l = coming
<1> SUFFICES ASSUME StoreInv, CrcReadable, dpc = "total" \/ (dpc = "size" /\ dtotal > 0),
                    NEW k \in Keys, LastBlockCrc = Bytes(k)
             PROVE  k = coming
  OBVIOUS
<1>1. dpc \in Storing /\ dpos - 1 \in Link!Area /\ mem[dpos - 1] = <<coming, Len(tmp)>>
  BY DEF StoreInv, Storing
<1>2. PICK c : c = coming
  OBVIOUS
<1>3. Len(tmp) > 0
  BY <1>1, <1>2, StoreFacts
<1>4. last_block_size > 0
  BY <1>3 DEF StoreInv
<1>5. mem[dpos - 1] = <<k, BlkLen[k]>>
  BY <1>1, <1>4, LastCell
<1> QED BY <1>1, <1>5

LEMMA ContinueStoreStep ==
  ASSUME EndsInv, ContinueStore
  PROVE  EndsInv'
<1>0. /\ Types /\ Ring /\ Up /\ CallInv /\ Relation /\ Link!IInv /\ StoreInv /\ ChanApart
      /\ CrcSays /\ DataKept /\ UNCHANGED <<compVars, chan, joined, uncounted, cut>> /\ DecStep
  BY DEF EndsInv, Relation, ContinueStore, history
<1>1. UNCHANGED <<VMem, VDpos, VSize, VTotal, VDnb, VGot>> /\ StoreInv'
  BY <1>0, RotateStore, CopyStore, AdvanceStore, SizeStore, TotalStore, LastStore DEF DecStep
<1>2. dpc \in Storing
  BY <1>0 DEF DecStep, DecRotate, DecCopy, DecAdvance, DecSetSize, DecCountTotal, DecCountBlock,
              Storing
<1>3. joined /\ Link!LinkInv /\ joined' /\ Session /\ Session'
  BY <1>0, <1>2 DEF StoreInv, Relation, Session, compVars, call
<1>4. /\ Types' /\ Ring' /\ Up' /\ CallInv' /\ Unmoved /\ slots' = slots
      /\ Held' = Held /\ VBlk' = VBlk /\ VNb' = VNb /\ VPos' = VPos
      /\ VEdge' = VEdge /\ VFault' = VFault /\ nb_total_block' = nb_total_block
  <2>1. /\ uncounted' \subseteq {"comp", "decomp"} /\ joined' \in BOOLEAN
        /\ ("comp" \in uncounted' <=> "comp" \in uncounted)
        /\ ("decomp" \in uncounted' => ~joined')
    BY <1>0 DEF Types
  <2> QED BY <2>1, <1>0, CompressorSame
<1>5. Link!IInv' /\ Link!LinkInv'
  <2>1. NoOut' \in Link!OutBuff
    BY DEF NoOut, Link!OutBuff
  <2>2. Link!IInv'
    BY <2>1, <1>0, <1>4, Assumptions, Link!OutStep
  <2>3. Link!Live = Held /\ Link!Live' = Held
    <3>1. Link!Live = Held
      BY <1>0, ViewFacts
    <3>2. Link!First' = Link!First
      BY <1>4 DEF Link!First
    <3> QED BY <3>1, <3>2, <1>4 DEF Link!Live
  <2>4. \A s \in Link!Live' : s \in Nat /\ s \in Link!Live /\ VBlk'[s] = VBlk[s]
    BY <2>3, <1>0, <1>4, RingFacts
  <2>5. nb_total_block <= nb_total_block'
    BY <1>0, <1>4, RingFacts
  <2>6. UNCHANGED <<chan, Link!decompVars>>
    BY <1>0, <1>1 DEF Link!decompVars
  <2>7. Link!LinkInv'
    BY <1>3, <1>4, <2>2, <2>4, <2>5, <2>6, Assumptions, Link!Unsent
  <2> QED BY <2>2, <2>7
<1>6. \A s : SlotOf(s)' = SlotOf(s) /\ EndOf(s)' = EndOf(s)
  BY <1>4 DEF SlotOf, EndOf
<1>7. ChanApart'
  <2>1. dpc' \in Storing => coming' = coming
    BY <1>0 DEF ContinueStore, Storing
  <2> QED BY <2>1, <1>0, <1>1, <1>2, <1>4, <1>6 DEF ChanApart, Before
<1>8. PICK k : k = coming
  OBVIOUS
<1>9. /\ VTotal = IF dpc = "count" THEN dtotal ELSE dtotal + 1
      /\ VTotal <= nb_total_block /\ Before(VTotal, k)
      /\ dtotal \in Nat /\ nb_total_block \in Nat /\ dpos \in Nat /\ last_block_size \in Nat
      /\ "decomp" \notin uncounted /\ "decomp" \notin uncounted'
      /\ \A n : Before(n, k)' <=> Before(n, k)
      /\ dtotal > 0 => last_block_size > 0
  BY <1>0, <1>2, <1>3, <1>4, <1>6, <1>8, UnderWay, RingFacts
     DEF VTotal, ChanApart, Storing, StoreInv, Types, Before
<1>10. CrcSays'
  <2>1. CASE DecAdvance \/ DecSetSize
    <3>1. dpc' \in {"size", "total"} /\ dpc # "count" /\ UNCHANGED <<dtotal, coming>>
      <4>1. CASE DecAdvance
        BY <4>1, <1>0, AdvanceStore DEF DecAdvance
      <4>2. CASE DecSetSize
        BY <4>2, <1>0, SizeStore DEF DecSetSize
      <4> QED BY <2>1, <4>1, <4>2
    <3>2. (StoreInv /\ CrcReadable /\ (dpc = "total" \/ (dpc = "size" /\ dtotal > 0)) =>
             \A l \in Keys : LastBlockCrc = Bytes(l) => l = coming)'
      BY CrcOfComing, PTL
    <3>3. dtotal' > 0 /\ CrcReadable' =>
            \A l \in Keys : LastBlockCrc' = Bytes(l) => l = k
      BY <3>1, <3>2, <1>1, <1>8 DEF Bytes
    <3>4. DOver' /\ dtotal' < nb_total_block' /\ Before(dtotal + 1, k)
      BY <3>1, <1>4, <1>9 DEF DOver
    <3>5. Before(dtotal + 1, k)'
      BY <3>1, <3>4, <1>4, <1>6 DEF Before
    <3>6. dtotal' <= nb_total_block'
      BY <3>1, <3>4, <1>4, <1>9
    <3> QED BY <3>3, <3>4, <3>5, <3>6 DEF CrcSays
  <2>2. CASE DecCountTotal
    <3>1. /\ UNCHANGED <<mem, dpos, last_block_size, coming>> /\ dpc = "total" /\ dpc' = "count"
          /\ dtotal' = VTotal
      BY <2>2, <1>0, TotalStore
    <3>2. LastBlockCrc' = LastBlockCrc /\ (CrcReadable' <=> CrcReadable)
      BY <3>1 DEF LastBlockCrc, ReadMem, CrcReadable
    <3>3. CrcReadable => \A l \in Keys : LastBlockCrc = Bytes(l) => l = k
      <4>1. StoreInv /\ dpc = "total"
        BY <3>1, <1>0
      <4>2. CrcReadable => \A l \in Keys : LastBlockCrc = Bytes(l) => l = coming
        BY <4>1, CrcOfComing
      <4> QED BY <4>2, <1>8
    <3>4. ~DOver'
      BY <3>1, <1>9 DEF DOver
    <3>5. PICK n : n = VTotal
      OBVIOUS
    <3>6. Before(n, k)'
      BY <3>5, <1>9
    <3>7. n - 1 \in Held' => dpos' = EndOf(n - 1)'
      <4>1. Link!Agrees(Link!Now)
        BY <1>3, Assumptions, Link!NowFacts
      <4>2. n - 1 \in Link!Live => VDpos = Link!End(VBlk[n - 1])
        BY <4>1, <3>5 DEF Link!Agrees, Link!Now
      <4>3. n - 1 \in Held => VDpos = EndOf(n - 1)
        BY <4>2, <1>0, ViewFacts
      <4>4. VDpos = dpos
        BY <3>1 DEF VDpos, Laying
      <4> QED BY <4>3, <4>4, <3>1, <1>4, <1>6
    <3>8. dtotal' = n /\ dtotal' <= nb_total_block'
      BY <3>1, <3>5, <1>4, <1>9
    <3>9. \A l \in Keys : CrcReadable' /\ LastBlockCrc' = Bytes(l) =>
            Before(n, l)' /\ (n - 1 \in Held' => dpos' = EndOf(n - 1)')
      BY <3>2, <3>3, <3>6, <3>7
    <3> QED BY <3>4, <3>8, <3>9 DEF CrcSays, Before, SlotOf, EndOf
  <2>3. CASE DecRotate \/ DecCopy \/ DecCountBlock
    <3>1. /\ dtotal' = dtotal /\ last_block_size' = last_block_size
          /\ ~DOver /\ ~DOver'
      <4>1. dpc \notin {"size", "total"} /\ dpc' \notin {"size", "total"}
        BY <2>3 DEF DecRotate, DecCopy, DecCountBlock
      <4>2. dtotal' = dtotal /\ last_block_size' = last_block_size
        BY <2>3, <1>0, RotateStore, CopyStore, LastStore
      <4> QED BY <4>1, <4>2, <1>9 DEF DOver
    <3>2. dtotal > 0 /\ CrcReadable' =>
            dpos' = dpos /\ CrcReadable /\ LastBlockCrc' = LastBlockCrc
      <4> SUFFICES ASSUME dtotal > 0, CrcReadable'
                   PROVE  dpos' = dpos /\ CrcReadable /\ LastBlockCrc' = LastBlockCrc
        OBVIOUS
      <4>1. last_block_size > 0
        BY <1>9
      <4>2. dpos' = dpos
        <5>1. CASE DecRotate
          <6>1. dpos' = dpos \/ dpos' = 0
            BY <5>1, <1>0, RotateStore
          <6>2. last_block_size <= dpos'
            BY <3>1 DEF CrcReadable
          <6> QED BY <6>1, <6>2, <4>1, <1>9
        <5> QED BY <5>1, <2>3, <1>0, CopyStore, LastStore
      <4>3. CrcReadable /\ last_block_size <= dpos
        BY <4>2, <3>1 DEF CrcReadable
      <4>4. PICK n : n = last_block_size
        OBVIOUS
      <4>5. DOMAIN mem' = DOMAIN mem /\ \A p \in DOMAIN mem : p < dpos => mem'[p] = mem[p]
        <5>1. CASE DecCopy
          <6>1. mem' = Written(Target)
            BY <5>1, <1>0, CopyStore
          <6>2. DOMAIN mem = Link!Area /\ Len(tmp) \in Nat
            BY <1>0, <1>2, <1>8, StoreFacts
          <6>3. \A p \in DOMAIN mem : p < dpos => p \notin Target
            BY <6>2, <1>9 DEF Target, Link!Area
          <6> QED BY <6>1, <6>3 DEF Written
        <5>2. CASE ~DecCopy
          <6>1. mem' = mem
            BY <5>2, <2>3, <1>0, RotateStore, LastStore
          <6> QED BY <6>1
        <5> QED BY <5>1, <5>2
      <4>6. \A i \in 1..n : dpos - n + i - 1 < dpos
        BY <4>4, <1>9
      <4>7. LastBlockCrc = [i \in 1..n |-> IF dpos - n + i - 1 \in DOMAIN mem
                                            THEN mem[dpos - n + i - 1] ELSE Hole]
        BY <4>4 DEF LastBlockCrc, ReadMem
      <4>8. LastBlockCrc' = [i \in 1..n |-> IF dpos - n + i - 1 \in DOMAIN mem'
                                             THEN mem'[dpos - n + i - 1] ELSE Hole]
        BY <4>2, <4>4, <3>1 DEF LastBlockCrc, ReadMem
      <4> QED BY <4>2, <4>3, <4>5, <4>6, <4>7, <4>8
    <3>3. dtotal' <= nb_total_block'
      BY <3>1, <1>0, <1>4 DEF CrcSays
    <3>4. PICK n : n = dtotal
      OBVIOUS
    <3>5. ASSUME NEW l \in Keys, n > 0, CrcReadable', LastBlockCrc' = Bytes(l)
          PROVE  Before(n, l)' /\ (n - 1 \in Held' => dpos' = EndOf(n - 1)')
      <4>1. Before(n, l) /\ (n - 1 \in Held => dpos = EndOf(n - 1)) /\ dpos' = dpos
        BY <3>1, <3>2, <3>4, <3>5, <1>0 DEF CrcSays
      <4> QED BY <4>1, <1>4, <1>6 DEF Before
    <3> QED BY <3>1, <3>3, <3>4, <3>5 DEF CrcSays, Before, SlotOf, EndOf
  <2> QED BY <2>1, <2>2, <2>3, <1>0 DEF DecStep
<1>11. DataKept'
  BY <1>3 DEF DataKept
<1> QED BY <1>1, <1>4, <1>5, <1>7, <1>10, <1>11 DEF EndsInv, Relation

-----------------------------------------------------------------------------
(* The decompressor stops.  What it was laying down covers nothing that    *)
(* the compressor could still refer to, whether all of it is there or not. *)
LEMMA SameCrc ==
  ASSUME StoreInv, dpos' = dpos, last_block_size' = last_block_size, DOMAIN mem' = DOMAIN mem,
         \A p \in DOMAIN mem : p < dpos => mem'[p] = mem[p]
  PROVE  (CrcReadable' <=> CrcReadable) /\ LastBlockCrc' = LastBlockCrc
<1>1. PICK n : n = last_block_size
  OBVIOUS
<1>2. n \in Nat /\ dpos \in Nat
  BY <1>1 DEF StoreInv
<1>3. \A i \in 1..n : dpos - n + i - 1 < dpos
  BY <1>2
<1>4. LastBlockCrc = [i \in 1..n |-> IF dpos - n + i - 1 \in DOMAIN mem
                                      THEN mem[dpos - n + i - 1] ELSE Hole]
  BY <1>1 DEF LastBlockCrc, ReadMem
<1>5. LastBlockCrc' = [i \in 1..n |-> IF dpos - n + i - 1 \in DOMAIN mem'
                                       THEN mem'[dpos - n + i - 1] ELSE Hole]
  BY <1>1 DEF LastBlockCrc, ReadMem
<1> QED BY <1>3, <1>4, <1>5 DEF CrcReadable

LEMMA OneOfEachKey ==
  ASSUME Types, Ring, Link!IInv
  PROVE  \A s, t \in Held : SlotOf(s).key = SlotOf(t).key => s = t
<1>1. \A s, t \in Link!Live : VBlk[s].key = VBlk[t].key => s = t
  BY DEF Link!IInv, Link!NoDuplicate
<1> QED BY <1>1, ViewFacts

(* While the two are connected every block that the compressor may refer   *)
(* to, and that the decompressor counts, is there, and what is being laid  *)
(* down touches none of its bytes.                                         *)
LEMMA Intact ==
  ASSUME Types, Ring, Link!LinkInv, StoreInv, ChanApart,
         NEW s \in Held, s < dtotal, NEW i \in 1..BlkLen[SlotOf(s).key],
         NEW p, p = SlotOf(s).off + i - 1
  PROVE  /\ p \in Link!Area /\ mem[p] = <<SlotOf(s).key, i>>
         /\ dpc \in Laying => p \notin Place..(Place + Len(tmp) - 1)
<1>1. /\ DOMAIN mem = Link!Area /\ dpos \in Nat /\ dtotal \in Nat /\ DCacheSz \in Nat
      /\ HeadNo \in Nat /\ nb_total_block \in Nat /\ s \in Nat /\ HeadNo <= s
      /\ SlotOf(s).key \in Keys
  BY RingFacts, Constants DEF StoreInv
<1>2. Link!Agrees(Link!Now) /\ VTotal <= nb_total_block /\ Link!IInv
  BY Assumptions, Link!NowFacts, UnderWay DEF Link!LinkInv
<1>3. p \in Link!Area /\ VMem[p] = <<SlotOf(s).key, i>>
  <2>1. s \in Link!Live /\ VBlk[s] = SlotOf(s)
    BY ViewFacts
  <2>2. s < VTotal
    BY <1>1 DEF VTotal
  <2>3. Link!Holds(Link!Now, SlotOf(s).off, SlotOf(s).key)
    BY <1>2, <2>1, <2>2 DEF Link!Agrees, Link!Now
  <2> QED BY <2>3 DEF Link!Holds, Link!Now
<1>4. CASE dpc \notin Laying
  BY <1>3, <1>4 DEF VMem
<1>5. CASE dpc \in Laying
  <2>1. dpc \in Storing /\ VTotal = dtotal + 1
    BY <1>5 DEF Laying, Storing, VTotal
  <2>2. PICK k : k = coming
    OBVIOUS
  <2>3. /\ k \in Keys /\ Len(tmp) = BlkLen[k] /\ BlkLen[k] \in Nat
        /\ \A j \in 1..BlkLen[k] : tmp[j] = <<k, j>>
    BY <2>1, <2>2, StoreFacts
  <2>4. PICK P : P = Place..(Place + BlkLen[k] - 1)
    OBVIOUS
  <2>5. Place \in Nat /\ p \in Int
    BY <1>1, <1>3 DEF Place, Link!Area
  <2>6. VMem[p] = IF p \in P THEN tmp[p - Place + 1] ELSE mem[p]
    BY <2>3, <2>4, <1>1, <1>3, <1>5 DEF VMem
  <2>7. SlotOf(s).key # k
    <3>1. dtotal \in Held /\ (dtotal + 1) - 1 = dtotal
      BY <2>1, <1>1, <1>2 DEF Held
    <3>2. SlotOf(dtotal).key = k
      BY <3>1, <2>1, <2>2 DEF ChanApart, Before
    <3> QED BY <3>1, <3>2, <1>1, <1>2, OneOfEachKey
  <2>8. p \notin P
    <3> SUFFICES ASSUME p \in P PROVE FALSE
      OBVIOUS
    <3>1. p - Place + 1 \in 1..BlkLen[k]
      BY <2>3, <2>4, <2>5
    <3>2. VMem[p] = tmp[p - Place + 1]
      BY <2>6
    <3>3. PICK j \in 1..BlkLen[k] : VMem[p] = <<k, j>>
      BY <3>1, <3>2, <2>3
    <3> QED BY <3>3, <2>7, <1>3
  <2> QED BY <2>3, <2>4, <2>6, <2>8, <1>3
<1> QED BY <1>4, <1>5

(* The two ends with their blocks as they were, and apart.                 *)
LEMMA Parted ==
  ASSUME Types, Ring, Relation, HeadNo' = HeadNo, nb_total_block' = nb_total_block,
         slots' = slots, UNCHANGED <<decVars, coming, got>>, DOver' = DOver,
         ~Session', chan' = <<>>, dpc \in {"idle", "down"}, dpc = "down" => ~joined'
  PROVE  Relation'
<1>0. /\ Link!IInv /\ StoreInv /\ ChanApart /\ CrcSays /\ DataKept
      /\ Session => Link!LinkInv
      /\ UNCHANGED <<mem, dpos, last_block_size, dtotal, dnb, tmp, dpc, coming, got>>
  BY DEF Relation, decVars, dfile, dmem
<1>1. /\ Held' = Held /\ VBlk' = VBlk /\ VNb' = VNb /\ VPos' = VPos
      /\ VEdge' = VEdge /\ VFault' = VFault
      /\ \A s : SlotOf(s)' = SlotOf(s) /\ EndOf(s)' = EndOf(s)
  <2>1. \A s : SlotOf(s)' = SlotOf(s) /\ EndOf(s)' = EndOf(s)
    BY DEF SlotOf, EndOf
  <2> QED BY <2>1, SameView
<1>2. Link!IInv'
  <2>1. NoOut' \in Link!OutBuff
    BY DEF NoOut, Link!OutBuff
  <2> QED BY <2>1, <1>0, <1>1, Assumptions, Link!OutStep
<1>3. DataThere
  BY <1>0, Intact DEF DataKept, DataThere
<1>4. DataThere'
  BY <1>0, <1>1, <1>3 DEF DataThere
<1>5. StoreInv' /\ ChanApart' /\ DataKept'
  BY <1>0, <1>4 DEF StoreInv, Storing, ChanApart, DataKept
<1>6. CrcSays'
  <2>1. (CrcReadable' <=> CrcReadable) /\ LastBlockCrc' = LastBlockCrc
    BY <1>0 DEF CrcReadable, LastBlockCrc, ReadMem
  <2> QED BY <2>1, <1>0, <1>1 DEF CrcSays, Before
<1> QED BY <1>2, <1>5, <1>6 DEF Relation

(* The compressor stops.                                                   *)
LEMMA CompressorStopsStep ==
  ASSUME EndsInv, Reload, CompressorStops
  PROVE  EndsInv'
<1>1. /\ Types /\ Ring /\ Relation /\ CompEnd /\ pc # "down"
      /\ uncounted' = uncounted \cup (IF pc = "total" THEN {"comp"} ELSE {})
      /\ joined' = (joined /\ pc \notin Loading)
      /\ UNCHANGED <<decVars, chan, coming, got, cut>>
      /\ Link!IInv /\ StoreInv /\ ChanApart /\ CrcSays /\ DataKept
      /\ Session => Link!LinkInv
  BY DEF EndsInv, Relation, CompressorStops, CompClose, CompCrash
<1>2. /\ UNCHANGED file /\ pc' = "down" /\ list' = <<>> /\ ~edge' /\ ~dropping' /\ cur' = NoBlock
  BY <1>1 DEF CompEnd
<1>3. "comp" \notin uncounted /\ (pc = "total" => cut = 0) /\ cut \in Nat
  BY <1>1 DEF Types
<1>4. "comp" \in uncounted' <=> pc = "total"
  BY <1>1, <1>3
<1>5. Over' = Over
  BY <1>1, <1>2, <1>3, <1>4 DEF Over
<1>6. Unmoved /\ Ring'
  BY <1>1, <1>2, <1>5, FileKept
<1>8. Types'
  <2>1. cur' \in [key : Keys \cup {NoKey}, off : Nat, left : Int]
    BY <1>2 DEF NoBlock
  <2>2. /\ uncounted' \subseteq {"comp", "decomp"} /\ ("decomp" \in uncounted' => ~joined')
        /\ joined' \in BOOLEAN
    BY <1>1 DEF Types
  <2>3. cut' = cut /\ ("comp" \in uncounted' => cut' = 0)
    BY <1>1, <1>3, <1>4
  <2> QED BY <2>1, <2>2, <2>3, <1>1, <1>2 DEF Types, file
<1>9. Up' /\ CallInv'
  BY <1>2 DEF Up, CallInv, Steps!Apart, Steps!InCall
<1>10. CASE pc \notin Loading
  <2>1. joined' = joined
    BY <1>1, <1>10 DEF Types
  <2>2. Session' = Session
    BY <2>1, <1>2, <1>10 DEF Session, Settling, Loading
  <2>3. DecoderSame
    BY <2>1, <1>1 DEF DecoderSame
  <2>4. Relation'
    BY <2>2, <2>3, <1>1, <1>6, Quiet DEF Unmoved
  <2> QED BY <2>4, <1>6, <1>8, <1>9 DEF EndsInv
<1>11. CASE pc \in Loading
  <2>1. ~joined' /\ ~Session' /\ chan' = <<>> /\ dpc \in {"idle", "down"}
    BY <1>1, <1>11 DEF Reload, Session
  <2>2. slots' = slots
    BY <1>2 DEF file
  <2>3. DOver' = DOver
    BY <2>1, <1>1, <1>11 DEF DOver, Loading, decVars
  <2>4. Relation'
    BY <2>1, <2>2, <2>3, <1>1, <1>6, Parted DEF Unmoved
  <2> QED BY <2>4, <1>6, <1>8, <1>9 DEF EndsInv
<1> QED BY <1>10, <1>11

LEMMA CutShort ==
  ASSUME EndsInv, DecompressorStops
  PROVE  /\ mem' \in [Link!Area -> Link!Cell] /\ DataThere'
         /\ DOMAIN mem' = DOMAIN mem /\ \A p \in DOMAIN mem : p < dpos => mem'[p] = mem[p]
<1>0. /\ Types /\ Ring /\ StoreInv /\ ChanApart /\ DataKept
      /\ Session => Link!LinkInv
      /\ DecCrash /\ UNCHANGED compVars /\ UNCHANGED <<dpos, last_block_size, dtotal, dnb>>
  BY DEF EndsInv, Relation, DecompressorStops, DecCrash
<1>1. /\ mem \in [Link!Area -> Link!Cell] /\ DOMAIN mem = Link!Area
      /\ dpos \in Nat /\ dtotal \in Nat /\ DCacheSz \in Nat
  BY <1>0, Constants DEF StoreInv
<1>2. /\ Held' = Held /\ slots' = slots
  <2>1. slots' = slots /\ HeadNo' = HeadNo /\ nb_total_block' = nb_total_block
    <3>1. /\ UNCHANGED <<slots, cache_idx_head, nb_block, nb_total_block, pc, cut>>
          /\ ("comp" \in uncounted' <=> "comp" \in uncounted)
      BY <1>0 DEF compVars, file, call, DecompressorStops
    <3> QED BY <3>1 DEF HeadNo, Linked, Over
  <2> QED BY <2>1 DEF Held
<1>3. \A s : SlotOf(s)' = SlotOf(s)
  BY <1>2 DEF SlotOf
<1>4. CASE dpc # "copy"
  <2>1. mem' = mem
    BY <1>0, <1>4 DEF DecCrash
  <2>2. DataThere
    BY <1>0, Intact DEF DataThere, DataKept
  <2>3. DataThere'
    BY <2>1, <2>2, <1>0, <1>2, <1>3 DEF DataThere
  <2> QED BY <2>1, <2>3, <1>1
<1>5. CASE dpc = "copy"
  <2>1. dpc \in Storing /\ dpc \in Laying
    BY <1>5 DEF Laying, Storing
  <2>2. PICK k : k = coming
    OBVIOUS
  <2>3. /\ k \in Keys /\ Session /\ Len(tmp) = BlkLen[k] /\ BlkLen[k] \in Nat
        /\ \A i \in 1..BlkLen[k] : tmp[i] = <<k, i>>
    BY <2>1, <2>2, <1>0, StoreFacts
  <2>4. PICK S \in SUBSET Target : mem' = Written(S)
    BY <1>0, <1>5 DEF DecCrash
  <2>5. Target = dpos..(dpos + BlkLen[k] - 1) /\ Place = dpos
    BY <1>5, <2>3 DEF Target, Place
  <2>6. mem' = [p \in Link!Area |-> IF p \in S THEN tmp[p - dpos + 1] ELSE mem[p]]
    BY <2>4, <1>1 DEF Written
  <2>7. ASSUME NEW p \in Link!Area, p \in S
        PROVE  ~(p < dpos) /\ mem'[p] \in Link!Cell
    <3>1. p \in Target /\ p \in Int
      BY <2>4, <2>7 DEF Link!Area
    <3>2. ~(p < dpos) /\ p - dpos + 1 \in 1..BlkLen[k]
      BY <3>1, <2>3, <2>5, <1>1
    <3>3. mem'[p] = tmp[p - dpos + 1]
      BY <2>6, <2>7
    <3>4. PICK j \in 1..BlkLen[k] : mem'[p] = <<k, j>>
      BY <3>2, <3>3, <2>3
    <3> QED BY <3>2, <3>4, <2>3 DEF Link!Cell
  <2>8. \A p \in Link!Area : p \notin S => mem'[p] = mem[p]
    BY <2>6
  <2>9. /\ mem' \in [Link!Area -> Link!Cell] /\ DOMAIN mem' = Link!Area
        /\ \A p \in Link!Area : p < dpos => mem'[p] = mem[p]
    <3>1. \A p \in Link!Area : mem'[p] \in Link!Cell
      BY <2>7, <2>8, <1>1
    <3> QED BY <3>1, <2>6, <2>7, <2>8
  <2>10. ASSUME NEW s \in Held, s < dtotal, NEW i \in 1..BlkLen[SlotOf(s).key]
         PROVE  /\ SlotOf(s).off + i - 1 \in Link!Area
                /\ mem'[SlotOf(s).off + i - 1] = <<SlotOf(s).key, i>>
    <3>1. PICK p : p = SlotOf(s).off + i - 1
      OBVIOUS
    <3>2. p \in Link!Area /\ mem[p] = <<SlotOf(s).key, i>> /\ p \notin Target
      BY <2>1, <2>3, <2>5, <2>10, <3>1, <1>0, Intact
    <3> QED BY <3>1, <3>2, <2>4, <2>8
  <2>11. DataThere'
    BY <2>10, <1>0, <1>2, <1>3 DEF DataThere
  <2> QED BY <2>9, <2>11, <1>1
<1> QED BY <1>4, <1>5

LEMMA DecompressorStopsStep ==
  ASSUME EndsInv, DecompressorStops
  PROVE  EndsInv'
<1>0. /\ Types /\ Ring /\ Up /\ CallInv /\ Link!IInv /\ StoreInv /\ CrcSays
      /\ UNCHANGED <<compVars, dpos, last_block_size, dtotal, dnb, got, cut>>
      /\ uncounted' = uncounted \cup (IF dpc \in {"size", "total"} THEN {"decomp"} ELSE {})
      /\ chan' = <<>> /\ coming' = NoKey /\ joined' = FALSE /\ tmp' = <<>> /\ dpc' = "down"
  BY DEF EndsInv, Relation, DecompressorStops, DecCrash
<1>1. /\ Types' /\ Ring' /\ Up' /\ CallInv' /\ Unmoved /\ slots' = slots
      /\ Held' = Held /\ VBlk' = VBlk /\ VNb' = VNb /\ VPos' = VPos
      /\ VEdge' = VEdge /\ VFault' = VFault /\ nb_total_block' = nb_total_block
  <2>1. /\ uncounted' \subseteq {"comp", "decomp"} /\ joined' \in BOOLEAN
        /\ ("comp" \in uncounted' <=> "comp" \in uncounted)
        /\ ("decomp" \in uncounted' => ~joined')
    BY <1>0 DEF Types
  <2> QED BY <2>1, <1>0, CompressorSame
<1>2. Link!IInv'
  <2>1. NoOut' \in Link!OutBuff
    BY DEF NoOut, Link!OutBuff
  <2> QED BY <2>1, <1>0, <1>1, Assumptions, Link!OutStep
<1>3. /\ mem' \in [Link!Area -> Link!Cell] /\ DataThere'
      /\ DOMAIN mem' = DOMAIN mem /\ \A p \in DOMAIN mem : p < dpos => mem'[p] = mem[p]
  BY CutShort
<1>4. StoreInv' /\ ChanApart' /\ DataKept'
  BY <1>0, <1>3 DEF StoreInv, Storing, ChanApart, DataKept, Session
<1>5. CrcSays'
  <2>1. DOver' = DOver
    BY <1>0 DEF DOver
  <2>2. (CrcReadable' <=> CrcReadable) /\ LastBlockCrc' = LastBlockCrc
    BY <1>0, <1>3, SameCrc
  <2>3. \A s : SlotOf(s)' = SlotOf(s) /\ EndOf(s)' = EndOf(s)
    BY <1>1 DEF SlotOf, EndOf
  <2> QED BY <2>1, <2>2, <2>3, <1>0, <1>1 DEF CrcSays, Before
<1> QED BY <1>0, <1>1, <1>2, <1>4, <1>5 DEF EndsInv, Relation, Session

(* It reads its index again.                                               *)
LEMMA DecompressorLoadsStep ==
  ASSUME EndsInv, DecompressorLoads
  PROVE  EndsInv'
<1>0. /\ Types /\ Ring /\ Up /\ CallInv /\ Relation /\ Link!IInv /\ StoreInv /\ CrcSays /\ DataKept
      /\ UNCHANGED <<compVars, mem, dpos, last_block_size, dtotal, dnb, tmp, chan, coming, got,
                     joined, uncounted, cut>>
      /\ dpc = "down" /\ dpc' = "idle"
  BY DEF EndsInv, Relation, DecompressorLoads, DecLoad, dfile, dmem, history
<1>1. /\ Types' /\ Ring' /\ Up' /\ CallInv' /\ Unmoved /\ slots' = slots
      /\ Held' = Held /\ VBlk' = VBlk /\ VNb' = VNb /\ VPos' = VPos
      /\ VEdge' = VEdge /\ VFault' = VFault /\ nb_total_block' = nb_total_block
  <2>1. /\ uncounted' \subseteq {"comp", "decomp"} /\ joined' \in BOOLEAN
        /\ ("comp" \in uncounted' <=> "comp" \in uncounted)
        /\ ("decomp" \in uncounted' => ~joined')
    BY <1>0 DEF Types
  <2> QED BY <2>1, <1>0, CompressorSame
<1>2. Link!IInv'
  <2>1. NoOut' \in Link!OutBuff
    BY DEF NoOut, Link!OutBuff
  <2> QED BY <2>1, <1>0, <1>1, Assumptions, Link!OutStep
<1>3. ~Session /\ ~Session' /\ ~joined /\ ~joined' /\ chan' = <<>>
  BY <1>0 DEF StoreInv, Session
<1>4. \A s : SlotOf(s)' = SlotOf(s) /\ EndOf(s)' = EndOf(s)
  BY <1>1 DEF SlotOf, EndOf
<1>5. StoreInv' /\ ChanApart'
  BY <1>0, <1>3 DEF StoreInv, Storing, ChanApart
<1>6. DataKept'
  BY <1>0, <1>1, <1>3, <1>4 DEF DataKept, DataThere
<1>7. CrcSays'
  <2>1. DOver' = DOver
    BY <1>0 DEF DOver
  <2>2. (CrcReadable' <=> CrcReadable) /\ LastBlockCrc' = LastBlockCrc
    BY <1>0 DEF CrcReadable, LastBlockCrc, ReadMem
  <2> QED BY <2>1, <2>2, <1>0, <1>1, <1>4 DEF CrcSays, Before
<1> QED BY <1>1, <1>2, <1>3, <1>5, <1>6, <1>7 DEF EndsInv, Relation

-----------------------------------------------------------------------------
(* Both ends start anew.                                                   *)
Anew ==
  CompInit /\ DecInit /\ chan = <<>> /\ coming = NoKey /\ joined = TRUE /\ uncounted = {} /\ cut = 0

LEMMA Beginnings ==
  /\ Init => Anew
  /\ StartAnew => Anew'
<1>1. Init => Anew
  BY DEF Init, Anew
<1>2. StartAnew => Anew'
  BY DEF StartAnew, Anew, CompCreate, CompInit, DecCreate, DecInit
<1> QED BY <1>1, <1>2

LEMMA FromAnew == Anew => EndsInv
<1> SUFFICES ASSUME Anew PROVE EndsInv
  OBVIOUS
<1>1. /\ slots = Blank /\ cache_idx_head = 0 /\ cache_idx_tail = 0
      /\ nb_block = 0 /\ nb_total_block = 0 /\ data_pos_wr = 0
      /\ list = <<>> /\ edge = FALSE /\ pc = "idle" /\ dropping = FALSE /\ cur = NoBlock
      /\ mem = DBlank /\ dpos = 0 /\ last_block_size = 0 /\ dtotal = 0 /\ dnb = 0
      /\ tmp = <<>> /\ dpc = "idle"
      /\ chan = <<>> /\ coming = NoKey /\ joined = TRUE /\ uncounted = {} /\ cut = 0
  BY DEF Anew, CompInit, DecInit
<1>2. /\ NbBlkIdx \in Nat /\ NbBlkIdx >= 2 /\ Slots = 0..(NbBlkIdx - 1) /\ MaxTotal \in Nat
      /\ 0 \in Slots /\ 0 % NbBlkIdx = 0
  BY Constants
<1>3. Over = 0 /\ Linked = 0 /\ HeadNo = 0 /\ Held = {}
  <2>1. Over = 0
    BY <1>1 DEF Over
  <2>2. Linked = 0
    BY <2>1, <1>1 DEF Linked
  <2>3. HeadNo = 0
    BY <2>2, <1>1, <1>2 DEF HeadNo
  <2> QED BY <2>1, <2>2, <2>3, <1>1 DEF Held
<1>4. VNb = 0 /\ VPos = 0 /\ VEdge = FALSE /\ VFault = FALSE
      /\ VBlk = [s \in {} |-> Link!NoOut]
  <2>1. VBlk = [s \in {} |-> Link!NoOut]
    BY <1>3 DEF VBlk
  <2> QED BY <2>1, <1>1, <1>2, <1>3 DEF VNb, VPos, VEdge, VFault
<1>5. Types
  <2>1. slots \in [Slots -> Steps!SlotEntry]
    BY <1>1 DEF Blank, Steps!SlotEntry
  <2>2. cur \in [key : Keys \cup {NoKey}, off : Nat, left : Int]
    BY <1>1 DEF NoBlock
  <2>3. 0 \in 0..NbBlkIdx /\ 0 \in 0..MaxTotal
    BY <1>2
  <2> QED BY <2>1, <2>2, <2>3, <1>1, <1>2 DEF Types
<1>6. Ring
  BY <1>1, <1>2, <1>3 DEF Ring
<1>7. Up
  <2>1. Steps!Behind = 0 /\ Steps!Ahead = 0 /\ Steps!Counted = 0 /\ Steps!Oldest = 0
    <3>1. Steps!Behind = 0 /\ Steps!Ahead = 0 /\ Steps!Counted = 0
      BY <1>1 DEF Steps!Behind, Steps!Ahead, Steps!Counted
    <3>2. Len(list) = 0
      BY <1>1
    <3> QED BY <3>1, <3>2 DEF Steps!Oldest
  <2>2. Steps!Types
    <3>1. list \in Seq(Steps!Slots)
      BY <1>1
    <3>2. pc = "idle" /\ dropping = FALSE /\ edge = FALSE
      BY <1>1
    <3>3. 0 \in Steps!Slots
      BY <1>2 DEF Steps!Slots
    <3>4. cache_idx_head \in Steps!Slots /\ cache_idx_tail \in Steps!Slots
          /\ nb_block \in Nat /\ nb_total_block \in Nat /\ nb_total_block <= MaxTotal
      BY <3>3, <1>1, <1>2
    <3> QED BY <3>1, <3>2, <3>4 DEF Steps!Types, Steps!Apart, Steps!Loading, Steps!InCall
  <2>3. Steps!Stretch
    BY <2>1, <1>1, <1>2 DEF Steps!Stretch, Steps!Round
  <2>4. Steps!Beginning
    BY <2>1, <1>1, <1>2 DEF Steps!Beginning
  <2>5. Steps!RefUp
    BY <2>1, <1>1, <1>2 DEF Steps!RefUp
  <2> QED BY <2>2, <2>3, <2>4, <2>5, <1>1 DEF Up, Steps!TornInv, Steps!Apart, Steps!Loading
<1>8. CallInv
  BY <1>1, <1>4 DEF CallInv, Steps!InCall
<1>9. Link!IInv
  <2>1. Link!Init
    BY <1>1, <1>4 DEF Link!Init, NoOut, Link!NoOut
  <2> QED BY <2>1, Assumptions, Link!Initially
<1>10. Link!LinkInv
  <2>1. VMem = Link!Blank /\ VDpos = 0 /\ VTotal = 0 /\ VSize = 0
    BY <1>1 DEF VMem, VDpos, VTotal, VSize, Laying, Storing, DBlank, Link!Blank
  <2> QED BY <2>1, <1>1, <1>4, <1>9, Assumptions, Link!BlankStart
<1>11. StoreInv
  <2>1. mem \in [Link!Area -> Link!Cell]
    BY <1>1 DEF DBlank, Link!Area, Link!Cell
  <2> QED BY <2>1, <1>1 DEF StoreInv, Storing
<1>12. ChanApart /\ CrcSays /\ DataKept
  BY <1>1 DEF ChanApart, CrcSays, DataKept, Storing, Session, Settling
<1> QED BY <1>5, <1>6, <1>7, <1>8, <1>9, <1>10, <1>11, <1>12 DEF EndsInv, Relation

(* Blank data has no block's crc.                                          *)
LEMMA BlankCrc ==
  mem = DBlank /\ last_block_size \in Nat /\ last_block_size > 0 =>
    \A k \in Keys : LastBlockCrc # Bytes(k)
<1> SUFFICES ASSUME mem = DBlank, NEW k \in Keys, LastBlockCrc = Bytes(k),
                    NEW n \in Nat, n = last_block_size, n > 0
             PROVE  FALSE
  OBVIOUS
<1>1. LastBlockCrc = [i \in 1..n |-> IF dpos - n + i - 1 \in DOMAIN DBlank
                                      THEN DBlank[dpos - n + i - 1] ELSE Hole]
  BY DEF LastBlockCrc, ReadMem
<1>2. 1 \in 1..n /\ \A p \in DOMAIN DBlank : DBlank[p] = Hole
  BY DEF DBlank
<1>3. LastBlockCrc[1] = Hole
  BY <1>1, <1>2
<1>4. Bytes(k)[1] = <<k, 1>>
  BY BytesFacts
<1>5. <<k, 1>> # Hole
  BY CrashLinkAssumption
<1> QED BY <1>3, <1>4, <1>5

(* The decompressor dies while it makes its files anew: the index it had   *)
(* then goes with blank data, which no block's crc is that of.             *)
LEMMA CreationDiesStep ==
  ASSUME EndsInv, CreationDies
  PROVE  EndsInv'
<1>0. /\ Types /\ Ring /\ Up /\ CallInv /\ Relation /\ Link!IInv /\ StoreInv /\ CrcSays
      /\ UNCHANGED <<compVars, dpos, last_block_size, dtotal, dnb, tmp, chan, coming, got,
                     joined, uncounted, cut>>
      /\ dpc = "down" /\ dpc' = "down" /\ mem' = DBlank
  BY DEF EndsInv, Relation, CreationDies, DecCreateDies, dmem, history
<1>1. /\ Types' /\ Ring' /\ Up' /\ CallInv' /\ Unmoved /\ slots' = slots
      /\ Held' = Held /\ VBlk' = VBlk /\ VNb' = VNb /\ VPos' = VPos
      /\ VEdge' = VEdge /\ VFault' = VFault /\ nb_total_block' = nb_total_block
  <2>1. /\ uncounted' \subseteq {"comp", "decomp"} /\ joined' \in BOOLEAN
        /\ ("comp" \in uncounted' <=> "comp" \in uncounted)
        /\ ("decomp" \in uncounted' => ~joined')
    BY <1>0 DEF Types
  <2> QED BY <2>1, <1>0, CompressorSame
<1>2. Link!IInv'
  <2>1. NoOut' \in Link!OutBuff
    BY DEF NoOut, Link!OutBuff
  <2> QED BY <2>1, <1>0, <1>1, Assumptions, Link!OutStep
<1>3. ~Session /\ ~Session' /\ ~joined /\ ~joined' /\ chan' = <<>>
  BY <1>0 DEF StoreInv, Session
<1>4. StoreInv' /\ ChanApart'
  <2>1. mem' \in [Link!Area -> Link!Cell]
    BY <1>0 DEF DBlank, Link!Area, Link!Cell
  <2> QED BY <2>1, <1>0, <1>3 DEF StoreInv, Storing, ChanApart
<1>5. DataKept'
  BY <1>0 DEF DataKept, DataThere, DBlank
<1>6. CrcSays'
  <2>1. dtotal > 0 => \A k \in Keys : LastBlockCrc' # Bytes(k)
    <3>1. dtotal > 0 => (mem = DBlank /\ last_block_size \in Nat /\ last_block_size > 0)'
      BY <1>0 DEF StoreInv, DBlank
    <3>2. (mem = DBlank /\ last_block_size \in Nat /\ last_block_size > 0)' =>
            (\A k \in Keys : LastBlockCrc # Bytes(k))'
      BY BlankCrc, PTL
    <3> QED BY <3>1, <3>2 DEF Bytes
  <2>2. dtotal' = dtotal /\ dtotal' <= nb_total_block'
    BY <1>0, <1>1 DEF CrcSays
  <2> QED BY <2>1, <2>2 DEF CrcSays
<1> QED BY <1>1, <1>2, <1>3, <1>4, <1>5, <1>6 DEF EndsInv, Relation

-----------------------------------------------------------------------------
(* Going back to the decompressor's block: which block comp_load_dre_cache *)
(* comes to, ...                                                           *)
LEMMA SoundKind ==
  ASSUME SoundResumes, Resume, dtotal \in Nat, cut \in Nat
  PROVE  dtotal > 0 /\ cut = 0 /\ LoadIsSound(dtotal) /\ ~BothUncounted
<1>1. ResumeKind = "sound"
  BY DEF SoundResumes, Resume
<1>2. dtotal # 0
  BY <1>1 DEF ResumeKind
<1>3. dtotal > 0
  BY <1>2
<1>4. ~(cut > 0)
  BY <1>1, <1>2, <1>3 DEF ResumeKind
<1>5. cut = 0
  BY <1>4
<1>6. LoadIsSound(dtotal)
  BY <1>1, <1>2, <1>3, <1>4, <1>5 DEF ResumeKind
<1>7. ~BothUncounted
  BY <1>1, <1>2, <1>3, <1>4, <1>5, <1>6 DEF ResumeKind
<1> QED BY <1>3, <1>5, <1>6, <1>7

LEMMA CameTo ==
  ASSUME Types, Ring, StoreInv, SoundResumes, Resume,
         NEW c, c = LoadCount(dtotal), NEW T, T = dtotal
  PROVE  /\ CompLoad(T) /\ CrcAgrees /\ LoadIsSound(T) /\ cut = 0 /\ ~BothUncounted
         /\ dpc = "idle" /\ pc = "down"
         /\ c \in 1..NbBlkIdx /\ c = (T + Over) - Linked /\ T > 0 /\ T <= nb_total_block
         /\ MaxCount(T) = c /\ LastLoaded(T) = SlotOf(HeadNo + c - 1)
         /\ Len(list') = c /\ list' \in Seq(Slots)
         /\ \A i \in 1..Len(list') : list'[i] = Steps!Round(cache_idx_head + i - 1)
         /\ LoadEnd' = Steps!Round(cache_idx_head + c)
<1> DEFINE h == cache_idx_head
           t == cache_idx_tail
           n == IF h < t THEN t - h ELSE NbBlkIdx - h + t
           x == nb_block - (nb_total_block - T)
<1>1. T \in Nat /\ T > 0 /\ cut = 0 /\ LoadIsSound(T) /\ ~BothUncounted /\ dpc = "idle"
  BY SoundKind DEF Types, StoreInv, Resume
<1>2. /\ NbBlkIdx \in Nat /\ NbBlkIdx >= 2 /\ Slots = 0..(NbBlkIdx - 1)
      /\ h \in 0..(NbBlkIdx - 1) /\ t \in 0..(NbBlkIdx - 1)
      /\ nb_block \in Nat /\ nb_block <= NbBlkIdx
      /\ nb_total_block \in Nat /\ nb_total_block <= MaxTotal /\ MaxTotal \in Nat
      /\ T <= nb_total_block /\ Over \in {0, 1}
      /\ HeadNo \in Nat /\ h = HeadNo % NbBlkIdx
      /\ Steps!Slots = Slots
  BY <1>1, Constants, RingFacts DEF Types, Ring, LoadIsSound, Over, Steps!Slots, Slots
<1>3. n \in Nat /\ n <= NbBlkIdx
  BY <1>2
<1> HIDE DEF n
<1>4. RingOrder = [i \in 1..n |-> (h + i - 1) % NbBlkIdx]
  BY DEF RingOrder, n
<1>5. \A i \in 1..n : /\ (h + i - 1) % NbBlkIdx = Steps!Round(h + i - 1)
                      /\ Steps!Round(h + i - 1) \in Slots
  <2>1. \A i \in 1..n : h + i - 1 \in 0..(2 * NbBlkIdx - 1)
    BY <1>2, <1>3
  <2> QED BY <2>1, <1>2, Assumptions, Steps!RoundLemma
<1>6. RingOrder \in Seq(Slots) /\ Len(RingOrder) = n
  BY <1>3, <1>4, <1>5
<1>7. MaxCount(T) = x % Wrap /\ MaxCount(T) \in 1..n
  BY <1>1, <1>6 DEF LoadIsSound, MaxCount
<1>8. MaxCount(T) = x
  <2>1. /\ \A y \in 0..(Wrap - 1) : y % Wrap = y
        /\ \A y \in Int : y < 0 /\ y + Wrap >= 0 => y % Wrap = y + Wrap
        /\ Wrap \in Nat /\ Wrap > MaxTotal + NbBlkIdx
    BY Assumptions, Steps!WrapLemma
  <2>2. x \in Int /\ x <= NbBlkIdx /\ x + MaxTotal >= 0
    BY <1>1, <1>2
  <2> HIDE DEF x
  <2>3. CASE x >= 0
    <3>1. x \in 0..(Wrap - 1)
      BY <2>1, <2>2, <2>3, <1>2
    <3> QED BY <3>1, <2>1, <1>7
  <2>4. CASE x < 0
    <3>1. x + Wrap >= 0 /\ x + Wrap > NbBlkIdx
      BY <2>1, <2>2, <1>2
    <3>2. x % Wrap = x + Wrap
      BY <2>1, <2>2, <2>4, <3>1
    <3> QED BY <3>1, <3>2, <1>2, <1>3, <1>7
  <2> QED BY <2>2, <2>3, <2>4
<1>9. c = x /\ c \in 1..n
  <2>1. c = MaxCount(T)
    <3>1. c = IF T > 0 /\ MaxCount(T) < n THEN MaxCount(T) ELSE n
      BY <1>6 DEF LoadCount
    <3> QED BY <3>1, <1>1, <1>3, <1>7
  <2> QED BY <2>1, <1>7, <1>8
<1>a. /\ CompLoad(T) /\ CrcAgrees /\ pc = "down" /\ list' = SubSeq(RingOrder, 1, c)
      /\ UNCHANGED <<cache_idx_head, cache_idx_tail>>
  <2>1. LoadCount(dtotal) # 0
    BY <1>9, <1>3
  <2>2. CompLoad(T) /\ CrcAgrees
    BY <2>1 DEF Resume
  <2> QED BY <2>2 DEF CompLoad, file
<1>10. c \in 1..NbBlkIdx /\ c = (T + Over) - Linked
  BY <1>1, <1>2, <1>3, <1>9 DEF Linked
<1>11. LastLoaded(T) = SlotOf(HeadNo + c - 1)
  <2>1. RingOrder[c] = Steps!Round(h + c - 1)
    BY <1>4, <1>5, <1>9
  <2>2. c - 1 \in 0..NbBlkIdx
    BY <1>2, <1>10
  <2>3. (HeadNo + (c - 1)) % NbBlkIdx = Steps!Round(h + (c - 1))
    BY <2>2, <1>2, Assumptions, Steps!SlotLemma
  <2>4. HeadNo + (c - 1) = HeadNo + c - 1 /\ h + (c - 1) = h + c - 1
    BY <1>2, <1>10
  <2> QED BY <2>1, <2>3, <2>4 DEF LastLoaded, SlotOf
<1>12. /\ Len(list') = c /\ list' \in Seq(Slots)
       /\ \A i \in 1..Len(list') : list'[i] = Steps!Round(h + i - 1)
  <2>1. c \in Nat /\ c <= n
    BY <1>3, <1>9
  <2>2. Len(list') = c /\ \A i \in 1..c : list'[i] = RingOrder[i]
    BY <2>1, <1>a, <1>6
  <2>3. list' \in Seq(Slots)
    BY <2>1, <1>a, <1>6
  <2>4. \A i \in 1..c : list'[i] = Steps!Round(h + i - 1)
    <3> SUFFICES ASSUME NEW i \in 1..c PROVE list'[i] = Steps!Round(h + i - 1)
      OBVIOUS
    <3>1. i \in 1..n
      BY <2>1, <1>3
    <3>2. RingOrder[i] = (h + i - 1) % NbBlkIdx
      BY <3>1, <1>4
    <3> QED BY <3>1, <3>2, <2>2, <1>5
  <2> QED BY <2>2, <2>3, <2>4
<1>13. LoadEnd' = Steps!Round(h + c)
  <2>1. LoadEnd' = IF h < t THEN h + c ELSE IF c > NbBlkIdx - h THEN c - (NbBlkIdx - h) ELSE 0
    BY <1>a, <1>12 DEF LoadEnd
  <2>2. CASE h < t
    <3>1. LoadEnd' = h + c /\ h + c <= t
      BY <2>1, <2>2, <1>2, <1>9 DEF n
    <3> QED BY <3>1, <1>2, <1>10 DEF Steps!Round
  <2>3. CASE ~(h < t)
    <3>1. c >= NbBlkIdx - h
      <4>1. c = MaxCount(T)
        BY <1>8, <1>9
      <4> QED BY <4>1, <2>3, <1>1 DEF LoadIsSound
    <3>2. LoadEnd' = IF c > NbBlkIdx - h THEN c - (NbBlkIdx - h) ELSE 0
      BY <2>1, <2>3
    <3> QED BY <3>1, <3>2, <1>2, <1>10 DEF Steps!Round
  <2> QED BY <2>2, <2>3
<1> QED BY <1>1, <1>2, <1>8, <1>9, <1>a, <1>10, <1>11, <1>12, <1>13

(* A block's crc is one of bytes that all lie in the mapping.              *)
LEMMA CrcInside ==
  ASSUME StoreInv, dtotal > 0, NEW k \in Keys, LastBlockCrc = Bytes(k)
  PROVE  CrcReadable
<1> SUFFICES ASSUME ~CrcReadable PROVE FALSE
  OBVIOUS
<1>1. PICK n : n = last_block_size
  OBVIOUS
<1>2. PICK d : d = dpos
  OBVIOUS
<1>3. n \in Nat /\ n > 0 /\ d \in Nat /\ d < n /\ DOMAIN mem = Link!Area
  BY <1>1, <1>2 DEF StoreInv, CrcReadable
<1>4. LastBlockCrc = [i \in 1..n |-> IF d - n + i - 1 \in DOMAIN mem
                                      THEN mem[d - n + i - 1] ELSE Hole]
  BY <1>1, <1>2 DEF LastBlockCrc, ReadMem
<1>5. 1 \in 1..n /\ d - n + 1 - 1 \notin Link!Area
  BY <1>3 DEF Link!Area
<1>6. LastBlockCrc[1] = Hole
  BY <1>3, <1>4, <1>5
<1>7. Bytes(k)[1] = <<k, 1>> /\ <<k, 1>> # Hole
  BY BytesFacts, CrashLinkAssumption
<1> QED BY <1>6, <1>7

(* ... and that the crc lets only the decompressor's last block pass.      *)
LEMMA CameToLast ==
  ASSUME EndsInv, SoundResumes, Resume, NEW T, T = dtotal, NEW H, H = HeadNo
  PROVE  /\ T \in Nat /\ H \in Nat /\ H < T /\ T <= nb_total_block
         /\ LoadCount(T) = T - H /\ Over = 0 /\ Linked = H
         /\ T - 1 \in Held /\ dpos = EndOf(T - 1)
         /\ "decomp" \notin uncounted /\ mem # DBlank
<1>0. /\ Types /\ Ring /\ Link!IInv /\ StoreInv /\ CrcSays
      /\ dpc = "idle" /\ pc = "down" /\ cut = 0 /\ ~BothUncounted
      /\ Bytes(LastLoaded(T).key) = LastBlockCrc
  BY CameTo DEF EndsInv, Relation, CrcAgrees
<1>1. PICK c : c = LoadCount(T)
  OBVIOUS
<1>2. PICK N : N = nb_total_block
  OBVIOUS
<1>3. T \in Nat /\ last_block_size \in Nat /\ (T > 0 => last_block_size > 0)
  BY <1>0 DEF StoreInv
<1>4. /\ c \in Nat /\ c >= 1 /\ c = (T + Over) - Linked /\ T > 0 /\ T <= N
      /\ LastLoaded(T) = SlotOf(H + c - 1)
  BY <1>0, <1>1, <1>2, <1>3, CameTo, Constants
<1>5. /\ H \in Nat /\ N \in Nat /\ H <= N /\ Over \in {0, 1} /\ Linked \in {H, H + 1}
      /\ \A s : s \in Held <=> s \in H..(N - 1)
      /\ \A s \in Held : SlotOf(s).key \in Keys
  <2>1. Linked \in Int
    BY <1>0 DEF Types, Linked, Over
  <2> QED BY <2>1, <1>0, <1>2, RingFacts DEF HeadNo, Over, Held
<1>6. PICK ll : ll = H + c - 1
  OBVIOUS
<1>7. PICK k : k = SlotOf(ll).key
  OBVIOUS
<1>8. /\ ll \in Nat /\ H <= ll
      /\ Over = 0 /\ Linked = H => ll = T - 1
      /\ Over = 0 /\ Linked = H + 1 => ll = T - 2
      /\ Over = 1 => Linked = H /\ ll = T /\ SlotOf(N).key \in Keys /\ ~VFault
                     /\ \A s \in Held : SlotOf(s).key # SlotOf(N).key
  <2>1. Over = 1 => Linked = H /\ SlotOf(N).key \in Keys /\ ~VFault
                    /\ \A s \in Held : SlotOf(s).key # SlotOf(N).key
    BY <1>0, <1>2 DEF Ring
  <2> QED BY <2>1, <1>3, <1>4, <1>5, <1>6
<1>9. k \in Keys /\ LastBlockCrc = Bytes(k)
  <2>1. (Over = 1 /\ T = N) \/ ll \in Held
    BY <1>3, <1>4, <1>5, <1>8
  <2>2. k \in Keys
    BY <2>1, <1>5, <1>7, <1>8
  <2> QED BY <2>2, <1>0, <1>4, <1>6, <1>7
<1>b. CrcReadable
  BY <1>0, <1>4, <1>9, CrcInside
<1>10. IF DOver THEN T < N /\ Before(T + 1, k)
       ELSE /\ Before(T, k)
            /\ T - 1 \in Held => dpos = EndOf(T - 1)
  BY <1>0, <1>2, <1>4, <1>9, <1>b DEF CrcSays
<1>11. \A s, t \in Held : SlotOf(s).key = SlotOf(t).key => s = t
  BY <1>0, OneOfEachKey
<1>12. ~DOver
  <2> SUFFICES ASSUME DOver PROVE FALSE
    OBVIOUS
  <2>1. "decomp" \in uncounted
    BY <1>0 DEF DOver
  <2>2. Over = 0
    <3>1. Over = 1 => "comp" \in uncounted
      BY <1>0 DEF Over
    <3>2. uncounted \subseteq {"comp", "decomp"}
      BY <1>0 DEF Types
    <3>3. "comp" \notin uncounted
      BY <1>0, <2>1, <3>2 DEF BothUncounted
    <3> QED BY <3>1, <3>3, <1>5
  <2>3. ll < T /\ ll \in Held /\ T \in Held
    BY <2>2, <1>3, <1>4, <1>5, <1>8, <1>10
  <2>4. SlotOf(T).key = k
    <3>1. (T + 1) - 1 = T
      BY <1>3
    <3> QED BY <3>1, <2>3, <1>10 DEF Before
  <2> QED BY <2>3, <2>4, <1>3, <1>7, <1>8, <1>11
<1>13. /\ T - 1 \in Held => SlotOf(T - 1).key = k /\ dpos = EndOf(T - 1)
       /\ T \in Held => SlotOf(T).key # k
  BY <1>10, <1>12 DEF Before
<1>14. Over = 0
  <2> SUFFICES ASSUME Over = 1 PROVE FALSE
    BY <1>5
  <2>1. ll = T /\ SlotOf(T).key = k
    BY <1>7, <1>8
  <2>2. CASE T < N
    BY <2>1, <2>2, <1>3, <1>5, <1>8, <1>13
  <2>3. CASE T = N
    <3>1. H < N
      BY <2>3, <1>2, <1>4, <1>5, <1>8 DEF VFault
    <3>2. T - 1 \in Held
      BY <2>3, <3>1, <1>5
    <3> QED BY <2>1, <2>3, <3>2, <1>8, <1>13
  <2> QED BY <2>2, <2>3, <1>3, <1>4, <1>5
<1>15. Linked = H
  <2> SUFFICES ASSUME Linked = H + 1 PROVE FALSE
    BY <1>5
  <2>1. ll = T - 2 /\ ll \in Held /\ T - 1 \in Held /\ ll # T - 1
    BY <1>3, <1>4, <1>5, <1>8, <1>14
  <2> QED BY <2>1, <1>7, <1>11, <1>13
<1>16. ll = T - 1 /\ T - 1 \in Held /\ H < T /\ c = T - H
  BY <1>3, <1>4, <1>5, <1>8, <1>14, <1>15
<1>17. mem # DBlank
  BY <1>3, <1>4, <1>9, BlankCrc
<1>18. "decomp" \notin uncounted
  BY <1>12 DEF DOver
<1> QED BY <1>1, <1>2, <1>3, <1>4, <1>5, <1>13, <1>14, <1>15, <1>16, <1>17, <1>18

(* A load begins: the two are connected, and the list is the blocks up to  *)
(* the decompressor's last one.                                            *)
LEMMA ResumeStep ==
  ASSUME EndsInv, SoundResumes, Resume
  PROVE  EndsInv' /\ Reload'
<1> PICK T : T = dtotal
  OBVIOUS
<1> PICK H : H = HeadNo
  OBVIOUS
<1> PICK N : N = nb_total_block
  OBVIOUS
<1>1. /\ T \in Nat /\ H \in Nat /\ H < T /\ T <= N
      /\ LoadCount(T) = T - H /\ Over = 0 /\ Linked = H
      /\ T - 1 \in Held /\ dpos = EndOf(T - 1)
      /\ "decomp" \notin uncounted /\ mem # DBlank
  BY CameToLast
<1>2. /\ CompLoad(T) /\ LoadIsSound(T) /\ cut = 0 /\ T > 0 /\ dpc = "idle" /\ pc = "down"
      /\ MaxCount(T) = T - H
      /\ Len(list') = T - H /\ list' \in Seq(Slots)
      /\ \A i \in 1..Len(list') : list'[i] = Steps!Round(cache_idx_head + i - 1)
      /\ LoadEnd' = Steps!Round(cache_idx_head + (T - H))
  BY <1>1, CameTo DEF EndsInv, Relation
<1>3. /\ UNCHANGED file /\ UNCHANGED <<slots, cache_idx_head, nb_block, nb_total_block>>
      /\ UNCHANGED <<dropping, decVars, coming, got, cut, mem, dpos, dtotal, dpc>>
      /\ edge' = (nb_total_block > nb_block) /\ cur' = [NoBlock EXCEPT !.left = T] /\ pc' = "tail"
      /\ chan' = <<>> /\ joined' = TRUE /\ uncounted' = {}
  BY <1>2 DEF Resume, CompLoad, file, decVars, dfile
<1>4. /\ Types /\ Ring /\ Relation /\ ~dropping
      /\ nb_block \in Nat /\ nb_block <= NbBlkIdx /\ NbBlkIdx \in Nat /\ N \in Nat
      /\ nb_block = N - H /\ ~(nb_block = NbBlkIdx /\ N = NbBlkIdx)
  <2>1. Types /\ Ring /\ Relation /\ N \in Nat
    BY RingFacts DEF EndsInv
  <2>2. /\ ~dropping /\ nb_block \in Nat /\ nb_block <= NbBlkIdx /\ NbBlkIdx \in Nat
    BY <2>1, <1>2, Constants DEF Types, Steps!Apart
  <2>3. nb_block = N - H
    BY <2>1, <2>2, <1>1 DEF Linked
  <2> QED BY <2>1, <2>2, <2>3, <1>2 DEF LoadIsSound
<1>5. Over' = Over /\ Over' = 0
  BY <1>1, <1>2, <1>3 DEF Over
<1>6. HeadNo' = H /\ Linked' = H /\ Ring'
  <2>1. HeadNo' = H /\ Ring'
    BY <1>3, <1>4, <1>5, FileKept
  <2>2. Linked' = H
    BY <1>1, <1>3, <1>5 DEF Linked
  <2> QED BY <2>1, <2>2
<1>7. Types'
  <2>1. cur' \in [key : Keys \cup {NoKey}, off : Nat, left : Int]
    <3>1. cur' = [NoBlock EXCEPT !.left = T]
      BY <1>3
    <3>2. cur' = [key |-> NoKey, off |-> 0, left |-> T]
      BY <3>1 DEF NoBlock
    <3> QED BY <3>2, <1>1
  <2> QED BY <2>1, <1>2, <1>3, <1>4 DEF Types, file
<1>8. Up' /\ CallInv'
  BY <1>3 DEF Up, CallInv, Steps!Apart, Steps!Loading, Steps!InCall
<1>9. Relation'
  <2>1. ~Session'
    BY <1>3 DEF Session, Settling
  <2>2. DOver' = DOver
    BY <1>1, <1>2, <1>3 DEF DOver
  <2> QED BY <2>1, <2>2, <1>2, <1>3, <1>4, <1>6, Parted
<1>10. Reload'
  <2>1. /\ cur'.left = T /\ dtotal' = T /\ T - 1 \in Held' /\ dpos' = EndOf(T - 1)'
    <3>1. Held' = Held
      BY <1>3, <1>6 DEF Held
    <3>2. EndOf(T - 1)' = EndOf(T - 1)
      BY <1>3 DEF EndOf, SlotOf
    <3>3. cur'.left = T
      <4>1. cur' = [NoBlock EXCEPT !.left = T]
        BY <1>3
      <4> QED BY <4>1 DEF NoBlock
    <3>4. dtotal' = T /\ dpos' = dpos
      BY <1>3
    <3> QED BY <3>1, <3>2, <3>3, <3>4, <1>1
  <2>2. H = 0 => N < NbBlkIdx
    BY <1>1, <1>4
  <2>3. edge' = (H > 0)
    BY <1>1, <1>3, <1>4
  <2>4. MaxCount(dtotal)' = T - H
    BY <1>2, <1>3 DEF MaxCount
  <2> QED BY <2>1, <2>2, <2>3, <2>4, <1>1, <1>2, <1>3, <1>6 DEF Reload
<1> QED BY <1>6, <1>7, <1>8, <1>9, <1>10 DEF EndsInv

(* What a load in progress has to go by.                                   *)
LEMMA ReloadFacts ==
  ASSUME Types, Ring, StoreInv, Reload, pc \in Loading,
         NEW T, T = dtotal, NEW H, H = HeadNo, NEW N, N = nb_total_block
  PROVE  /\ T \in Nat /\ H \in Nat /\ N \in Nat /\ H < T /\ T <= N /\ N <= MaxTotal
         /\ T - H <= NbBlkIdx /\ N - H <= NbBlkIdx
         /\ list \in Seq(Slots) /\ Len(list) = T - H /\ list # <<>>
         /\ cache_idx_head = H % NbBlkIdx /\ cache_idx_head \in Slots
         /\ Steps!Round(cache_idx_head + (T - H)) \in Slots
         /\ \A s \in H..(N - 1) : s \in Held /\ SlotOf(s).key \in Keys
         /\ ~dropping /\ uncounted = {} /\ cur.left = T /\ ~VFault
         /\ Linked = H /\ Over = IF pc = "nb_total" THEN T - N ELSE 0
<1>1. /\ T \in Nat /\ H \in Nat /\ N \in Nat /\ H <= N /\ N - H <= NbBlkIdx /\ N <= MaxTotal
  BY RingFacts DEF StoreInv
<1>2. T - 1 \in Held /\ Len(list) = T - H /\ list \in Seq(Slots) /\ uncounted = {} /\ cur.left = T
      /\ Linked = H
  BY DEF Reload
<1>3. H < T /\ T <= N
  BY <1>1, <1>2 DEF Held
<1>4. list # <<>>
  <2>1. Len(list) # 0
    BY <1>1, <1>2, <1>3
  <2>2. Len(<<>>) = 0
    OBVIOUS
  <2> QED BY <2>1, <2>2, Zenon
<1>5. cache_idx_head = H % NbBlkIdx /\ cache_idx_head \in Slots
  BY DEF Types, Ring
<1>6. Steps!Round(cache_idx_head + (T - H)) \in Slots
  <2>1. cache_idx_head + (T - H) \in 0..(2 * NbBlkIdx - 1)
    BY <1>1, <1>3, <1>5, Constants
  <2>2. Steps!Slots = Slots
    BY DEF Steps!Slots, Slots
  <2> QED BY <2>1, <2>2, Assumptions, Steps!RoundLemma
<1>7. \A s \in H..(N - 1) : s \in Held /\ SlotOf(s).key \in Keys
  BY <1>1, RingFacts DEF Held
<1>8. ~dropping
  BY DEF Types, Steps!Apart, Loading, Steps!Loading
<1>9. Over = IF pc = "nb_total" THEN T - N ELSE 0
  <2>1. Over = 0 - cut /\ cut \in Nat
    BY <1>2 DEF Over, Loading, Types
  <2>2. CASE pc = "nb_total"
    <3>1. cut = N - T
      BY <2>2 DEF Reload
    <3> QED BY <3>1, <2>1, <2>2, <1>1
  <2>3. CASE pc # "nb_total"
    <3>1. ~(cut > 0)
      BY <2>3 DEF Types, Loading
    <3> QED BY <3>1, <2>1, <2>3
  <2> QED BY <2>2, <2>3
<1>10. ~VFault
  BY <1>1, <1>3 DEF VFault
<1>11. T - H <= NbBlkIdx
  BY <1>1, <1>3, Constants
<1> QED BY <1>1, <1>2, <1>3, <1>4, <1>5, <1>6, <1>7, <1>8, <1>9, <1>10, <1>11

(* The tail and nb_block are stored while the two have not come together.  *)
LEMMA SettleStep ==
  ASSUME EndsInv, Reload, ContinueLoad, pc \in {"tail", "nb_block"}
  PROVE  EndsInv' /\ Reload'
<1> PICK T : T = dtotal
  OBVIOUS
<1> PICK H : H = HeadNo
  OBVIOUS
<1> PICK N : N = nb_total_block
  OBVIOUS
<1>1. Types /\ Ring /\ Relation /\ StoreInv /\ pc \in Loading
  BY DEF EndsInv, Relation, Loading
<1>2. /\ T \in Nat /\ H \in Nat /\ N \in Nat /\ H < T /\ T <= N /\ N <= MaxTotal
      /\ T - H <= NbBlkIdx /\ N - H <= NbBlkIdx /\ Len(list) = T - H
      /\ cache_idx_head = H % NbBlkIdx
      /\ Steps!Round(cache_idx_head + (T - H)) \in Slots
      /\ ~dropping /\ uncounted = {} /\ cur.left = T /\ ~VFault
      /\ Linked = H /\ Over = 0
  BY <1>1, ReloadFacts
<1>3. /\ UNCHANGED <<slots, cache_idx_head, nb_total_block, data_pos_wr, list, edge, dropping, cur>>
      /\ UNCHANGED <<decVars, chan, coming, got, joined, uncounted>>
      /\ UNCHANGED <<mem, dpos, dtotal, dpc>>
      /\ pc = "tail" => /\ cache_idx_tail' = LoadEnd /\ nb_block' = nb_block
                        /\ pc' = "nb_block" /\ cut' = cut
      /\ pc = "nb_block" => /\ cache_idx_tail' = cache_idx_tail /\ nb_block' = MaxCount(T)
                            /\ pc' = "nb_total" /\ cut' = N - T
  BY <1>2 DEF ContinueLoad, LoadStore, StoreTail, StoreNbBlock, StoreNbTotal, StorePosition,
              decVars, dfile
<1>4. /\ pc = "tail" => LoadEnd = Steps!Round(cache_idx_head + (T - H))
      /\ pc = "nb_block" => cache_idx_tail = Steps!Round(cache_idx_head + (T - H))
      /\ MaxCount(T) = T - H
      /\ H = 0 => N < NbBlkIdx
      /\ edge = (H > 0)
      /\ T > 0 /\ T - 1 \in Held /\ dpos = EndOf(T - 1)
      /\ list \in Seq(Slots) /\ \A i \in 1..Len(list) : list[i] = Steps!Round(cache_idx_head + i - 1)
      /\ joined => mem # DBlank
      /\ dpc \in {"idle", "down"} /\ chan = <<>>
  BY <1>1, <1>2 DEF Reload
<1>5. cut = 0 /\ nb_block = N - H
  <2>1. cut = 0
    BY <1>1, <1>2 DEF Types
  <2>2. nb_block \in Int /\ Linked = (N + 0) - nb_block
    BY <1>1, <1>2 DEF Types, Linked
  <2> QED BY <2>1, <2>2, <1>2
<1>6. Over' = (IF pc = "tail" THEN 0 ELSE T - N) /\ Linked' = H
  <2>1. Over' = (IF pc = "tail" THEN 0 ELSE T - N)
    BY <1>2, <1>3, <1>5 DEF Over
  <2>2. nb_block' = IF pc = "tail" THEN N - H ELSE T - H
    BY <1>3, <1>4, <1>5
  <2> QED BY <2>1, <2>2, <1>2, <1>3 DEF Linked
<1>7. HeadNo' = H /\ Unmoved
  <2>1. HeadNo' = H
    BY <1>2, <1>3, <1>6 DEF HeadNo
  <2> QED BY <2>1, <1>3 DEF Unmoved, SlotOf
<1>8. Held' = Held /\ VFault' = VFault
  BY <1>1, <1>7, CallSame
<1>9. Types'
  <2>1. cache_idx_tail' \in Slots
    BY <1>1, <1>2, <1>3, <1>4 DEF Types
  <2>2. nb_block' \in 0..NbBlkIdx
    <3>1. nb_block' = N - H \/ nb_block' = T - H
      BY <1>3, <1>4, <1>5
    <3>2. N - H \in 0..NbBlkIdx /\ T - H \in 0..NbBlkIdx
      BY <1>2, Constants
    <3> QED BY <3>1, <3>2
  <2>3. cut' \in Nat /\ (cut' > 0 => pc' \in {"nb_total", "down"})
    BY <1>2, <1>3, <1>5
  <2>4. pc' # "down" /\ uncounted' = {} /\ ~dropping'
    BY <1>2, <1>3
  <2> QED BY <2>1, <2>2, <2>3, <2>4, <1>1, <1>3 DEF Types
<1>10. Ring'
  <2>1. ~(Over' = 1)
    BY <1>2, <1>6
  <2>2. \A s \in Held' : SlotOf(s)'.key \in Keys
    BY <1>1, <1>3, <1>8 DEF Ring, SlotOf
  <2> QED BY <2>1, <2>2, <1>2, <1>3, <1>7 DEF Ring
<1>11. Up' /\ CallInv'
  BY <1>3 DEF Up, CallInv, Steps!Apart, Steps!Loading, Steps!InCall
<1>12. Relation'
  <2>1. Session' = Session
    BY <1>3 DEF Session, Settling
  <2>2. DecoderSame
    BY <1>3 DEF DecoderSame
  <2> QED BY <2>1, <2>2, <1>1, <1>3, <1>7, Quiet DEF Unmoved
<1>13. Reload'
  <2>1. T - 1 \in Held' /\ EndOf(T - 1)' = EndOf(T - 1)
    BY <1>3, <1>4, <1>8 DEF EndOf, SlotOf
  <2>2. MaxCount(dtotal)' = MaxCount(T)' /\ (pc = "tail" => MaxCount(T)' = MaxCount(T))
    BY <1>3 DEF MaxCount
  <2>3. cache_idx_tail' = Steps!Round(cache_idx_head + (T - H))
    BY <1>3, <1>4
  <2>4. pc' \in {"nb_block", "nb_total"} /\ (pc' = "nb_block" => pc = "tail")
        /\ (pc' = "nb_total" => pc = "nb_block")
    BY <1>3
  <2> QED BY <2>1, <2>2, <2>3, <2>4, <1>2, <1>3, <1>4, <1>6, <1>7 DEF Reload
<1> QED BY <1>9, <1>10, <1>11, <1>12, <1>13 DEF EndsInv

(* nb_total_block is stored: the two ends come together, where the         *)
(* decompressor is.                                                        *)
LEMMA CutBackStep ==
  ASSUME EndsInv, Reload, ContinueLoad, pc = "nb_total"
  PROVE  EndsInv' /\ Reload'
<1> PICK T : T = dtotal
  OBVIOUS
<1> PICK H : H = HeadNo
  OBVIOUS
<1> PICK N : N = nb_total_block
  OBVIOUS
<1>1. /\ Types /\ Ring /\ Relation /\ Link!IInv /\ StoreInv /\ CrcSays /\ DataKept /\ pc \in Loading
  BY DEF EndsInv, Relation, Loading
<1>2. /\ T \in Nat /\ H \in Nat /\ N \in Nat /\ H < T /\ T <= N /\ N <= MaxTotal
      /\ T - H <= NbBlkIdx /\ N - H <= NbBlkIdx /\ Len(list) = T - H
      /\ cache_idx_head = H % NbBlkIdx
      /\ \A s \in H..(N - 1) : s \in Held /\ SlotOf(s).key \in Keys
      /\ ~dropping /\ uncounted = {} /\ cur.left = T /\ ~VFault
      /\ Linked = H
  BY <1>1, ReloadFacts
<1>3. /\ UNCHANGED <<slots, cache_idx_head, cache_idx_tail, nb_block, data_pos_wr, list, edge,
                     dropping, cur>>
      /\ UNCHANGED <<decVars, chan, coming, got, joined, uncounted>>
      /\ UNCHANGED <<mem, dpos, dtotal, dnb, last_block_size, tmp, dpc>>
      /\ nb_total_block' = T /\ pc' = "position" /\ cut' = 0
  BY <1>2 DEF ContinueLoad, LoadStore, StoreTail, StoreNbBlock, StoreNbTotal, StorePosition,
              decVars, dfile, dmem
<1>4. /\ cache_idx_tail = Steps!Round(cache_idx_head + (T - H))
      /\ nb_block = T - H
      /\ H = 0 => N < NbBlkIdx
      /\ edge = (H > 0)
      /\ T > 0 /\ T - 1 \in Held /\ dpos = EndOf(T - 1)
      /\ list \in Seq(Slots) /\ \A i \in 1..Len(list) : list[i] = Steps!Round(cache_idx_head + i - 1)
      /\ joined => mem # DBlank
      /\ dpc \in {"idle", "down"} /\ chan = <<>>
  BY <1>1, <1>2 DEF Reload
<1>5. /\ NbBlkIdx \in Nat /\ NbBlkIdx >= 2 /\ MaxTotal \in Nat
      /\ ~Session /\ ~DOver /\ dpc \notin Storing
  BY <1>2, <1>4, Constants DEF Session, Settling, DOver, Storing
<1>6. /\ Over' = 0 /\ Linked' = H /\ HeadNo' = H /\ Held' = H..(T - 1)
      /\ \A s : SlotOf(s)' = SlotOf(s) /\ EndOf(s)' = EndOf(s)
  <2>1. Over' = 0
    BY <1>2, <1>3 DEF Over
  <2>2. Linked' = H
    BY <2>1, <1>2, <1>3, <1>4 DEF Linked
  <2>3. HeadNo' = H
    BY <2>2, <1>2, <1>3 DEF HeadNo
  <2>4. \A s : SlotOf(s)' = SlotOf(s) /\ EndOf(s)' = EndOf(s)
    BY <1>3 DEF SlotOf, EndOf
  <2> QED BY <2>1, <2>2, <2>3, <2>4, <1>3 DEF Held
<1>7. /\ VBlk' = [s \in H..(T - 1) |-> VBlk[s]] /\ VNb' = T - H /\ VPos' = EndOf(T - 1)
      /\ VFault' = FALSE /\ VFault = FALSE
      /\ VEdge' = (N > VNb) /\ VNb = N - H
  <2>1. VBlk' = [s \in H..(T - 1) |-> VBlk[s]]
    <3>1. \A s \in H..(T - 1) : s \in H..(N - 1)
      BY <1>2
    <3> QED BY <3>1, <1>2, <1>6 DEF VBlk
  <2>2. VNb' = T - H /\ VNb = N - H
    BY <1>3, <1>6 DEF VNb
  <2>3. VPos' = EndOf(T - 1)
    <3>1. VPos' = EndOf(T - 1)'
      BY <1>2, <1>3, <1>6 DEF VPos, EndOf, SlotOf
    <3> QED BY <3>1, <1>6
  <2>4. VFault' = FALSE /\ VFault = FALSE
    BY <1>2, <1>3, <1>6 DEF VFault
  <2>5. VEdge' = (H > 0 \/ T >= NbBlkIdx)
    BY <1>3, <1>6 DEF VEdge
  <2>6. T >= NbBlkIdx => H > 0
    BY <1>2, <1>4, <1>5
  <2>7. (N > VNb) = (H > 0)
    BY <2>2, <1>2
  <2> QED BY <2>1, <2>2, <2>3, <2>4, <2>5, <2>6, <2>7
<1>8. Link!Cut(T)
  <2>1. Link!First = H /\ Link!End(VBlk[T - 1]) = EndOf(T - 1)
    BY <1>1, <1>4, ViewFacts
  <2>2. ~(VNb = NbBlkIdx /\ N = NbBlkIdx)
    BY <1>2, <1>4, <1>5, <1>7
  <2>3. NoOut' = NoOut
    BY DEF NoOut
  <2>4. UNCHANGED <<VFault, NoOut>>
    BY <2>3, <1>7
  <2> QED BY <2>1, <2>2, <2>4, <1>2, <1>3, <1>7 DEF Link!Cut
<1>9. Link!IInv'
  BY <1>1, <1>2, <1>8, Assumptions, Link!CutFacts
<1>10. /\ VMem = mem /\ VDpos = dpos /\ VTotal = T /\ VSize = last_block_size
       /\ UNCHANGED <<VMem, VDpos, VTotal, VDnb, VSize, VGot>>
  BY <1>3, <1>4, <1>5 DEF VMem, VDpos, VTotal, VDnb, VSize, VGot, Laying, Storing
<1>11. DataThere
  BY <1>1, <1>5 DEF DataKept
<1>12. ASSUME joined PROVE Link!LinkInv'
  <2>1. \A s \in Link!Live : s < VTotal => Link!Holds(Link!Now, VBlk[s].off, VBlk[s].key)
    <3>1. \A s \in Held : s < T =>
            \A i \in 1..BlkLen[SlotOf(s).key] :
              /\ SlotOf(s).off + i - 1 \in Link!Area
              /\ mem[SlotOf(s).off + i - 1] = <<SlotOf(s).key, i>>
      BY <1>4, <1>11, <1>12 DEF DataThere
    <3>2. Link!Live = Held /\ \A s \in Held : VBlk[s] = SlotOf(s)
      BY <1>1, ViewFacts
    <3> QED BY <3>1, <3>2, <1>10 DEF Link!Holds, Link!Now
  <2>2. Link!Now \in Link!Decompressor
    BY <1>1, <1>2, <1>10 DEF StoreInv, Link!Now, Link!Decompressor
  <2>3. VDpos = Link!End(VBlk[VTotal - 1])
    BY <1>1, <1>4, <1>10, ViewFacts
  <2>4. UNCHANGED Link!decompVars
    BY <1>10 DEF Link!decompVars
  <2>5. VTotal \in Nat /\ VTotal > 0 /\ Link!Cut(VTotal) /\ chan' = <<>>
    BY <1>2, <1>3, <1>4, <1>8, <1>10
  <2> QED BY <2>1, <2>2, <2>3, <2>4, <2>5, <1>1, Assumptions, Link!GoneBack
<1>13. StoreInv' /\ ChanApart'
  <2>1. Session' <=> joined
    BY <1>3 DEF Session, Settling
  <2> QED BY <2>1, <1>1, <1>3, <1>4, <1>5 DEF StoreInv, ChanApart
<1>14. DataKept'
  <2>1. \A s \in Held' : s \in Held /\ SlotOf(s)' = SlotOf(s)
    BY <1>2, <1>6
  <2>2. DataThere'
    <3>1. CASE mem = DBlank
      BY <3>1, <1>3 DEF DataThere, DBlank
    <3>2. CASE mem # DBlank
      <4>1. ASSUME NEW s \in Held', s < dtotal, NEW i \in 1..BlkLen[SlotOf(s).key]
            PROVE  /\ SlotOf(s).off + i - 1 \in Link!Area
                   /\ mem[SlotOf(s).off + i - 1] = <<SlotOf(s).key, i>>
        BY <4>1, <2>1, <3>2, <1>11 DEF DataThere
      <4> QED BY <4>1, <2>1, <1>3 DEF DataThere
    <3> QED BY <3>1, <3>2
  <2> QED BY <2>2 DEF DataKept
<1>15. CrcSays'
  <2>1. LastBlockCrc' = LastBlockCrc /\ (CrcReadable' <=> CrcReadable) /\ ~DOver'
    BY <1>2, <1>3, <1>4 DEF LastBlockCrc, ReadMem, CrcReadable, DOver
  <2>2. ASSUME NEW k \in Keys, LastBlockCrc = Bytes(k), CrcReadable
        PROVE  /\ Before(T, k)'
               /\ T - 1 \in Held' => dpos' = EndOf(T - 1)'
    <3>1. Before(T, k)
      BY <2>2, <1>1, <1>4, <1>5 DEF CrcSays
    <3>2. T \notin Held'
      BY <1>2, <1>6
    <3>3. SlotOf(T - 1)'.key = k
      BY <3>1, <1>4, <1>6 DEF Before
    <3> QED BY <3>2, <3>3, <1>3, <1>4, <1>6 DEF Before
  <2>3. dtotal' = T /\ dtotal' <= nb_total_block'
    BY <1>2, <1>3
  <2> QED BY <2>1, <2>2, <2>3 DEF CrcSays
<1>16. Relation'
  <2>1. Session' => joined
    BY <1>3 DEF Session
  <2> QED BY <2>1, <1>9, <1>12, <1>13, <1>14, <1>15 DEF Relation
<1>17. Types'
  <2>1. nb_total_block' \in 0..MaxTotal
    BY <1>2, <1>3, <1>5
  <2> QED BY <2>1, <1>1, <1>2, <1>3 DEF Types
<1>18. Ring'
  <2>1. HeadNo' \in 0..nb_total_block' /\ nb_total_block' - HeadNo' <= NbBlkIdx
    BY <1>2, <1>3, <1>6
  <2>2. \A s \in Held' : SlotOf(s)'.key \in Keys
    BY <1>2, <1>6
  <2> QED BY <2>1, <2>2, <1>2, <1>3, <1>6 DEF Ring
<1>19. Up' /\ CallInv'
  BY <1>3 DEF Up, CallInv, Steps!Apart, Steps!Loading, Steps!InCall
<1>20. Reload'
  <2>1. T - 1 \in Held'
    BY <1>2, <1>6
  <2>2. H = 0 => T < NbBlkIdx
    BY <1>2, <1>4, <1>5
  <2> QED BY <2>1, <2>2, <1>2, <1>3, <1>4, <1>6 DEF Reload
<1> QED BY <1>16, <1>17, <1>18, <1>19, <1>20 DEF EndsInv

(* The writing position is stored, and calls can be made.                  *)
LEMMA PlaceStep ==
  ASSUME EndsInv, Reload, ContinueLoad, pc = "position"
  PROVE  EndsInv' /\ Reload'
<1> PICK T : T = dtotal
  OBVIOUS
<1> PICK H : H = HeadNo
  OBVIOUS
<1>1. Types /\ Ring /\ Relation /\ StoreInv /\ pc \in Loading
  BY DEF EndsInv, Relation, Loading
<1>2. /\ nb_total_block = T /\ nb_block = T - H /\ edge = (H > 0)
      /\ cache_idx_tail = Steps!Round(cache_idx_head + (T - H))
      /\ H = 0 => T < NbBlkIdx
      /\ list \in Seq(Slots) /\ \A i \in 1..Len(list) : list[i] = Steps!Round(cache_idx_head + i - 1)
      /\ Len(list) = T - H
  BY <1>1 DEF Reload
<1>3. /\ T \in Nat /\ H \in Nat /\ H < T /\ T <= MaxTotal /\ T - H <= NbBlkIdx
      /\ cache_idx_head = H % NbBlkIdx /\ cache_idx_head \in Slots
      /\ \A s \in H..(T - 1) : s \in Held /\ SlotOf(s).key \in Keys
      /\ ~dropping /\ uncounted = {} /\ ~VFault
      /\ Linked = H /\ Over = 0
  BY <1>1, <1>2, ReloadFacts
<1>4. /\ UNCHANGED <<slots, cache_idx_head, cache_idx_tail, nb_block, nb_total_block, list, edge,
                     dropping>>
      /\ UNCHANGED <<decVars, chan, coming, got, joined, uncounted, cut>>
      /\ pc' = "idle" /\ cur' = NoBlock
      /\ data_pos_wr' = slots[list[Len(list)]].off + LenOf(slots[list[Len(list)]].key)
  BY DEF ContinueLoad, LoadStore, StoreTail, StoreNbBlock, StoreNbTotal, StorePosition
<1>5. /\ NbBlkIdx \in Nat /\ NbBlkIdx >= 2 /\ MaxTotal \in Nat /\ Slots = 0..(NbBlkIdx - 1)
  BY Constants
<1>6. data_pos_wr' = EndOf(T - 1)
  <2>1. list[T - H] = Steps!Round(cache_idx_head + (T - H) - 1)
    BY <1>2, <1>3
  <2>2. T - H - 1 \in 0..NbBlkIdx
    BY <1>3, <1>5
  <2>3. (H + (T - H - 1)) % NbBlkIdx = Steps!Round(cache_idx_head + (T - H - 1))
    BY <2>2, <1>3, Assumptions, Steps!SlotLemma
  <2>4. H + (T - H - 1) = T - 1 /\ cache_idx_head + (T - H - 1) = cache_idx_head + (T - H) - 1
    BY <1>3, <1>5
  <2>5. slots[list[Len(list)]] = SlotOf(T - 1)
    BY <2>1, <2>3, <2>4, <1>2 DEF SlotOf
  <2>6. T - 1 \in H..(T - 1)
    BY <1>3
  <2>7. SlotOf(T - 1).key \in Keys
    BY <2>6, <1>3
  <2> QED BY <2>5, <2>7, <1>4, Constants DEF EndOf
<1>7. Over' = 0 /\ Linked' = H /\ HeadNo' = H /\ Unmoved
  <2>1. Over' = 0
    BY <1>3, <1>4 DEF Over
  <2>2. Linked' = H
    BY <2>1, <1>2, <1>3, <1>4 DEF Linked
  <2>3. HeadNo' = H
    BY <2>2, <1>3, <1>4 DEF HeadNo
  <2> QED BY <2>1, <2>2, <2>3, <1>4 DEF Unmoved, SlotOf
<1>8. Held' = Held /\ VPos' = VPos /\ VFault' = VFault
  BY <1>1, <1>7, CallSame
<1>9. VPos = EndOf(T - 1)
  BY <1>2, <1>3 DEF VPos
<1>10. Types'
  <2>1. data_pos_wr' \in Nat
    BY <1>1, <1>6, <1>9, RingFacts
  <2>2. cur' \in [key : Keys \cup {NoKey}, off : Nat, left : Int]
    BY <1>4 DEF NoBlock
  <2>3. ~(cut' > 0)
    BY <1>1, <1>4 DEF Types
  <2> QED BY <2>1, <2>2, <2>3, <1>1, <1>3, <1>4 DEF Types
<1>11. Ring'
  BY <1>1, <1>3, <1>4, <1>7, <1>8 DEF Ring, SlotOf
<1>12. CallInv'
  BY <1>3, <1>4, <1>6, <1>8, <1>9 DEF CallInv, Steps!InCall
<1>13. Relation'
  <2>1. Session' = Session
    BY <1>4 DEF Session, Settling
  <2>2. DecoderSame
    BY <1>4 DEF DecoderSame
  <2> QED BY <2>1, <2>2, <1>1, <1>4, <1>7, Quiet DEF Unmoved
<1>14. Up'
  <2>1. ~dropping' /\ Steps!Behind' = 0 /\ Steps!Ahead' = 0 /\ Steps!Counted' = T
        /\ Steps!Oldest' = H
    <3>1. Steps!Counted' = T
      BY <1>2, <1>3, <1>4 DEF Steps!Counted
    <3>2. Steps!Oldest' = H
      BY <3>1, <1>2, <1>3, <1>4 DEF Steps!Oldest
    <3> QED BY <3>1, <3>2, <1>3, <1>4 DEF Steps!Behind, Steps!Ahead
  <2>2. Steps!Slots = Slots
    BY DEF Steps!Slots, Slots
  <2>3. Steps!Types'
    <3>1. cache_idx_head' \in Slots /\ cache_idx_tail' \in Slots
          /\ nb_block' \in Nat /\ nb_total_block' \in Nat
          /\ nb_total_block' <= MaxTotal /\ edge' \in BOOLEAN /\ dropping' = FALSE
          /\ list' \in Seq(Slots)
      BY <2>1, <1>1, <1>2, <1>3, <1>4 DEF Types
    <3> QED BY <3>1, <2>2, <1>4 DEF Steps!Types, Steps!InCall
  <2>4. Steps!Stretch'
    <3>1. cache_idx_head' + 0 = cache_idx_head
      BY <1>3, <1>4, <1>5
    <3>2. \A i \in 1..Len(list') : list'[i] = Steps!Round(cache_idx_head' + 0 + i - 1)
      BY <3>1, <1>2, <1>4
    <3>3. cache_idx_head' + 0 + (T - H) + 0 = cache_idx_head + (T - H)
      BY <3>1, <1>3, <1>5
    <3>4. cache_idx_tail' = Steps!Round(cache_idx_head' + 0 + Len(list') + 0)
      BY <3>3, <1>2, <1>4
    <3>5. Len(list') + 0 + 0 <= NbBlkIdx /\ nb_block' = Len(list')
      BY <1>2, <1>3, <1>4
    <3> QED BY <3>2, <3>4, <3>5, <2>1 DEF Steps!Stretch, Steps!Round
  <2>5. Steps!Beginning'
    <3>1. H = 0 => cache_idx_head' = 0 /\ T < NbBlkIdx
      BY <1>2, <1>3, <1>4, <1>5
    <3>2. Len(list') = T - H /\ Len(list') <= T /\ (Len(list') = T => H = 0)
      BY <1>2, <1>3, <1>4
    <3>3. ~edge' => H = 0
      <4>1. H > 0 \/ H = 0
        BY <1>3
      <4> QED BY <4>1, <1>2, <1>4, Zenon
    <3>4. ~edge' => Len(list') = Steps!Counted' /\ Len(list') + Steps!Ahead' < NbBlkIdx
      BY <3>1, <3>2, <3>3, <2>1, <1>3
    <3> QED BY <3>1, <3>2, <3>4, <2>1, <1>4 DEF Steps!Beginning
  <2>6. Steps!RefUp'
    <3>1. \A s \in H..(T - 1) : slots'[s % NbBlkIdx].key \in Keys
      BY <1>3, <1>4 DEF SlotOf
    <3>2. H - 0 = H
      BY <1>3
    <3> QED BY <3>1, <3>2, <2>1, <1>3, <1>4 DEF Steps!RefUp
  <2> QED BY <2>3, <2>4, <2>5, <2>6, <1>4 DEF Up, Steps!TornInv, Steps!Loading
<1>15. Reload'
  BY <1>4 DEF Reload, Loading
<1> QED BY <1>10, <1>11, <1>12, <1>13, <1>14, <1>15 DEF EndsInv

(* What the decompressor does meanwhile leaves a load in progress as it    *)
(* is.                                                                     *)
LEMMA ReloadSame ==
  ASSUME Reload, pc \in Loading, UNCHANGED <<compVars, dtotal, dpos, cut>>,
         chan' = <<>>, dpc' \in {"idle", "down"}, uncounted' = {}, joined' => joined /\ mem' = mem
  PROVE  Reload'
<1>1. UNCHANGED <<slots, cache_idx_head, cache_idx_tail, nb_block, nb_total_block, list, edge, pc,
                  cur, dtotal, dpos>>
  BY DEF compVars, file, call
<1>2. uncounted = {} /\ (joined => mem # DBlank)
  BY DEF Reload
<1>3. Linked' = Linked
  BY <1>1, <1>2 DEF Linked, Over
<1>4. HeadNo' = HeadNo
  BY <1>1, <1>3 DEF HeadNo
<1>5. Held' = Held /\ EndOf(dtotal - 1)' = EndOf(dtotal - 1)
  BY <1>1, <1>4 DEF Held, EndOf, SlotOf
<1>6. LoadEnd' = LoadEnd /\ MaxCount(dtotal)' = MaxCount(dtotal)
  BY <1>1 DEF LoadEnd, MaxCount
<1>7. joined' => mem' # DBlank'
  BY <1>2 DEF DBlank
<1> QED BY <1>1, <1>3, <1>4, <1>5, <1>6, <1>7 DEF Reload

LEMMA ReloadKept ==
  ASSUME EndsInv, Reload, [Next]_linkVars, ~Resume, ~ContinueLoad
  PROVE  Reload'
<1>0. Types /\ StoreInv
  BY DEF EndsInv, Relation
<1>1. CASE pc' \notin Loading
  BY <1>1 DEF Reload
<1>2. CASE pc' \in Loading
  <2>1. ~(\E k \in Keys : Send(k) \/ BeginInsertion(k)) \/ (pc = "idle" /\ pc' = "idle")
    BY <1>2 DEF Send, BeginInsertion, Begin, compVars, call, Loading
  <2>2. ~(\E k \in Keys : Send(k) \/ BeginInsertion(k))
    BY <2>1, <1>2 DEF Loading
  <2>3. ~ContinueInsertion
    <3> SUFFICES ASSUME InnerStep PROVE FALSE
      BY DEF ContinueInsertion
    <3>1. CASE AdvanceHead
      <4>1. pc' = pc /\ dropping
        BY <3>1 DEF AdvanceHead
      <4> QED BY <4>1, <1>0, <1>2 DEF Types, Steps!Apart, Loading, Steps!Loading
    <3>2. CASE ~AdvanceHead
      BY <3>2, <1>2 DEF InnerStep, LeavePreviousLap, Rotate, MakeRoom, RoomMade, Die, WritePart,
                        FreeSlot, TakeSlot, FillKey, FillOffset, CountBlock, At, Drop, Loading
    <3> QED BY <3>1, <3>2
  <2>4. ~EndInsertion /\ ~StartAnew /\ ~CompressorStops
    BY <1>2 DEF EndInsertion, CountTotal, StartAnew, CompCreate, CompressorStops, CompClose,
                CompCrash, CompEnd, Loading
  <2>5. ASSUME UNCHANGED compVars PROVE pc \in Loading
    BY <2>5, <1>2 DEF compVars, call
  <2>6. ~Receive
    <3> SUFFICES ASSUME Receive PROVE FALSE
      OBVIOUS
    <3>1. UNCHANGED compVars /\ chan # <<>>
      BY DEF Receive
    <3> QED BY <3>1, <2>5 DEF Reload
  <2>7. ~ContinueStore
    <3> SUFFICES ASSUME ContinueStore PROVE FALSE
      OBVIOUS
    <3>1. UNCHANGED compVars
      BY DEF ContinueStore
    <3>2. dpc \in {"idle", "down"}
      BY <3>1, <2>5 DEF Reload
    <3> QED BY <3>2 DEF ContinueStore, DecStep, DecRotate, DecCopy, DecAdvance, DecSetSize,
                        DecCountTotal, DecCountBlock
  <2>8. CASE DecompressorStops \/ DecompressorLoads \/ CreationDies \/ UNCHANGED linkVars
    <3>1. UNCHANGED compVars /\ pc \in Loading
      BY <2>5, <2>8 DEF DecompressorStops, DecompressorLoads, CreationDies, linkVars
    <3>2. chan = <<>> /\ dpc \in {"idle", "down"} /\ uncounted = {}
      BY <3>1 DEF Reload
    <3>3. CASE DecompressorStops
      <4>1. /\ UNCHANGED <<compVars, dtotal, dpos, cut>> /\ chan' = <<>> /\ dpc' = "down"
            /\ uncounted' = {} /\ ~joined'
        BY <3>2, <3>3 DEF DecompressorStops, DecCrash
      <4> QED BY <4>1, <3>1, ReloadSame
    <3>4. CASE DecompressorLoads
      <4>1. /\ UNCHANGED <<compVars, dtotal, dpos, cut, mem, joined>> /\ chan' = <<>> /\ dpc' = "idle"
            /\ uncounted' = {}
        BY <3>2, <3>4 DEF DecompressorLoads, DecLoad, dfile, history
      <4> QED BY <4>1, <3>1, ReloadSame
    <3>5. CASE CreationDies
      <4>1. /\ UNCHANGED <<compVars, dtotal, dpos, cut, joined>> /\ chan' = <<>> /\ dpc = "down"
            /\ dpc' = "down" /\ uncounted' = {}
        BY <3>2, <3>5 DEF CreationDies, DecCreateDies, history
      <4>2. ~joined'
        BY <4>1, <1>0 DEF StoreInv
      <4> QED BY <4>1, <4>2, <3>1, ReloadSame
    <3>6. CASE UNCHANGED linkVars
      <4>1. /\ UNCHANGED <<compVars, dtotal, dpos, cut, mem, joined>> /\ chan' = <<>>
            /\ dpc' \in {"idle", "down"} /\ uncounted' = {}
        BY <3>2, <3>6 DEF linkVars, decVars, dfile, history
      <4> QED BY <4>1, <3>1, ReloadSame
    <3> QED BY <2>8, <3>3, <3>4, <3>5, <3>6
  <2> QED BY <2>2, <2>3, <2>4, <2>6, <2>7, <2>8 DEF Next
<1> QED BY <1>1, <1>2

-----------------------------------------------------------------------------
LEMMA StutterStep ==
  ASSUME EndsInv, UNCHANGED linkVars
  PROVE  EndsInv'
<1>1. /\ Types /\ Ring /\ Up /\ CallInv /\ Relation
      /\ UNCHANGED compVars
      /\ UNCHANGED <<decVars, coming, got, joined, uncounted, cut, pc>> /\ chan' = chan
  BY DEF EndsInv, linkVars, history, compVars, call
<1>2. uncounted' \subseteq {"comp", "decomp"} /\ joined' \in BOOLEAN
      /\ ("decomp" \in uncounted' => ~joined')
  BY <1>1 DEF Types
<1>3. Types' /\ Ring' /\ Up' /\ CallInv' /\ Unmoved
  BY <1>1, <1>2, CompressorSame
<1>4. Relation'
  <2>1. Session' = Session
    BY <1>1 DEF Session
  <2> QED BY <2>1, <1>1, <1>3, Quiet DEF Unmoved, DecoderSame
<1> QED BY <1>3, <1>4 DEF EndsInv

(* Every step of either end keeps the invariant, if a load that goes wrong *)
(* does not begin.                                                         *)
LEMMA CrashStep == SameEnds /\ SoundResumes /\ CrashInv /\ [Next]_linkVars => CrashInv'
<1> SUFFICES ASSUME SameEnds, SoundResumes, CrashInv, [Next]_linkVars PROVE CrashInv'
  OBVIOUS
<1>0. EndsInv /\ Reload
  BY DEF CrashInv
<1>1. ASSUME NEW k \in Keys, BeginInsertion(k)  PROVE EndsInv'
  <2>1. Begin(k) /\ CompressorOnly
    BY <1>1 DEF BeginInsertion, CompressorOnly, history
  <2>2. pc \notin Steps!Apart
    BY <2>1 DEF Begin, Steps!Apart, Steps!Loading
  <2> QED BY <2>1, <2>2, <1>0, QuietStep
<1>2. ASSUME ContinueInsertion PROVE EndsInv'
  <2>1. InnerStep /\ CompressorOnly
    BY <1>2 DEF ContinueInsertion, CompressorOnly, history
  <2>2. CASE AdvanceHead
    BY <2>1, <2>2, <1>0, AdvanceStep
  <2>3. CASE ~AdvanceHead
    <3>1. ~(pc = "position" /\ Die)
      <4> SUFFICES ASSUME pc = "position" PROVE ~Die
        OBVIOUS
      <4>1. list # <<>>
        BY <1>0, ReloadFacts DEF EndsInv, Relation, Loading
      <4> QED BY <4>1 DEF Die
    <3>2. pc \notin Steps!Apart
      BY <2>1, <2>3, <3>1 DEF InnerStep, LeavePreviousLap, Rotate, MakeRoom, RoomMade, Die,
                              WritePart, FreeSlot, TakeSlot, FillKey, FillOffset, CountBlock, At,
                              Steps!Apart, Steps!Loading
    <3> QED BY <2>1, <2>3, <3>2, <1>0, QuietStep
  <2> QED BY <2>2, <2>3
<1>3. ASSUME StartAnew PROVE EndsInv'
  <2>1. Anew'
    BY <1>3, Beginnings
  <2> QED BY <2>1, FromAnew, PTL
<1>4. ASSUME NEW k \in Keys, Send(k)  PROVE EndsInv'
  BY <1>0, <1>4, SendStep
<1>5. CASE ContinueLoad
  <2>1. pc \in Loading
    BY <1>5 DEF ContinueLoad, LoadStore, StoreTail, StoreNbBlock, StoreNbTotal, StorePosition,
                Loading
  <2> QED BY <2>1, <1>0, <1>5, SettleStep, CutBackStep, PlaceStep DEF Loading, CrashInv
<1>6. CASE Resume
  BY <1>0, <1>6, ResumeStep DEF CrashInv
<1>7. CASE ~ContinueLoad /\ ~Resume
  <2>1. Reload'
    BY <1>0, <1>7, ReloadKept
  <2>2. EndsInv'
    BY <1>0, <1>1, <1>2, <1>3, <1>4, <1>7, EndInsertionStep, ReceiveStep, ContinueStoreStep,
       CompressorStopsStep, DecompressorStopsStep, DecompressorLoadsStep, CreationDiesStep,
       StutterStep DEF Next
  <2> QED BY <2>1, <2>2 DEF CrashInv
<1> QED BY <1>5, <1>6, <1>7

(* The two ends stay as CrashInv says, whichever of them dies at whatever  *)
(* store of a block, of a load, or of making its files anew, as long as    *)
(* the loads that begin are not among those ResumeKind says go wrong.      *)
THEOREM CrashInvariance == SameEnds /\ SoundResumes => (Spec => []CrashInv)
<1> SUFFICES ASSUME SameEnds, SoundResumes PROVE Spec => []CrashInv
  OBVIOUS
<1>1. CrashInv /\ [Next]_linkVars => CrashInv'
  BY CrashStep
<1>2. Init => CrashInv
  <2>1. Init => EndsInv
    BY Beginnings, FromAnew
  <2>2. Init => Reload
    BY DEF Init, CompInit, Reload, Loading
  <2> QED BY <2>1, <2>2 DEF CrashInv
<1> QED BY <1>1, <1>2, PTL DEF Spec

-----------------------------------------------------------------------------
(* Between calls the list is the blocks of the view.                       *)
LEMMA IdleView ==
  ASSUME Types, Ring, Up, CallInv, pc = "idle"
  PROVE  /\ DOMAIN Numbered = Held /\ \A s \in Held : Numbered[s] = SlotOf(s)
         /\ nb_block = Len(list) /\ ~VFault
<1>1. Over = 0 /\ Linked \in Nat /\ nb_block = Len(list) /\ nb_total_block + Over = Linked + Len(list)
      /\ Len(list) \in Nat /\ nb_total_block \in Nat
      /\ HeadNo = Linked - (IF dropping THEN 1 ELSE 0)
      /\ \A s \in Linked..(nb_total_block + Over - 1) : list[s - Linked + 1] = s % NbBlkIdx
  BY UpFacts DEF Steps!Apart, Steps!Loading
<1>2. ~dropping
  BY DEF Up, Steps!TornInv, Steps!Types, Steps!Apart, Steps!Loading
<1>3. nb_total_block - Len(list) = HeadNo /\ Linked = HeadNo /\ nb_total_block + Over - 1 = nb_total_block - 1
  BY <1>1, <1>2
<1>4. Numbered = [s \in Held |-> slots[list[s - HeadNo + 1]]]
  BY <1>3 DEF Numbered, Held
<1>5. \A s \in Held : Numbered[s] = SlotOf(s)
  BY <1>1, <1>3, <1>4 DEF Held, SlotOf
<1> QED BY <1>1, <1>4, <1>5 DEF CallInv

LEMMA SameNew ==
  ASSUME NEW c \in Seq(Link!Message)
  PROVE  /\ \A i \in 1..Len(c) : c[i].key \in Keys
         /\ \A j \in 0..Len(c) : NewIn(c, j) = Link!NewIn(c, j)
<1>0. \A i \in 1..Len(c) : c[i] \in Link!Message
  OBVIOUS
<1>1. \A i \in 1..Len(c) : c[i].key \in Keys /\ LenOf(c[i].key) = BlkLen[c[i].key]
  BY <1>0, Constants DEF Link!Message
<1>2. \A i \in 1..Len(c) : IsNew(c[i]) <=> Link!IsNew(c[i])
  BY <1>1 DEF IsNew, Link!IsNew
<1>3. \A j \in 0..Len(c) : \A i \in 1..j : i \in 1..Len(c)
  OBVIOUS
<1> QED BY <1>1, <1>2, <1>3 DEF NewIn, Link!NewIn

(* While the stream connects them and neither is inside a call, the two    *)
(* ends count the same blocks, whatever crashes there were.                *)
THEOREM AlwaysInStep == SameEnds /\ SoundResumes => (Spec => []InStep)
<1>1. CrashInv => InStep
  <2> SUFFICES ASSUME EndsInv, joined, pc = "idle", dpc = "idle" PROVE InStep
    BY DEF InStep, CrashInv
  <2>1. Types /\ Ring /\ Up /\ CallInv /\ Link!LinkInv
    BY DEF EndsInv, Relation, Session, Settling
  <2>2. /\ DOMAIN Numbered = Held /\ \A s \in Held : Numbered[s] = SlotOf(s)
        /\ nb_block = Len(list) /\ ~VFault
    BY <2>1, IdleView
  <2>3. Link!Live = Held /\ \A s \in Held : VBlk[s] = SlotOf(s)
    BY <2>1, ViewFacts
  <2>4. VTotal = dtotal
    BY DEF VTotal, Storing
  <2>5. PICK n : n = Len(chan)
    OBVIOUS
  <2>6. chan \in Seq(Link!Message) /\ n \in Nat
    BY <2>1, <2>5 DEF Link!LinkInv
  <2>7. \A j \in 0..n : NewIn(chan, j) = Link!NewIn(chan, j)
    BY <2>5, <2>6, SameNew
  <2>8. \A j \in 0..n : Cardinality(NewIn(chan, j)) = Link!Cardinality(Link!NewIn(chan, j))
    BY <2>7, SameCount
  <2>9. Link!InStep
    BY <2>1, Assumptions, Link!InStepLemma
  <2>10. nb_total_block = dtotal + Cardinality(NewIn(chan, n))
    BY <2>2, <2>4, <2>5, <2>6, <2>8, <2>9 DEF Link!InStep
  <2>11. ASSUME NEW i \in NewIn(chan, n), NEW s, s = dtotal + Cardinality(NewIn(chan, i)) - 1,
                s \in DOMAIN Numbered
         PROVE  Numbered[s] = [key |-> chan[i].key, off |-> chan[i].dict_offset]
    <3>1. i \in 0..n /\ i \in Link!NewIn(chan, n)
      BY <2>6, <2>7, <2>11 DEF NewIn
    <3>2. s = VTotal + Link!Cardinality(Link!NewIn(chan, i)) - 1
      BY <3>1, <2>4, <2>8, <2>11
    <3>3. VBlk[s] = [key |-> chan[i].key, off |-> chan[i].dict_offset]
      BY <3>1, <3>2, <2>2, <2>3, <2>5, <2>9, <2>11 DEF Link!InStep
    <3> QED BY <3>3, <2>2, <2>3, <2>11
  <2> QED BY <2>2, <2>5, <2>10, <2>11 DEF InStep
<1> QED BY <1>1, CrashInvariance, PTL

(* A block the compressor may still refer to, and that the decompressor    *)
(* has received, is intact there, also while the next one is stored.       *)
THEOREM AlwaysMirrored == SameEnds /\ SoundResumes => (Spec => []Mirrored)
<1>1. CrashInv => Mirrored
  <2> SUFFICES ASSUME EndsInv, joined, pc = "idle", NEW s \in DOMAIN Numbered, s < dtotal
               PROVE  ReadMem(Numbered[s].off, LenOf(Numbered[s].key)) = Bytes(Numbered[s].key)
    BY DEF Mirrored, CrashInv
  <2>1. Types /\ Ring /\ Up /\ CallInv /\ Link!LinkInv /\ StoreInv /\ ChanApart
    BY DEF EndsInv, Relation, Session, Settling
  <2>2. s \in Held /\ Numbered[s] = SlotOf(s)
    BY <2>1, IdleView
  <2>3. PICK k : k = SlotOf(s).key
    OBVIOUS
  <2>4. k \in Keys /\ LenOf(k) = BlkLen[k] /\ BlkLen[k] \in Nat /\ DOMAIN mem = Link!Area
    BY <2>1, <2>2, <2>3, RingFacts, Constants DEF StoreInv
  <2>5. \A i \in 1..BlkLen[k] : SlotOf(s).off + i - 1 \in DOMAIN mem
                                /\ mem[SlotOf(s).off + i - 1] = <<k, i>>
    BY <2>1, <2>2, <2>3, <2>4, Intact
  <2> QED BY <2>2, <2>3, <2>4, <2>5 DEF ReadMem, Bytes
<1> QED BY <1>1, CrashInvariance, PTL

LEMMA RoundTripNow == EndsInv => RoundTrip
<1> SUFFICES ASSUME EndsInv, joined, dpc = "idle", chan # <<>>, Head(chan).compressed
             PROVE  ReadMem(Head(chan).dict_offset, LenOf(Head(chan).key)) = Bytes(Head(chan).key)
  BY DEF RoundTrip
<1>1. Link!LinkInv /\ VMem = mem
  BY DEF EndsInv, Relation, StoreInv, VMem, Laying
<1>2. PICK m : m = Head(chan)
  OBVIOUS
<1>3. Link!ReadMem(m.dict_offset, BlkLen[m.key]) = Link!Bytes(m.key)
  BY <1>1, <1>2, Assumptions, Link!RoundTripLemma DEF Link!RoundTrip
<1>4. m.key \in Keys
  <2>1. chan \in Seq(Link!Message)
    BY <1>1 DEF Link!LinkInv
  <2>2. m \in Link!Message
    BY <2>1, <1>2
  <2> QED BY <2>2 DEF Link!Message
<1>5. LenOf(m.key) = BlkLen[m.key] /\ Bytes(m.key) = Link!Bytes(m.key)
  BY <1>4, BytesFacts, Constants
<1> QED BY <1>1, <1>2, <1>3, <1>5 DEF Link!ReadMem, ReadMem

(* A reference is read as the block it was made from, although either      *)
(* process may have died since and the stream broken off.                  *)
THEOREM AlwaysRoundTrip == SameEnds /\ SoundResumes => (Spec => []RoundTrip)
<1>1. CrashInv => RoundTrip
  BY RoundTripNow DEF CrashInv
<1> QED BY <1>1, CrashInvariance, PTL

(* What a call returns at once is a message.                               *)
LEMMA AtOnceIs ==
  ASSUME Types, Ring, Up, pc = "idle", NEW k \in Keys, NEW m \in AtOnce(k)
  PROVE  m \in Link!Message
<1>1. CASE m \in References(k)
  <2>1. PICK s \in Link!Matches(k) :
          m = [compressed |-> TRUE, dict_offset |-> VBlk[s].off, key |-> k]
    BY <1>1, Listed
  <2>2. s \in Held /\ VBlk[s] = SlotOf(s)
    BY <2>1, ViewFacts DEF Link!Matches
  <2>3. VBlk[s].off \in Nat
    BY <2>2, RingFacts
  <2> QED BY <2>1, <2>3 DEF Link!Message
<1>2. CASE m = [compressed |-> FALSE, dict_offset |-> 0, key |-> k]
  BY <1>2 DEF Link!Message
<1> QED BY <1>1, <1>2 DEF AtOnce

-----------------------------------------------------------------------------
(* The users' view: what is on its way, the block being stored first.      *)
Under == IF coming = NoKey THEN <<>> ELSE <<coming>>
InChan == [i \in 1..Len(chan) |-> chan[i].key]

LEMMA PutOut ==
  /\ BlockOf(<<>>) = NoKey
  /\ \A k \in Keys : BlockOf(Bytes(k)) = k
<1>1. \A k \in Keys : Bytes(k) # <<>>
  <2>1. ASSUME NEW k \in Keys
        PROVE  Bytes(k) # <<>>
    <3>1. Bytes(k) \in Seq(Link!Cell) /\ Len(Bytes(k)) > 0
      BY BytesFacts
    <3> QED BY <3>1
  <2> QED BY <2>1
<1>2. \A k, l \in Keys : Bytes(l) = Bytes(k) => l = k
  BY BytesFacts
<1>3. BlockOf(<<>>) = NoKey
  BY <1>1 DEF BlockOf
<1>4. \A k \in Keys : BlockOf(Bytes(k)) = k
  BY <1>2 DEF BlockOf
<1> QED BY <1>3, <1>4

(* A block is written: it is the last in transit, or nobody reads it.      *)
LEMMA PipeWrite ==
  ASSUME EndsInv, pc \notin Settling,
         NEW m, m \in Link!Message, WriteOut(m), UNCHANGED <<coming, got, joined>>
  PROVE  User!Next \/ UNCHANGED User!vars
<1>1. CASE ~joined
  BY <1>1 DEF WriteOut, User!vars
<1>2. CASE joined
  <2>1. chan \in Seq(Link!Message) /\ chan' = Append(chan, m)
    BY <1>2 DEF WriteOut, EndsInv, Relation, Link!LinkInv, Session
  <2>2. PICK k : k = m.key
    OBVIOUS
  <2>3. k \in Keys
    BY <2>2 DEF Link!Message
  <2>4. InChan \in Seq(Keys)
        /\ [i \in 1..Len(Append(chan, m)) |-> Append(chan, m)[i].key] = Append(InChan, k)
    BY <2>1, <2>2, Assumptions, Link!KeysLemma DEF InChan
  <2>5. InChan' = Append(InChan, k)
    BY <2>1, <2>4 DEF InChan
  <2>6. coming \in Keys \cup {NoKey}
    BY DEF EndsInv, Relation, StoreInv
  <2>7. Under \in Seq(Keys) /\ Under' = Under
    BY <2>6 DEF Under
  <2>8. PICK u : u = Under
    OBVIOUS
  <2>9. PICK c : c = InChan
    OBVIOUS
  <2>10. u \in Seq(Keys) /\ c \in Seq(Keys)
    BY <2>4, <2>7, <2>8, <2>9
  <2>11. u \o Append(c, k) = Append(u \o c, k)
    BY <2>3, <2>10
  <2>12. (Under \o InChan)' = Append(Under \o InChan, k)
    BY <2>5, <2>7, <2>8, <2>9, <2>11
  <2>13. BlockOf(got)' = BlockOf(got)
    BY DEF BlockOf
  <2>14. User!Write(k)
    BY <2>12, <2>13 DEF User!Write, Under, InChan
  <2> QED BY <2>3, <2>14 DEF User!Next
<1> QED BY <1>1, <1>2

(* A record is read: its block is put out at once, or it is stored first.  *)
LEMMA PipeReceive ==
  ASSUME EndsInv, Receive
  PROVE  User!Next \/ UNCHANGED User!vars
<1>1. joined /\ chan # <<>> /\ dpc = "idle"
  BY DEF Receive
<1>2. StoreInv /\ Link!LinkInv /\ chan \in Seq(Link!Message)
  BY <1>1 DEF EndsInv, Relation, StoreInv, Link!LinkInv
<1>3. PICK m : m = Head(chan)
  OBVIOUS
<1>4. PICK k : k = m.key
  OBVIOUS
<1>5. /\ m = chan[1] /\ m \in Link!Message /\ k \in Keys
      /\ chan' = Tail(chan) /\ coming = NoKey
      /\ Link!IsNew(m) => coming' = k /\ got' = got
      /\ ~Link!IsNew(m) =>
           /\ coming' = NoKey
           /\ got' = IF m.compressed THEN ReadMem(m.dict_offset, LenOf(k)) ELSE Bytes(k)
  BY <1>2, <1>3, <1>4, ReceiveFacts
<1>6. PICK c : c = InChan
  OBVIOUS
<1>7. c \in Seq(Keys) /\ c # <<>> /\ Head(c) = k /\ InChan' = Tail(c)
  <2>1. /\ InChan \in Seq(Keys) /\ InChan # <<>> /\ Head(InChan) = chan[1].key
        /\ [i \in 1..Len(Tail(chan)) |-> Tail(chan)[i].key] = Tail(InChan)
    BY <1>1, <1>2, Assumptions, Link!KeysLemma DEF InChan
  <2> QED BY <2>1, <1>4, <1>5, <1>6 DEF InChan
<1>8. Under = <<>> /\ Under \o InChan = c
  <2>1. Under = <<>>
    BY <1>5 DEF Under
  <2>2. <<>> \o c = c
    BY <1>7
  <2> QED BY <2>1, <2>2, <1>6
<1>9. CASE Link!IsNew(m)
  <2>1. Under' = <<k>>
    BY <1>5, <1>9, Constants DEF Under
  <2>2. <<k>> \o Tail(c) = c
    <3>1. PICK d : d = <<k>> \o Tail(c)
      OBVIOUS
    <3>2. /\ d \in Seq(Keys) /\ Len(d) = Len(c) /\ Len(c) \in Nat /\ d[1] = k
          /\ \A i \in 2..Len(c) : d[i] = Tail(c)[i - 1]
      BY <3>1, <1>5, <1>7
    <3>3. c[1] = k /\ \A i \in 2..Len(c) : Tail(c)[i - 1] = c[i]
      BY <1>7
    <3>4. \A i \in 1..Len(c) : d[i] = c[i]
      <4>1. \A i \in 1..Len(c) : i = 1 \/ i \in 2..Len(c)
        BY <3>2
      <4> QED BY <4>1, <3>2, <3>3
    <3>5. d = c
      BY <3>2, <3>4, <1>7
    <3> QED BY <3>1, <3>5
  <2>3. (Under \o InChan)' = Under \o InChan
    BY <2>1, <2>2, <1>7, <1>8
  <2>4. BlockOf(got)' = BlockOf(got)
    BY <1>5, <1>9 DEF BlockOf
  <2> QED BY <2>3, <2>4 DEF User!vars, Under, InChan
<1>10. CASE ~Link!IsNew(m)
  <2>1. got' = Bytes(k)
    BY <1>1, <1>3, <1>4, <1>5, <1>10, RoundTripNow DEF RoundTrip
  <2>2. BlockOf(got') = k
    BY <2>1, <1>5, PutOut
  <2>3. Under' = <<>> /\ <<>> \o Tail(c) = Tail(c)
    BY <1>5, <1>7, <1>10 DEF Under
  <2>4. (Under \o InChan)' = Tail(Under \o InChan) /\ Under \o InChan # <<>>
        /\ Head(Under \o InChan) = k
    BY <2>3, <1>7, <1>8
  <2>5. BlockOf(got)' = k
    BY <2>2 DEF BlockOf
  <2>6. User!Deliver
    BY <2>4, <2>5 DEF User!Deliver, Under, InChan
  <2> QED BY <2>6 DEF User!Next
<1> QED BY <1>9, <1>10

(* The last store of a block puts it out.                                  *)
LEMMA PipeStore ==
  ASSUME EndsInv, ContinueStore
  PROVE  User!Next \/ UNCHANGED User!vars
<1>1. CASE dpc' # "idle"
  BY <1>1 DEF ContinueStore, User!vars
<1>2. CASE dpc' = "idle"
  <2>1. StoreInv /\ got' = Bytes(coming) /\ coming' = NoKey /\ chan' = chan
    BY <1>2 DEF ContinueStore, EndsInv, Relation
  <2>2. dpc \in Storing /\ Session
    BY DEF ContinueStore, DecStep, DecRotate, DecCopy, DecAdvance, DecSetSize, DecCountTotal,
           DecCountBlock, Storing, EndsInv, Relation, StoreInv
  <2>3. coming \in Keys /\ coming # NoKey
    BY <2>1, <2>2, Constants DEF StoreInv
  <2>4. chan \in Seq(Link!Message)
    BY <2>2 DEF EndsInv, Relation, Link!LinkInv
  <2>5. PICK c : c = InChan
    OBVIOUS
  <2>6. c \in Seq(Keys) /\ InChan' = c
    BY <2>1, <2>4, <2>5, Assumptions, Link!KeysLemma DEF InChan
  <2>7. PICK k : k = coming
    OBVIOUS
  <2>8. Under = <<k>> /\ Under' = <<>>
    BY <2>1, <2>3, <2>7 DEF Under
  <2>9. <<k>> \o c # <<>> /\ Head(<<k>> \o c) = k /\ Tail(<<k>> \o c) = c /\ <<>> \o c = c
    BY <2>3, <2>6, <2>7
  <2>10. BlockOf(got') = k
    BY <2>1, <2>3, <2>7, PutOut
  <2>11. BlockOf(got)' = k
    BY <2>10 DEF BlockOf
  <2>12. User!Deliver
    BY <2>5, <2>6, <2>8, <2>9, <2>11 DEF User!Deliver, Under, InChan
  <2> QED BY <2>12 DEF User!Next
<1> QED BY <1>1, <1>2

(* Nothing is lost, changed, repeated or put out of order, although either *)
(* process may die at any store, unless the session breaks off.            *)
THEOREM CrashImplementsPipe == SameEnds /\ SoundResumes => (Spec => ImplementsPipe)
<1> SUFFICES ASSUME SameEnds, SoundResumes PROVE Spec => ImplementsPipe
  OBVIOUS
<1>1. Init => User!Init
  <2> SUFFICES ASSUME Init PROVE User!Init
    OBVIOUS
  <2>1. coming = NoKey /\ chan = <<>> /\ got = <<>>
    BY DEF Init
  <2>2. [i \in 1..Len(chan) |-> chan[i].key] = <<>> /\ <<>> \o <<>> = <<>>
    BY <2>1
  <2>3. BlockOf(got) = NoKey
    BY <2>1, PutOut
  <2> QED BY <2>1, <2>2, <2>3 DEF User!Init
<1>2. CrashInv /\ [Next]_linkVars => [User!Next]_(User!vars)
  <2> SUFFICES ASSUME EndsInv, [Next]_linkVars
               PROVE  User!Next \/ UNCHANGED User!vars
    BY DEF CrashInv
  <2>1. ASSUME NEW k \in Keys, Send(k)
        PROVE  User!Next \/ UNCHANGED User!vars
    <3>1. PICK m \in AtOnce(k) : WriteOut(m)
      BY <2>1 DEF Send
    <3>2. UNCHANGED <<coming, got, joined>> /\ pc \notin Settling
      BY <2>1 DEF Send, Settling
    <3>3. m \in Link!Message
      BY <2>1, AtOnceIs DEF Send, EndsInv
    <3> QED BY <3>1, <3>2, <3>3, PipeWrite
  <2>2. CASE EndInsertion
    <3>1. pc = "total" /\ WriteOut(Inserted) /\ UNCHANGED <<coming, got, joined>>
      BY <2>2 DEF EndInsertion, CountTotal, At
    <3>2. cur.key \in Keys /\ cur.off \in Nat
      BY <3>1 DEF EndsInv, CallInv, Steps!InCall, Types
    <3>3. Inserted \in Link!Message
      BY <3>2 DEF Inserted, Link!Message
    <3>4. pc \notin Settling
      BY <3>1 DEF Settling
    <3> QED BY <3>1, <3>3, <3>4, PipeWrite
  <2>3. ASSUME chan' = <<>>, coming' = NoKey, got' = got
        PROVE  User!Next
    <3>1. [i \in 1..Len(chan') |-> chan'[i].key] = <<>> /\ <<>> \o <<>> = <<>>
      BY <2>3
    <3> QED BY <2>3, <3>1 DEF User!Next, User!BreakOff, BlockOf
  <2>4. ASSUME UNCHANGED <<chan, coming, got>>
        PROVE  UNCHANGED User!vars
    BY <2>4 DEF User!vars, BlockOf
  <2>5. CASE \E k \in Keys : BeginInsertion(k)
    BY <2>5, <2>4 DEF BeginInsertion
  <2>6. CASE ContinueInsertion \/ ContinueLoad \/ CompressorStops \/ DecompressorLoads
             \/ CreationDies \/ UNCHANGED linkVars
    BY <2>6, <2>4 DEF ContinueInsertion, ContinueLoad, CompressorStops, DecompressorLoads, CreationDies,
                      linkVars
  <2>7. CASE Resume
    <3>1. coming = NoKey
      BY <2>7 DEF Resume, EndsInv, Relation, StoreInv, Storing
    <3> QED BY <3>1, <2>7, <2>3 DEF Resume
  <2>8. CASE DecompressorStops \/ StartAnew
    BY <2>8, <2>3 DEF DecompressorStops, StartAnew
  <2> QED BY <2>1, <2>2, <2>5, <2>6, <2>7, <2>8, PipeReceive, PipeStore DEF Next
<1> QED BY <1>1, <1>2, CrashInvariance, PTL DEF Spec, ImplementsPipe, User!Spec

-----------------------------------------------------------------------------
(* What keeps the compressor from reading through a null head: a loop that *)
(* has begun still has a block, since neither can remove the last one.     *)
Alive ==
  /\ pc # "dead"
  /\ pc \in {"lap", "room"} => list # <<>>
  /\ edge => nb_total_block > 0

(* As in DreCache.                                                         *)
RoomForThree == CacheSz >= 3 * MaxLen - 1

(* A position n bytes behind, by the unsigned subtraction.                 *)
LEMMA BehindByModulo ==
  ASSUME NEW w \in Nat, NEW o \in Nat, NEW n \in Nat, n > 0, n <= w
  PROVE  (o - (o + n)) % w = w - n
<1>1. o - (o + n) = 0 - n
  OBVIOUS
<1>2. (0 - n) % w = w - n
  <2>1. PICK r \in Nat : r = w - n
    OBVIOUS
  <2>2. r \in 0..(w - 1) /\ 0 - n = r - w /\ w > 0
    BY <2>1
  <2>3. (r - w) % w = r
    BY <2>2
  <2> QED BY <2>1, <2>2, <2>3
<1> QED BY <1>1, <1>2

(* A loop that has only the last block left leaves it.                     *)
LEMMA LastStays ==
  ASSUME EndsInv, CacheSz >= 3 * MaxLen - 1, Alive, At("lap") \/ At("room"), Len(list) = 1
  PROVE  IF pc = "lap" THEN ~PreviousLap(slots[list[1]].off) ELSE ~InTheWay(slots[list[1]].off)
<1>0. Types /\ Ring /\ Up /\ CallInv /\ Link!IInv /\ pc \in {"lap", "room"} /\ ~dropping
  BY DEF EndsInv, Relation, At
<1>1. PICK t : t = nb_total_block - 1
  OBVIOUS
<1>2. /\ HeadNo = Linked /\ nb_total_block = Linked + 1 /\ Linked \in Nat /\ t = Linked
      /\ list[1] = t % NbBlkIdx
  <2>1. /\ Over = 0 /\ Linked \in Nat /\ HeadNo = Linked - (IF dropping THEN 1 ELSE 0)
        /\ nb_total_block \in Nat /\ nb_total_block + Over = Linked + Len(list)
        /\ Steps!Behind = IF dropping THEN 1 ELSE 0
        /\ list # <<>> => list[1] = Linked % NbBlkIdx
    BY <1>0, UpFacts DEF Steps!Apart, Steps!Loading
  <2>2. list # <<>>
    BY <1>0 DEF Alive
  <2> QED BY <1>0, <1>1, <2>1, <2>2
<1>3. t \in Held /\ slots[list[1]] = SlotOf(t) /\ ~VFault /\ VPos = EndOf(t)
  BY <1>1, <1>2 DEF Held, SlotOf, VFault, VPos
<1>4. PICK o \in Nat : o = SlotOf(t).off
  BY <1>0, <1>3, RingFacts
<1>5. PICK n \in Nat : n = BlkLen[SlotOf(t).key] /\ n > 0 /\ n <= MaxLen /\ VPos = o + n
  BY <1>0, <1>3, <1>4, RingFacts, Constants
<1>6. VPos <= CacheSz
  BY <1>0 DEF Link!IInv
<1>7. PICK k \in Keys : k = cur.key
  BY <1>0 DEF CallInv, Steps!InCall
<1>8. Calling(k)
  BY <1>0, <1>7 DEF CallInv, Steps!InCall
<1>9. PICK len \in Nat : len = BlkLen[k] /\ len > 0 /\ len <= MaxLen
  BY <1>7, Constants
<1>10. CASE pc = "lap"
  <2>1. data_pos_wr = VPos
    BY <1>3, <1>8, <1>10 DEF Calling
  <2>2. ~(o >= data_pos_wr)
    BY <2>1, <1>5
  <2> QED BY <2>2, <1>3, <1>4, <1>10 DEF PreviousLap
<1>11. CASE pc = "room"
  <2>1. cur.left = len /\ data_pos_wr = StartAt(len)
    BY <1>3, <1>8, <1>9, <1>11 DEF Calling
  <2>2. CASE Turns(len)
    <3>1. data_pos_wr = 0 /\ VPos + len > CacheSz
      BY <2>1, <2>2 DEF StartAt, Turns
    <3>2. o >= len /\ o < Wrap /\ Wrap \in Nat
      <4>1. PICK w \in Nat : w = Wrap /\ w > CacheSz + MaxLen
        BY Constants
      <4>2. PICK c \in Nat : c = CacheSz /\ c >= 3 * MaxLen - 1
        BY Constants
      <4>3. PICK m \in Nat : m = MaxLen
        BY Constants
      <4>4. /\ w > c + m /\ c >= 3 * m - 1 /\ n <= m /\ n > 0 /\ len <= m
            /\ o + n <= c /\ o + n + len > c
        BY <3>1, <4>1, <4>2, <4>3, <1>5, <1>6, <1>9
      <4>5. o >= len /\ o < w
        BY <4>4
      <4> QED BY <4>1, <4>5
    <3>3. (o - data_pos_wr) % Wrap = o
      <4>1. o - 0 = o /\ o % Wrap = o
        BY <3>2
      <4> QED BY <3>1, <4>1
    <3> QED BY <3>2, <3>3, <2>1, <1>3, <1>4, <1>11 DEF InTheWay
  <2>3. CASE ~Turns(len)
    <3>1. data_pos_wr = o + n
      BY <2>1, <2>3, <1>5 DEF StartAt
    <3>2. Wrap \in Nat /\ n <= Wrap /\ len <= Wrap - n
      <4>1. PICK w \in Nat : w = Wrap /\ w > CacheSz + MaxLen
        BY Constants
      <4>2. PICK c \in Nat : c = CacheSz /\ c >= 3 * MaxLen - 1
        BY Constants
      <4>3. PICK m \in Nat : m = MaxLen
        BY Constants
      <4>4. w > c + m /\ c >= 3 * m - 1 /\ n <= m /\ n > 0 /\ len <= m
        BY <4>1, <4>2, <4>3, <1>5, <1>9
      <4>5. n <= w /\ len <= w - n
        BY <4>4
      <4> QED BY <4>1, <4>5
    <3>3. (o - data_pos_wr) % Wrap = Wrap - n
      <4>1. n > 0
        BY <1>5
      <4>2. (o - (o + n)) % Wrap = Wrap - n
        BY <3>2, <4>1, BehindByModulo
      <4> QED BY <3>1, <4>2
    <3>4. ~(Wrap - n < cur.left)
      BY <3>2, <2>1
    <3>5. ~((o - data_pos_wr) % Wrap < cur.left)
      BY <3>3, <3>4
    <3> QED BY <3>5, <1>3, <1>4, <1>11 DEF InTheWay
  <2> QED BY <2>2, <2>3
<1> QED BY <1>0, <1>10, <1>11

(* The compressor's own steps.                                             *)
LEMMA AliveInCall ==
  ASSUME EndsInv, Reload, CacheSz >= 3 * MaxLen - 1, Alive,
         InnerStep \/ CountTotal \/ \E k \in Keys : Begin(k)
  PROVE  Alive'
<1>0. Types /\ Ring /\ Up /\ CallInv
  BY DEF EndsInv
<1>a. ~Die
  <2>1. pc = "position" => list # <<>>
    BY ReloadFacts DEF EndsInv, Relation, Loading
  <2> QED BY <2>1 DEF Die, At, Alive
<1>1. pc \notin Steps!Apart
  <2>1. CASE AdvanceHead
    BY <2>1, <1>0 DEF AdvanceHead, Types
  <2>2. CASE ~AdvanceHead
    BY <2>2, <1>a DEF InnerStep, CountTotal, Begin, At, LeavePreviousLap, Rotate, MakeRoom,
                      RoomMade, WritePart, FreeSlot, TakeSlot, FillKey, FillOffset, CountBlock,
                      Steps!Apart, Steps!Loading
  <2> QED BY <2>1, <2>2
<1>2. /\ Linked \in Nat /\ Len(list) \in Nat /\ nb_total_block \in Nat
      /\ nb_total_block + Over = Linked + Len(list)
      /\ Over = IF pc = "total" THEN 1 ELSE 0
      /\ list = <<>> <=> Linked = nb_total_block + Over
      /\ cache_idx_tail = (nb_total_block + Over + Steps!Ahead) % NbBlkIdx
      /\ HeadNo = Linked - (IF dropping THEN 1 ELSE 0)
  BY <1>0, <1>1, UpFacts
<1>3. list \in Seq(Slots)
  BY <1>0, <1>1 DEF Up, Steps!TornInv, Steps!Types, Steps!Slots, Slots
<1>4. CASE LeavePreviousLap \/ MakeRoom
  <2>1. At("lap") \/ At("room")
    BY <1>4 DEF LeavePreviousLap, MakeRoom
  <2>2. Len(list) # 1
    BY <1>4, <2>1, LastStays DEF LeavePreviousLap, MakeRoom, At
  <2>3. Len(list) > 1
    <3>1. list # <<>>
      BY <2>1 DEF Alive, At
    <3>2. Len(list) > 0
      BY <3>1, <1>3
    <3>3. PICK n \in Nat : n = Len(list)
      BY <1>2
    <3> QED BY <3>2, <3>3, <2>2
  <2>4. list' = Tail(list) /\ Tail(list) # <<>>
    <3>1. list' = Tail(list)
      BY <1>4 DEF LeavePreviousLap, MakeRoom, Drop
    <3>2. PICK n : n = Len(Tail(list))
      OBVIOUS
    <3>3. n > 0
      BY <3>2, <2>3, <1>3
    <3>4. Tail(list) # <<>>
      <4>1. Len(<<>>) = 0 /\ n # 0
        BY <3>3
      <4> QED BY <4>1, <3>2, Zenon
    <3> QED BY <3>1, <3>4
  <2> QED BY <2>4, <1>4 DEF Alive, LeavePreviousLap, MakeRoom, Drop
<1>5. CASE AdvanceHead
  BY <1>5 DEF Alive, AdvanceHead
<1>6. CASE Rotate
  <2>1. nb_total_block > 0
    BY <1>2, <1>6 DEF Rotate, At
  <2> QED BY <2>1, <1>6 DEF Alive, Rotate
<1>7. CASE RoomMade \/ WritePart \/ FillKey \/ FillOffset \/ CountBlock
  <2>1. pc' \in {"write", "slot", "offset", "count", "total"} /\ edge' = edge
        /\ nb_total_block' = nb_total_block
    BY <1>7 DEF RoomMade, WritePart, FillKey, FillOffset, CountBlock, file
  <2> QED BY <2>1 DEF Alive
<1>8. CASE FreeSlot
  BY <1>8 DEF Alive, FreeSlot, Drop, At
<1>9. CASE TakeSlot
  <2>1. pc = "slot" /\ pc' = "fill" /\ nb_total_block' = nb_total_block
        /\ edge' = (edge \/ cache_idx_tail + 1 = NbBlkIdx)
    BY <1>9 DEF TakeSlot, At
  <2>2. Steps!Ahead = 0 /\ cache_idx_tail = nb_total_block % NbBlkIdx
    BY <2>1, <1>2 DEF Steps!Ahead
  <2>3. nb_total_block = 0 => cache_idx_tail = 0
    BY <2>2, Constants
  <2>4. edge' => nb_total_block > 0
    <3>1. cache_idx_tail + 1 = NbBlkIdx => nb_total_block > 0
      BY <2>3, <1>2, Constants
    <3>2. edge => nb_total_block > 0
      BY DEF Alive
    <3> QED BY <3>1, <3>2, <2>1
  <2> QED BY <2>1, <2>4 DEF Alive
<1>10. CASE CountTotal
  BY <1>2, <1>10 DEF Alive, CountTotal
<1>11. CASE Die
  BY <1>11, <1>a
<1>12. ASSUME NEW k \in Keys, Begin(k)
       PROVE  Alive'
  <2>1. /\ pc = "idle" /\ list' = list /\ edge' = edge /\ nb_total_block' = nb_total_block
        /\ pc' = IF data_pos_wr + BlkLen[k] > CacheSz THEN "lap" ELSE IF edge THEN "room" ELSE "write"
    BY <1>12 DEF Begin, file
  <2>2. ~VFault /\ data_pos_wr = VPos /\ ~dropping
    BY <2>1, <1>0 DEF CallInv, Up, Steps!TornInv, Steps!Types, Steps!Apart, Steps!Loading
  <2>3. nb_total_block > 0 => list # <<>>
    BY <2>1, <2>2, <1>2 DEF VFault
  <2>4. pc' = "lap" => nb_total_block > 0
    <3>1. BlkLen[k] <= CacheSz
      BY Constants
    <3>2. nb_total_block = 0 => VPos = 0
      BY <1>0, RingFacts DEF VPos
    <3> QED BY <3>1, <3>2, <2>1, <2>2, <1>2, Constants
  <2> QED BY <2>1, <2>3, <2>4 DEF Alive
<1> QED BY <1>4, <1>5, <1>6, <1>7, <1>8, <1>9, <1>10, <1>11, <1>12 DEF InnerStep

(* A data area with room for three blocks is enough for the compressor     *)
(* never to read through a null head, also one reloaded from what a crash  *)
(* left in the file.                                                       *)
THEOREM NeverDies == RoomForThree /\ SameEnds /\ SoundResumes => (Spec => []NoDeath)
<1> SUFFICES ASSUME CacheSz >= 3 * MaxLen - 1, SameEnds, SoundResumes PROVE Spec => []NoDeath
  BY DEF RoomForThree
<1>1. Init => Alive
  BY DEF Init, CompInit, Alive
<1>2. CrashInv /\ Alive /\ [Next]_linkVars => Alive'
  <2> SUFFICES ASSUME EndsInv, Reload, Alive, [Next]_linkVars PROVE Alive'
    BY DEF CrashInv
  <2>1. ASSUME UNCHANGED compVars
        PROVE  Alive'
    BY <2>1 DEF compVars, file, call, Alive
  <2>2. CASE \E k \in Keys : Send(k)
    BY <2>2, <2>1 DEF Send
  <2>3. CASE Receive \/ ContinueStore \/ DecompressorStops \/ DecompressorLoads \/ CreationDies
             \/ UNCHANGED linkVars
    BY <2>3, <2>1 DEF Receive, ContinueStore, DecompressorStops, DecompressorLoads, CreationDies,
                      linkVars
  <2>4. CASE ContinueInsertion \/ EndInsertion \/ \E k \in Keys : BeginInsertion(k)
    BY <2>4, AliveInCall DEF ContinueInsertion, EndInsertion, BeginInsertion
  <2>5. CASE CompressorStops
    BY <2>5 DEF CompressorStops, CompClose, CompCrash, CompEnd, Alive
  <2>6. CASE Resume
    <3>1. CompLoad(dtotal) /\ dtotal > 0 /\ dtotal <= nb_total_block
      BY <2>6, CameTo DEF EndsInv, Relation
    <3>2. pc' = "tail" /\ nb_total_block' = nb_total_block
      BY <3>1 DEF CompLoad, file
    <3>3. dtotal \in Nat /\ nb_total_block \in Nat
      BY RingFacts DEF EndsInv, Relation, StoreInv
    <3>4. nb_total_block' > 0
      BY <3>1, <3>2, <3>3
    <3> QED BY <3>2, <3>4 DEF Alive
  <2>7. CASE StartAnew
    BY <2>7 DEF StartAnew, CompCreate, Alive
  <2>8. CASE ContinueLoad
    <3>1. dtotal > 0 /\ edge' = edge /\ pc' \in {"nb_block", "nb_total", "position", "idle"}
          /\ nb_total_block' = (IF pc = "nb_total" THEN dtotal ELSE nb_total_block)
      BY <2>8 DEF ContinueLoad, LoadStore, StoreTail, StoreNbBlock, StoreNbTotal, StorePosition,
                  Loading, Reload
    <3> QED BY <3>1 DEF Alive
  <2> QED BY <2>2, <2>3, <2>4, <2>5, <2>6, <2>7, <2>8 DEF Next
<1>3. Alive => NoDeath
  BY DEF Alive, NoDeath
<1> QED BY <1>1, <1>2, <1>3, CrashInvariance, PTL DEF Spec
=============================================================================
