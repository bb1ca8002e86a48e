------------------------------- MODULE DreLink -------------------------------
(***************************************************************************)
(* A compressor (DreCache) and a decompressor joined by a byte stream, the *)
(* file or socket that compress.c writes and decompress.c reads.           *)
(*                                                                         *)
(* The decompressor keeps the bytes of the dictionary and no index: it     *)
(* repeats the compressor's writes and trusts that a reference it receives *)
(* points at what the compressor had there when it sent the reference.     *)
(* Byte i of the block with identity k is the cell <<k, i>>.               *)
(***************************************************************************)
EXTENDS DreCache, Sequences, FiniteSets

CONSTANTS
  DCacheSz,   \* cache_sz of the decompressor's cache
  DMinBlk,    \* min_blk_size of the decompressor's cache
  Hole,       \* a byte no block was written to
  ChanMax     \* bound on the messages in transit, for model checking

ASSUME LinkAssumption ==
  /\ DCacheSz \in Nat \ {0}
  /\ DMinBlk \in Nat
  /\ Hole \notin Keys \X Nat
  /\ ChanMax \in Nat

VARIABLES
  chan,            \* the c_buff_t's written to the stream and not yet read
  mem,             \* the decompressor's cache_data
  dpos,            \* its header: data_pos_wr,
  dtotal,          \*   nb_total_block,
  dnb,             \*   nb_block
  last_block_size, \*   and last_block_size
  got              \* the bytes of the last block it put out

decompVars == <<mem, dpos, dtotal, dnb, last_block_size, got>>
linkVars == <<vars, chan, decompVars>>

Bytes(k) == [i \in 1..BlkLen[k] |-> <<k, i>>]
Blank == [p \in 0..(DCacheSz - 1) |-> Hole]

(* What is at [pos, pos + len) of the decompressor's cache.                *)
ReadMem(pos, len) ==
  [i \in 1..len |-> IF pos + i - 1 \in DOMAIN mem THEN mem[pos + i - 1] ELSE Hole]

LinkInit ==
  /\ Init
  /\ chan = <<>>
  /\ mem = Blank
  /\ dpos = 0
  /\ dtotal = 0
  /\ dnb = 0
  /\ last_block_size = 0
  /\ got = <<>>

-----------------------------------------------------------------------------
(* compress.c: a c_buff_t is written to the stream as a flag and, with it, *)
(* either the block's length and bytes or an offset and a length.          *)
Send(k) ==
  /\ Len(chan) < ChanMax
  /\ CompressBlock(k) \/ Flush(k)
  /\ chan' = IF fault' THEN chan ELSE Append(chan, out')
  /\ UNCHANGED decompVars

(* rabin_decompress_block of an uncompressed block, all in one fragment:   *)
(* edge_cache_decomp, write_block_to_cache and the header.                 *)
StoreBlockLate(k) ==                                         \* faulty variant
  LET len == BlkLen[k]
      pos == IF dpos > DCacheSz THEN 0 ELSE dpos
  IN
  IF len >= DMinBlk
    THEN /\ mem' = [p \in DOMAIN mem |->
                      IF p \in pos..(pos + len - 1) THEN <<k, p - pos + 1>> ELSE mem[p]]
         /\ dpos' = pos + len
         /\ last_block_size' = len
         /\ dtotal' = dtotal + 1
         /\ dnb' = dnb + 1
    ELSE UNCHANGED <<mem, dpos, dtotal, dnb, last_block_size>>

StoreBlock(k) ==
  LET len == BlkLen[k]
      pos == IF dpos + len > DCacheSz THEN 0 ELSE dpos
  IN
  IF len >= DMinBlk
    THEN /\ mem' = [p \in DOMAIN mem |->
                      IF p \in pos..(pos + len - 1) THEN <<k, p - pos + 1>> ELSE mem[p]]
         /\ dpos' = pos + len
         /\ last_block_size' = len
         /\ dtotal' = dtotal + 1
         /\ dnb' = dnb + 1
    ELSE UNCHANGED <<mem, dpos, dtotal, dnb, last_block_size>>

(* decompress.c: the next block is read and put out.                       *)
Receive ==
  /\ chan # <<>>
  /\ chan' = Tail(chan)
  /\ LET m == Head(chan) IN
     IF m.compressed
       THEN /\ got' = ReadMem(m.dict_offset, BlkLen[m.key])
            /\ UNCHANGED <<mem, dpos, dtotal, dnb, last_block_size>>
       ELSE /\ got' = Bytes(m.key)
            /\ StoreBlock(m.key)
  /\ UNCHANGED vars

-----------------------------------------------------------------------------
(* Both ends start with new caches (new_dre_cache).                        *)
NewSessionHalf ==                                            \* faulty variant
  /\ Reset
  /\ chan' = <<>>
  /\ UNCHANGED decompVars

NewSession ==
  /\ Reset
  /\ chan' = <<>>
  /\ mem' = Blank
  /\ dpos' = 0
  /\ dtotal' = 0
  /\ dnb' = 0
  /\ last_block_size' = 0
  /\ UNCHANGED got

(* The stream ended and both ends reopen the caches they closed, the       *)
(* compressor with max_block = 0 (compress.c, TEST_LOAD_CACHE).            *)
Reopen ==
  /\ chan = <<>>
  /\ Load(0)
  /\ UNCHANGED <<chan, decompVars>>

(* What decomp_load_dre_cache returns as last_block_crc, and the crc of    *)
(* the last block that comp_load_dre_cache loads: the bytes stand for it.  *)
LastBlockCrc == ReadMem(dpos - last_block_size, last_block_size)
LoadedCrc(max_block) ==
  Bytes(blk[(IF max_block = 0 THEN nb_total_block ELSE max_block) - 1].key)

(* The stream broke off, with what was in transit.  The decompressor       *)
(* reopens its cache, its nb_total_block and last_block_crc are given to   *)
(* the compressor, and the compressor goes back to that block.             *)
ResumeUnchecked ==                                           \* faulty variant
  /\ Load(dtotal)
  /\ chan' = <<>>
  /\ UNCHANGED decompVars

Resume ==
  /\ Load(dtotal)
  /\ LoadedCrc(dtotal) = LastBlockCrc
  /\ chan' = <<>>
  /\ UNCHANGED decompVars

LinkNext ==
  \/ \E k \in Keys : Send(k)
  \/ Receive
  \/ NewSession
  \/ Reopen
  \/ Resume

LinkSpec == LinkInit /\ [][LinkNext]_linkVars

(* What the two programs must have been given alike: nothing transmits it. *)
(* A stream whose blocks are shorter than the caches' minimum makes the    *)
(* compressor keep blocks that the decompressor does not.                  *)
SameEnds == DCacheSz = CacheSz /\ DMinBlk = MinBlk /\ StreamMin >= MinBlk

-----------------------------------------------------------------------------
(* The messages that add a block to the decompressor's cache, and those of *)
(* the first j of a stream that do.                                        *)
IsNew(m) == ~m.compressed /\ BlkLen[m.key] >= DMinBlk
NewIn(stream, j) == {i \in 1..j : IsNew(stream[i])}

(* The two ends count the same blocks: what the compressor has inserted    *)
(* is what the decompressor has plus what is on its way, so that the       *)
(* decompressor's nb_total_block names the same block at both ends.        *)
InStep ==
  ~fault =>
    /\ nb_total_block = dtotal + Cardinality(NewIn(chan, Len(chan)))
    /\ \A i \in NewIn(chan, Len(chan)) :
         LET s == dtotal + Cardinality(NewIn(chan, i)) - 1 IN
         s \in Live => blk[s] = [key |-> chan[i].key, off |-> chan[i].dict_offset]

(* A block that the compressor may still refer to, and that the            *)
(* decompressor has received, is intact there at the compressor's offset.  *)
Mirrored ==
  \A s \in Live :
    s < dtotal => ReadMem(blk[s].off, BlkLen[blk[s].key]) = Bytes(blk[s].key)

(* The next message read is put out as the block it was made from: when a  *)
(* reference arrives, its block has arrived and nothing sent before the    *)
(* reference has overwritten it.                                           *)
RoundTrip ==
  chan # <<>> /\ Head(chan).compressed =>
    ReadMem(Head(chan).dict_offset, BlkLen[Head(chan).key]) = Bytes(Head(chan).key)

(* dre.h on nb_block: `number of block currently in cache'.  With nothing  *)
(* in transit both caches hold the same blocks and should count as many.   *)
CountsAgree == chan = <<>> /\ ~fault => dnb = nb_block

(* The block a byte sequence is, if any.                                   *)
BlockOf(bytes) ==
  IF \E k \in Keys : Bytes(k) = bytes THEN CHOOSE k \in Keys : Bytes(k) = bytes ELSE NoKey

User == INSTANCE Pipe WITH
  inTransit <- [i \in 1..Len(chan) |-> chan[i].key],
  delivered <- BlockOf(got)

(* What is written comes out unchanged, in order and once.                 *)
ImplementsPipe == User!Spec
=============================================================================
