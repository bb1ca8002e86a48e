------------------------------ MODULE Decoder ------------------------------
(***************************************************************************)
(* The decompressor's cache, one store at a time: fragments of a block     *)
(* gathered in tmp_buffer, then the stores to the two mapped files, which  *)
(* outlive the process.  The actions are those of one cache; Fragments and *)
(* CrashLink put a caller around them.                                     *)
(*                                                                         *)
(* A byte is a cell: <<k, i>> is byte i of the block with identity k.      *)
(***************************************************************************)
EXTENDS Integers, Sequences

CONSTANTS
  Cells,      \* the bytes blocks are made of
  Hole,       \* a byte of the data file no block was written to
  Junk,       \* a byte of fresh memory nothing was written to
  DCacheSz,   \* cache->cache_sz
  DMinBlk     \* cache->min_blk_size

ASSUME DecoderAssumption ==
  /\ Hole \notin Cells /\ Junk \notin Cells /\ Hole # Junk
  /\ DCacheSz \in Nat \ {0}
  /\ DMinBlk \in Nat

VARIABLES
  mem,             \* data file: cache_data
  dpos,            \* index file: data_pos_wr,
  last_block_size,
  dtotal,          \*   nb_total_block,
  dnb,             \*   and nb_block
  tmp,             \* memory: tmp_buffer, up to tmp_block_len,
  tmp_buffer_len,  \*   the length realloc was last asked for,
  tmp_null,        \*   and whether realloc failed
  dpc              \* where the call is; "down" without a process

dfile == <<mem, dpos, last_block_size, dtotal, dnb>>
dmem == <<tmp, tmp_buffer_len, tmp_null>>
decVars == <<dfile, dmem, dpc>>

DBlank == [p \in 0..(DCacheSz - 1) |-> Hole]

DecInit ==
  /\ mem = DBlank
  /\ dpos = 0 /\ last_block_size = 0 /\ dtotal = 0 /\ dnb = 0
  /\ tmp = <<>> /\ tmp_buffer_len = 0 /\ tmp_null = TRUE
  /\ dpc = "idle"

(* new_dre_cache.                                                          *)
DecCreate ==
  /\ mem' = DBlank
  /\ dpos' = 0 /\ last_block_size' = 0 /\ dtotal' = 0 /\ dnb' = 0
  /\ tmp' = <<>> /\ tmp_buffer_len' = 0 /\ tmp_null' = TRUE
  /\ dpc' = "idle"

(* It makes the data file first: the process dies before it comes to the   *)
(* index.                                                                  *)
DecCreateDies ==
  /\ dpc = "down"
  /\ mem' = DBlank
  /\ UNCHANGED <<dpos, last_block_size, dtotal, dnb, dmem, dpc>>

(* reset_dre_cache.  It leaves the data as it is, and what was gathered of *)
(* a block.                                                                *)
DecReset ==
  /\ dpc = "idle"
  /\ dpos' = 0 /\ last_block_size' = 0 /\ dtotal' = 0 /\ dnb' = 0
  /\ UNCHANGED <<mem, dmem, dpc>>

(* What is at [pos, pos + len): for a reference, what the caller finds at  *)
(* the pointer it is given.                                                *)
ReadMem(pos, len) ==
  [i \in 1..len |-> IF pos + i - 1 \in DOMAIN mem THEN mem[pos + i - 1] ELSE Hole]

-----------------------------------------------------------------------------
(* rabin_decompress_block of a fragment.  tmp_buffer grows if it must; the *)
(* fragment is appended; if it is the last one and the block is not too    *)
(* small, the stores to the dictionary follow.                             *)
LongEnoughAbove(n) == n > DMinBlk                            \* faulty variant
LongEnough(n) == n >= DMinBlk
Grows(bytes) == Len(bytes) + Len(tmp) > tmp_buffer_len

(* What realloc leaves of the bytes already there: nothing, when the       *)
(* buffer was lost to an earlier failure.                                  *)
Kept == IF tmp_null THEN [i \in 1..Len(tmp) |-> Junk] ELSE tmp

AppendFragment(bytes, last) ==
  /\ dpc = "idle"
  /\ Grows(bytes) \/ ~tmp_null
  /\ LET grown == IF Grows(bytes) THEN Kept \o bytes ELSE tmp \o bytes
     IN tmp' = IF last /\ ~LongEnough(Len(grown)) THEN <<>> ELSE grown
  /\ IF Grows(bytes) THEN tmp_buffer_len' = Len(bytes) + Len(tmp) /\ tmp_null' = FALSE
                     ELSE UNCHANGED <<tmp_buffer_len, tmp_null>>
  /\ dpc' = IF last /\ LongEnough(Len(tmp) + Len(bytes)) THEN "rotate" ELSE "idle"
  /\ UNCHANGED dfile

(* realloc fails: 0 is returned, the fragment is dropped and the pointer   *)
(* to what was gathered is overwritten with null; both lengths stay.       *)
ReallocFails(bytes) ==
  /\ dpc = "idle"
  /\ Grows(bytes)
  /\ tmp_null' = TRUE
  /\ UNCHANGED <<dfile, tmp, tmp_buffer_len, dpc>>

(* A later fragment that fits the length asked for then is copied to null. *)
CopyToNull(bytes) ==
  /\ dpc = "idle"
  /\ ~Grows(bytes) /\ tmp_null
  /\ dpc' = "dead"
  /\ UNCHANGED <<dfile, dmem>>

-----------------------------------------------------------------------------
(* edge_cache_decomp, write_block_to_cache and the header.                 *)
DecRotateAtEnd ==                                            \* faulty variant
  /\ dpc = "rotate"
  /\ dpos' = IF dpos + Len(tmp) >= DCacheSz THEN 0 ELSE dpos
  /\ dpc' = "copy"
  /\ UNCHANGED <<mem, last_block_size, dtotal, dnb, dmem>>

DecRotate ==
  /\ dpc = "rotate"
  /\ dpos' = IF dpos + Len(tmp) > DCacheSz THEN 0 ELSE dpos
  /\ dpc' = "copy"
  /\ UNCHANGED <<mem, last_block_size, dtotal, dnb, dmem>>

(* The data file after the bytes at S, out of those to be written, are.    *)
Written(S) ==
  [p \in DOMAIN mem |-> IF p \in S THEN tmp[p - dpos + 1] ELSE mem[p]]
Target == dpos..(dpos + Len(tmp) - 1)

DecCopy ==
  /\ dpc = "copy"
  /\ mem' = Written(Target)
  /\ dpc' = "advance"
  /\ UNCHANGED <<dpos, last_block_size, dtotal, dnb, dmem>>

DecAdvance ==
  /\ dpc = "advance"
  /\ dpos' = dpos + Len(tmp)
  /\ dpc' = "size"
  /\ UNCHANGED <<mem, last_block_size, dtotal, dnb, dmem>>

DecSetSize ==
  /\ dpc = "size"
  /\ last_block_size' = Len(tmp)
  /\ dpc' = "total"
  /\ UNCHANGED <<mem, dpos, dtotal, dnb, dmem>>

DecCountTotal ==
  /\ dpc = "total"
  /\ dtotal' = dtotal + 1
  /\ dpc' = "count"
  /\ UNCHANGED <<mem, dpos, last_block_size, dnb, dmem>>

DecCountBlockKeepsTmp ==                                     \* faulty variant
  /\ dpc = "count"
  /\ dnb' = dnb + 1
  /\ dpc' = "idle"
  /\ UNCHANGED <<mem, dpos, last_block_size, dtotal, dmem>>

DecCountBlock ==
  /\ dpc = "count"
  /\ dnb' = dnb + 1
  /\ tmp' = <<>>
  /\ dpc' = "idle"
  /\ UNCHANGED <<mem, dpos, last_block_size, dtotal, tmp_buffer_len, tmp_null>>

DecStep ==
  \/ DecRotate \/ DecCopy \/ DecAdvance \/ DecSetSize \/ DecCountTotal \/ DecCountBlock

-----------------------------------------------------------------------------
(* The process dies.  A copy it was in the middle of may have written any  *)
(* part of the bytes.                                                      *)
DecCrash ==
  /\ dpc # "down"
  /\ IF dpc = "copy" THEN \E S \in SUBSET Target : mem' = Written(S) ELSE UNCHANGED mem
  /\ tmp' = <<>> /\ tmp_buffer_len' = 0 /\ tmp_null' = TRUE
  /\ dpc' = "down"
  /\ UNCHANGED <<dpos, last_block_size, dtotal, dnb>>

(* decomp_load_dre_cache.  The crc it returns is that of the bytes before  *)
(* the writing position, as many as last_block_size says; the bytes stand  *)
(* for it.  A position below the size makes it read before the mapping,    *)
(* which ends the process or gives bytes that are no block's.              *)
LastBlockCrc == ReadMem(dpos - last_block_size, last_block_size)

DecLoad ==
  /\ dpc = "down"
  /\ dpc' = "idle"
  /\ UNCHANGED <<dfile, dmem>>
=============================================================================
