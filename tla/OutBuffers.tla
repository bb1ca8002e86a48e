----------------------------- MODULE OutBuffers -----------------------------
(***************************************************************************)
(* What a call of rabin_compress_buffer or rabin_flush returns: a list of  *)
(* c_buff_t whose data fields point into memory of the cache, which later  *)
(* blocks of the same call may overwrite, or move.                         *)
(*                                                                         *)
(* The two builds of the library decide alike which blocks are new and     *)
(* differ in where write_block_to_cache puts the bytes; both are followed  *)
(* side by side.  By default the data area itself is written.  With        *)
(* DRE_COMP the bytes go to a buffer that starts again with every call and *)
(* grows if it must (the `fake' cache).                                    *)
(*                                                                         *)
(* The caller is compress.c's: it is done with a list before it calls      *)
(* again.                                                                  *)
(*                                                                         *)
(* A call in which edge_cache runs out of blocks is left out: the data     *)
(* area is one of RoomForThree, where there is none (NeverFaults).         *)
(***************************************************************************)
EXTENDS DreCache, Sequences

CONSTANTS
  FakeSz,   \* DRE_FAKE_CACHE_SZ
  NoByte,   \* a byte nothing was written to
  MaxOuts   \* bound on the blocks formed in a call, for model checking

ASSUME OutAssumption ==
  /\ FakeSz \in Nat \ {0}
  /\ MaxOuts \in Nat

VARIABLES
  area,           \* default build: the bytes at cache_data
  fake,           \* DRE_COMP: the bytes at cache_data, as many as fake_cache_sz says
  fake_pos,       \* where the next go
  calling,        \* "no", "compress", "returned" with a list not yet consumed, "dead"
  outs,           \* the list from out_head on
  tail_null,      \* out_tail is null though out_head is not
  formed, failed, \* history, of the call: the blocks formed, whether a malloc failed,
  fresh, room     \*   the bytes written, the size of fake when it began

fakeVars == <<fake, fake_pos>>
history == <<formed, failed, fresh, room>>
callVars == <<calling, outs, tail_null>>
outVars == <<vars, area, fakeVars, callVars, history>>

fake_cache_sz == Len(fake)
Unwritten(n) == [p \in 1..n |-> NoByte]
Byte(k, i) == <<k, i>>

OutInit ==
  /\ Init
  /\ area = Unwritten(CacheSz)
  /\ fake = Unwritten(FakeSz) /\ fake_pos = 0
  /\ calling = "no" /\ outs = <<>> /\ tail_null = FALSE
  /\ formed = <<>> /\ failed = FALSE /\ fresh = 0 /\ room = FakeSz

-----------------------------------------------------------------------------
(* The bytes of k at pos and after.                                        *)
Put(bytes, pos, k) ==
  [p \in DOMAIN bytes |-> IF p - pos \in 1..BlkLen[k] THEN Byte(k, p - pos) ELSE bytes[p]]

(* write_block_to_cache, once H_lookup has not found the block: in the     *)
(* data area, or in the buffer, which grows if it must (twice, for a block *)
(* in two parts, to the same size).                                        *)
FakeEndShort(k) == fake_pos + BlkLen[k] - 1                  \* faulty variant
FakeEnd(k) == fake_pos + BlkLen[k]
Grows(k) == ~out'.compressed /\ FakeEnd(k) > fake_cache_sz

WriteBlock(k) ==
  IF out'.compressed THEN UNCHANGED <<area, fake, fresh>>
  ELSE /\ area' = Put(area, out'.dict_offset, k)
       /\ fake' = Put(IF Grows(k) THEN fake \o Unwritten(FakeEnd(k) - fake_cache_sz) ELSE fake,
                      fake_pos, k)
       /\ fresh' = fresh + BlkLen[k]

(* realloc leaves the bytes alone and may move them: what points to them   *)
(* from the list dangles.                                                  *)
Moved(k) ==
  {outs} \cup
  IF Grows(k) THEN {[i \in DOMAIN outs |-> [outs[i] EXCEPT !.dangles = TRUE]]} ELSE {}

(* new_out_buff: data points to pos in the default build and to fpos with  *)
(* DRE_COMP; own is the stream's own buffer, for a tail too small to cache.*)
Buffer(k) ==
  [key |-> k, compressed |-> out'.compressed, pos |-> out'.dict_offset,
   fpos |-> IF out'.compressed THEN out'.dict_offset ELSE fake_pos,
   dangles |-> FALSE, own |-> FALSE]
OwnBuffer(k) ==
  [key |-> k, compressed |-> FALSE, pos |-> 0, fpos |-> 0, dangles |-> FALSE, own |-> TRUE]

(* insert_block_out, of what malloc gave or of null.                       *)
InsertBlockOutFirst(list, k) ==                              \* faulty variant
  \/ outs' = <<Buffer(k)>> \o list /\ UNCHANGED <<tail_null, failed>>
  \/ outs' = list /\ tail_null' = (list # <<>>) /\ failed' = TRUE

InsertBlockOut(list, k) ==
  \/ outs' = Append(list, Buffer(k)) /\ UNCHANGED <<tail_null, failed>>
  \/ outs' = list /\ tail_null' = (list # <<>>) /\ failed' = TRUE

-----------------------------------------------------------------------------
BeginCall ==
  /\ calling = "no"
  /\ calling' = "compress"
  /\ room' = fake_cache_sz
  /\ UNCHANGED <<vars, area, fakeVars, outs, tail_null, formed, failed, fresh>>

(* A block boundary in rabin_compress_buffer.  The process dies when the   *)
(* block is linked through a null out_tail, or copied to where a realloc   *)
(* that failed points.                                                     *)
Dies == calling' = "dead" /\ UNCHANGED <<outs, tail_null, failed>>
FormBlock(k) ==
  /\ calling = "compress" /\ Len(formed) < MaxOuts
  /\ BlkLen[k] >= StreamMin
  /\ Hit(k) \/ Insert(k)
  /\ WriteBlock(k)
  /\ fake_pos' = fake_pos + fresh' - fresh
  /\ formed' = Append(formed, k)
  /\ \/ ~tail_null /\ UNCHANGED calling /\ \E list \in Moved(k) : InsertBlockOut(list, k)
     \/ (tail_null \/ Grows(k)) /\ Dies
  /\ UNCHANGED room

(* Its end: what is left of the buffer is kept for the next call.          *)
EndCallKeepsPos ==                                           \* faulty variant
  /\ calling = "compress"
  /\ calling' = "returned" /\ tail_null' = FALSE
  /\ UNCHANGED <<vars, area, fake, fake_pos, outs, history>>

EndCall ==
  /\ calling = "compress"
  /\ calling' = "returned" /\ tail_null' = FALSE
  /\ fake_pos' = 0
  /\ UNCHANGED <<vars, area, fake, outs, history>>

(* rabin_flush returns one buffer.  Without memory for it the block is     *)
(* lost from the output; if it is too small to cache, the process dies.    *)
FlushTail(k) ==
  /\ calling = "no"
  /\ \/ /\ FlushSmall(k)
        /\ UNCHANGED <<area, fake, fresh, tail_null>>
        /\ UNCHANGED failed
        /\ \/ outs' = <<OwnBuffer(k)>> /\ calling' = "returned"
           \/ calling' = "dead" /\ UNCHANGED outs
     \/ /\ BlkLen[k] >= MinBlk
        /\ Hit(k) \/ Insert(k)
        /\ WriteBlock(k)
        /\ \/ InsertBlockOut(outs, k) /\ calling' = "returned"
           \/ Grows(k) /\ Dies
  /\ fake_pos' = 0
  /\ formed' = <<k>> /\ room' = fake_cache_sz

(* compress.c writes out the list and frees it.                            *)
Consume ==
  /\ calling = "returned"
  /\ calling' = "no" /\ outs' = <<>>
  /\ formed' = <<>> /\ failed' = FALSE /\ fresh' = 0
  /\ UNCHANGED <<vars, area, fakeVars, tail_null, room>>

(* close_cache, and comp_load_dre_cache of every block: the data area is   *)
(* the file's, the fake cache a new one.                                   *)
ReopenCache ==
  /\ calling = "no"
  /\ Load(0)
  /\ fake' = Unwritten(FakeSz) /\ fake_pos' = 0
  /\ UNCHANGED <<area, callVars, history>>

OutNext ==
  \/ BeginCall
  \/ \E k \in Keys : FormBlock(k) \/ FlushTail(k)
  \/ EndCall
  \/ Consume
  \/ ReopenCache

OutSpec == OutInit /\ [][OutNext]_outVars
-----------------------------------------------------------------------------
(* The types of what a call adds to the cache; the fake cache never falls  *)
(* below the size it was created with, and is at its start between calls.  *)
OutTypeOK ==
  /\ Len(area) = CacheSz
  /\ fake_cache_sz >= FakeSz
  /\ fake_pos \in 0..fake_cache_sz
  /\ calling # "compress" => ~tail_null \/ calling = "dead"
  /\ calling \in {"no", "returned"} => fake_pos = 0
  /\ \A i \in DOMAIN outs : outs[i].key \in Keys

NewBlocks == {i \in DOMAIN outs : ~outs[i].compressed /\ ~outs[i].own}
HasBytes(bytes, pos, k) ==
  \A i \in 1..BlkLen[k] : pos + i \in DOMAIN bytes /\ bytes[pos + i] = Byte(k, i)

(* Default build (dre.c:713): the blocks a call stores do not overwrite    *)
(* one another before the caller has seen them, as long as together they   *)
(* leave the data area room for the gap of a rotation.                     *)
DataIntact ==
  fresh <= CacheSz - MaxLen + 1 =>
    \A i \in NewBlocks : HasBytes(area, outs[i].pos, outs[i].key)

(* DRE_COMP (dre.c:670): no buffer of the list dangles and each has its    *)
(* bytes, as long as the blocks of the call fit the fake cache as the call *)
(* found it; earlier calls, flushes and reloads leave no trace in it.      *)
FakeIntact ==
  fresh <= room =>
    \A i \in NewBlocks :
      ~outs[i].dangles /\ HasBytes(fake, outs[i].fpos, outs[i].key)

(* The fake cache grows to what one call needs and no further, however     *)
(* many calls are made.                                                    *)
GrowsToOneCall == [][fake_cache_sz' > fake_cache_sz => fake_cache_sz' = fresh']_outVars

(* The list is the blocks formed, in order.  If malloc failed on the way   *)
(* (dre.c:825 and the FIXMEs like it), it lacks blocks at its beginning,   *)
(* or the last one: losing one in between would have killed the process.   *)
ListIsFormed ==
  calling = "returned" =>
    \E i \in 1..(Len(formed) + 1), j \in {Len(formed) - 1, Len(formed)} :
      /\ [n \in DOMAIN outs |-> outs[n].key] = SubSeq(formed, i, j)
      /\ ~failed => i = 1 /\ j = Len(formed)

(* test_rabin.sh:84 compares a file with what comes back of it: `diff      *)
(* $TEST_FILE $TEST_FILE.comp.decomp'.  For that compress.c, which writes  *)
(* each new block from where its data points, must find it there.          *)
ReadsNothingFreed ==
  calling = "returned" => \A i \in NewBlocks : ~outs[i].dangles
=============================================================================
