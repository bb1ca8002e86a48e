-------------------------------- MODULE Rabin --------------------------------
(***************************************************************************)
(* How a dre_stream_t cuts a stream of bytes into blocks: the loop of      *)
(* rabin_compress_buffer over the buffers it is given, whatever their      *)
(* sizes, and rabin_flush.  What happens to a block once it is formed is   *)
(* the subject of DreCache.                                                *)
(*                                                                         *)
(* The crc of a block is modelled by the bytes it is computed from.        *)
(***************************************************************************)
EXTENDS Integers, Sequences, FiniteSetsExt

CONSTANTS
  Bytes,      \* the values of a byte
  FpMod,      \* 2^64, the modulus of the fingerprint
  AvgMod,     \* avg_blk_size_bit_mask + 1
  WinSz,      \* ctx->win_sz
  MinWinSz,   \* MIN_WIN_SZ: the lookup table has no smaller window
  MinBlkSz,   \* ctx->min_blk_sz
  MaxBlkSz,   \* ctx->max_blk_sz, 0 for no limit
  BuffMax,    \* bound on the size of a buffer, for model checking
  StreamMax   \* bound on the bytes of the stream, for model checking

ASSUME RabinAssumption ==
  /\ Bytes \subseteq Nat
  /\ {FpMod, AvgMod, WinSz} \subseteq Nat \ {0}
  /\ FpMod % AvgMod = 0
  /\ {MinWinSz, MinBlkSz, MaxBlkSz, BuffMax, StreamMax} \subseteq Nat

RAB_P == 3

VARIABLES
  ctx,      \* the dre_stream_t
  blocks,   \* the blocks formed so far
  stream,   \* history: the bytes given so far,
  flushed   \*   and how many there were each time rabin_flush formed a block

vars == <<ctx, blocks, stream, flushed>>

Init ==
  /\ ctx = [idx |-> 0, fp |-> 0, crc |-> <<>>, blk_len |-> 0,
            tmp_blk |-> <<>>, tmp_win |-> [i \in 1..WinSz |-> 0]]
  /\ blocks = <<>>
  /\ stream = <<>>
  /\ flushed = {}

-----------------------------------------------------------------------------
Pow[n \in Nat] == IF n = 0 THEN 1 ELSE RAB_P * Pow[n-1] % FpMod

(* init_rabin_lookup_table: what a byte contributes when it leaves.        *)
GoutAtWinSz(b) == b * Pow[WinSz] % FpMod                     \* faulty variant
Gout(b) == IF WinSz < MinWinSz THEN 0 ELSE b * Pow[WinSz - 1] % FpMod

(* The byte that leaves the window when buff[i] enters it.                 *)
PushedOutNext(buff, i) ==                                    \* faulty variant
  IF i < WinSz THEN ctx.tmp_win[i + 1] ELSE buff[i - WinSz + 2]
PushedOut(buff, i) == IF i < WinSz THEN ctx.tmp_win[i + 1] ELSE buff[i - WinSz + 1]

(* One byte into the fingerprint, the crc and the block; run is the stream *)
(* context with the loop's own variables.                                  *)
RollByte(run, buff, i) ==
  LET fp == IF run.idx >= WinSz THEN run.fp - Gout(PushedOut(buff, i)) ELSE run.fp
  IN [run EXCEPT
        !.fp = (fp * RAB_P + buff[i + 1]) % FpMod,
        !.crc = Append(@, buff[i + 1]),
        !.idx = @ + 1,
        !.blk_len = @ + 1,
        !.in_buff = @ + 1]

IsBoundaryAboveMin(run) ==                                   \* faulty variant
  /\ run.blk_len > MinBlkSz
  /\ \/ run.fp % AvgMod = 0
     \/ MaxBlkSz > 0 /\ run.blk_len >= MaxBlkSz

IsBoundary(run) ==
  /\ run.blk_len >= MinBlkSz
  /\ \/ run.fp % AvgMod = 0
     \/ MaxBlkSz > 0 /\ run.blk_len >= MaxBlkSz

(* A block is complete: what was kept of it from earlier buffers, then its *)
(* part of this one.                                                       *)
FormBlockKeepsRest(run, buff, i) ==                          \* faulty variant
  [run EXCEPT
     !.formed = Append(@, [len |-> run.blk_len, fp |-> run.fp, crc |-> run.crc,
                           data |-> run.tmp_blk \o
                             SubSeq(buff, run.blk_start + 1, run.blk_start + run.in_buff)]),
     !.blk_len = 0,
     !.in_buff = 0,
     !.blk_start = i + 1,
     !.crc = <<>>]

FormBlock(run, buff, i) ==
  [run EXCEPT
     !.formed = Append(@, [len |-> run.blk_len, fp |-> run.fp, crc |-> run.crc,
                           data |-> run.tmp_blk \o
                             SubSeq(buff, run.blk_start + 1, run.blk_start + run.in_buff)]),
     !.blk_len = 0,
     !.in_buff = 0,
     !.blk_start = i + 1,
     !.crc = <<>>,
     !.tmp_blk = <<>>]

(* The loop over the buffer: its state after the first n bytes.            *)
TakeByte(run, buff, i) ==
  LET rolled == RollByte(run, buff, i)
  IN IF IsBoundary(rolled) THEN FormBlock(rolled, buff, i) ELSE rolled

Scan(buff) ==
  LET start == [idx |-> ctx.idx, fp |-> ctx.fp, crc |-> ctx.crc, blk_len |-> ctx.blk_len,
                tmp_blk |-> ctx.tmp_blk, in_buff |-> 0, blk_start |-> 0, formed |-> <<>>]
      run[n \in 0..Len(buff)] == IF n = 0 THEN start ELSE TakeByte(run[n-1], buff, n - 1)
  IN run

(* tmp_win after the buffer: the last WinSz bytes seen.                    *)
NewWindow(buff) ==
  LET sz == Len(buff) IN
  IF sz < WinSz THEN SubSeq(ctx.tmp_win, sz + 1, WinSz) \o buff
                ELSE SubSeq(buff, sz - WinSz + 1, sz)

CompressBuffer(buff) ==
  LET run == Scan(buff)[Len(buff)] IN
  /\ ctx' = [idx |-> run.idx, fp |-> run.fp, crc |-> run.crc, blk_len |-> run.blk_len,
             tmp_blk |-> run.tmp_blk \o SubSeq(buff, run.blk_start + 1, Len(buff)),
             tmp_win |-> NewWindow(buff)]
  /\ blocks' = blocks \o run.formed
  /\ stream' = stream \o buff
  /\ UNCHANGED flushed

(* rabin_flush: the rest becomes a block; the window rolls on.             *)
FlushKeepsCrc ==                                             \* faulty variant
  /\ ctx.tmp_blk # <<>>
  /\ blocks' = Append(blocks, [len |-> Len(ctx.tmp_blk), fp |-> ctx.fp,
                               crc |-> ctx.crc, data |-> ctx.tmp_blk])
  /\ ctx' = [ctx EXCEPT !.tmp_blk = <<>>, !.blk_len = 0]
  /\ flushed' = flushed \cup {Len(stream)}
  /\ UNCHANGED stream

Flush ==
  /\ ctx.tmp_blk # <<>>
  /\ blocks' = Append(blocks, [len |-> Len(ctx.tmp_blk), fp |-> ctx.fp,
                               crc |-> ctx.crc, data |-> ctx.tmp_blk])
  /\ ctx' = [ctx EXCEPT !.tmp_blk = <<>>, !.crc = <<>>, !.blk_len = 0]
  /\ flushed' = flushed \cup {Len(stream)}
  /\ UNCHANGED stream

Next ==
  \/ \E n \in 0..BuffMax : \E buff \in [1..n -> Bytes] :
       Len(stream) + n <= StreamMax /\ CompressBuffer(buff)
  \/ Flush

Spec == Init /\ [][Next]_vars

-----------------------------------------------------------------------------
(* A formed block: the triple it is looked up by, and its bytes.           *)
Block == [len : Nat, fp : 0..(FpMod - 1), crc : Seq(Bytes), data : Seq(Bytes)]

(* The fingerprints of the beginnings of a sequence of bytes, and that of  *)
(* the window that ends with byte p of the stream.                         *)
Fps(bytes) ==
  LET fp[n \in 0..Len(bytes)] == IF n = 0 THEN 0 ELSE (fp[n-1] * RAB_P + bytes[n]) % FpMod
  IN fp
Fingerprint(bytes) == Fps(bytes)[Len(bytes)]
Window(s, p) == SubSeq(s, IF p > WinSz THEN p - WinSz + 1 ELSE 1, p)
WindowFp(p) == Fingerprint(Window(stream, p))

(* Where the n-th block ends in the stream, and what the first n consist   *)
(* of.                                                                     *)
EndOf(list) ==
  LET end[n \in 0..Len(list)] == IF n = 0 THEN 0 ELSE end[n-1] + list[n].len
  IN end
Ends == {EndOf(blocks)[n] : n \in 1..Len(blocks)}
Joined(list) ==
  LET data[n \in 0..Len(list)] == IF n = 0 THEN <<>> ELSE data[n-1] \o list[n].data
  IN data

(* The rolling fingerprint is that of the last WinSz bytes, across buffers *)
(* and flushes, and not of anything before them.                           *)
FpIsWindow == ctx.fp = WindowFp(Len(stream))

(* No byte is lost, doubled or moved between the buffers and the blocks.   *)
NothingLost == Joined(blocks)[Len(blocks)] \o ctx.tmp_blk = stream

(* The length and crc a block is filed under are those of its bytes.       *)
DescribesData ==
  /\ ctx.blk_len = Len(ctx.tmp_blk) /\ ctx.crc = ctx.tmp_blk
  /\ \A i \in 1..Len(blocks) :
       blocks[i].len = Len(blocks[i].data) /\ blocks[i].crc = blocks[i].data

(* The boundaries are a function of the content and of the flushes alone:  *)
(* how the stream was split into buffers leaves no trace.                  *)
ContentDefined ==
  \A p \in 1..Len(stream) :
    LET last == {q \in Ends \cup {0} : q < p}
        len == p - Max(last)
    IN p \in Ends <=> \/ p \in flushed
                      \/ /\ len >= MinBlkSz
                         /\ \/ WindowFp(p) % AvgMod = 0
                            \/ MaxBlkSz > 0 /\ len >= MaxBlkSz

(* A repeated block is recognised: the triple that H_lookup compares is    *)
(* the same for equal blocks, given blocks no shorter than the window.     *)
RepeatsFound ==
  MinBlkSz >= WinSz =>
    \A i, j \in 1..Len(blocks) :
      blocks[i].data = blocks[j].data /\ blocks[i].len >= WinSz =>
        blocks[i].fp = blocks[j].fp
=============================================================================
