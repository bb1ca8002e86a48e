----------------------------- MODULE Fragments -----------------------------
(***************************************************************************)
(* The decompressor of Decoder with the callers it has to serve: several   *)
(* streams (dre_stream_t) over one cache, each of which hands over its     *)
(* blocks in as many fragments as it likes.  tmp_buffer belongs to the     *)
(* cache, so the streams share it.                                         *)
(***************************************************************************)
EXTENDS Decoder, FiniteSets

CONSTANTS
  Streams,
  Keys, BlkLen,  \* the blocks and their lengths
  MaxBlocks      \* bound on the blocks begun, for model checking

(* The compressor forms no block of length 0.                              *)
ASSUME FragmentsAssumption == BlkLen \in [Keys -> Nat \ {0}]

VARIABLES
  rest,      \* per stream, what is left to hand over of its block
  begun,     \* the number of blocks begun
  log,       \* history: what was given to the dictionary, and whether it is clean:
  disturbed  \*   since tmp_buffer was empty no call failed and no streams met in it

envVars == <<rest, begun, log, disturbed>>
vars == <<decVars, envVars>>

Bytes(k) == [i \in 1..BlkLen[k] |-> <<k, i>>]

Init ==
  /\ DecInit
  /\ rest = [s \in Streams |-> <<>>]
  /\ begun = 0
  /\ log = <<>> /\ disturbed = FALSE

BeginBlock(s) ==
  /\ dpc = "idle" /\ rest[s] = <<>> /\ begun < MaxBlocks
  /\ \E k \in Keys : rest' = [rest EXCEPT ![s] = Bytes(k)]
  /\ begun' = begun + 1
  /\ UNCHANGED <<decVars, log, disturbed>>

(* Stream s hands over its next n bytes (decompress.c, TEST_FRAG_BLK).     *)
UnderWay(t) == rest[t] # <<>> /\ rest[t][1][2] > 1
HandOver(s, n) ==
  LET bytes == SubSeq(rest[s], 1, n)
      last == n = Len(rest[s])
      meets == \E t \in Streams \ {s} : UnderWay(t)
      clean == ~disturbed /\ ~meets
  IN
  /\ rest' = [rest EXCEPT ![s] = SubSeq(@, n + 1, Len(@))]
  /\ \/ /\ AppendFragment(bytes, last)
        /\ disturbed' = IF last THEN meets ELSE ~clean
        /\ log' = IF dpc' = "rotate" THEN Append(log, [bytes |-> tmp', clean |-> clean])
                                    ELSE log
     \/ /\ ReallocFails(bytes) \/ CopyToNull(bytes)
        /\ disturbed' = TRUE
        /\ UNCHANGED log
  /\ UNCHANGED begun

Continue == DecStep /\ UNCHANGED envVars

(* The cache is reset, possibly in the middle of a block.                  *)
ResetMark == [bytes |-> <<>>, clean |-> FALSE]
Reset ==
  /\ log # <<>> /\ log[Len(log)] # ResetMark
  /\ DecReset
  /\ log' = Append(log, ResetMark)
  /\ UNCHANGED <<rest, begun, disturbed>>

Next ==
  \/ \E s \in Streams : BeginBlock(s) \/ \E n \in DOMAIN rest[s] : HandOver(s, n)
  \/ Continue
  \/ Reset

Spec == Init /\ [][Next]_vars

-----------------------------------------------------------------------------
(* Reference: the two files after each entry of a log, which is written    *)
(* whole at the end of the one before, or at 0 if it does not fit; a reset *)
(* goes back to 0.                                                         *)
StartOf(d, e) == IF e = ResetMark \/ d.pos + Len(e.bytes) > DCacheSz THEN 0 ELSE d.pos
Stored(d, e) ==
  LET start == StartOf(d, e) IN
  [mem |-> [p \in DOMAIN d.mem |->
              IF p \in start..(start + Len(e.bytes) - 1)
                THEN e.bytes[p - start + 1] ELSE d.mem[p]],
   pos |-> start + Len(e.bytes)]
Files(list) ==
  LET d[n \in 0..Len(list)] ==
        IF n = 0 THEN [mem |-> DBlank, pos |-> 0] ELSE Stored(d[n - 1], list[n])
  IN d
Dictionary == Files(log)[Len(log)]

SinceReset == {i \in DOMAIN log : \A j \in i..Len(log) : log[j] # ResetMark}

(* Between calls the two files are those of the log, whatever the sizes of *)
(* the fragments, the order in which streams took turns, the blocks too    *)
(* small to keep, the calls that failed and the resets on the way: the     *)
(* compressor, which computes offsets from whole blocks, has the same ones.*)
FilesAreLog ==
  dpc = "idle" =>
    /\ mem = Dictionary.mem
    /\ dpos = Dictionary.pos
    /\ dtotal = Cardinality(SinceReset)
    /\ log # <<>> => LastBlockCrc = log[Len(log)].bytes

(* A block that had tmp_buffer to itself, in calls that all succeeded,     *)
(* enters the dictionary whole: nothing of the blocks before it is left    *)
(* in the buffer, of those that failed or met others there either.         *)
CleanIsWhole == \A i \in DOMAIN log : log[i].clean => \E k \in Keys : log[i].bytes = Bytes(k)
=============================================================================
