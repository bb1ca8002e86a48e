------------------------------ MODULE Records ------------------------------
(***************************************************************************)
(* The file between the two programs.  compress.c writes a record for each *)
(* buffer, field by field; it may be stopped, or the disk be full, in the  *)
(* middle of any of them.  decompress.c then reads what there is, field by *)
(* field, and hands the blocks over whole or in fragments (TEST_FRAG_BLK). *)
(*                                                                         *)
(* A byte of the file is <<r, f, i>>, byte i of field f of record r; what  *)
(* the library does in between is the matter of DreLink and Fragments; its *)
(* calls succeed here.                                                     *)
(***************************************************************************)
EXTENDS Integers, SequencesExt

CONSTANTS
  Lens,        \* the lengths a block may have
  OffsetSz,    \* sizeof(dict_offset)
  LenSz,       \* sizeof(blk_len)
  FragSz,      \* FRAG_SZ
  MaxRecords   \* bound on the records written, for model checking

ASSUME RecordsAssumption ==
  /\ Lens \subseteq Nat \ {0}
  /\ {OffsetSz, LenSz, FragSz} \subseteq Nat \ {0}
  /\ MaxRecords \in Nat

VARIABLES
  file,     \* the bytes in the file
  sent,     \* the records begun: compressed (0 or 1) and blk_len
  writing,  \* the field compress.c writes next; "next" between records, "ended"
  frags,    \* decompress.c is built with TEST_FRAG_BLK
  reading,  \* the field it reads next; "put" when it has a block, "done"
  pos,      \* how much of the file it has read
  compressed, offset, len, buff,  \* what it read last
  starved,  \* it ended because realloc failed
  i,        \* where the next fragment starts
  out       \* the bytes it has put out: <<r, n>> is byte n of the block of record r

compVars == <<file, sent, writing>>
block == <<compressed, offset, len, buff>>
decVars == <<frags, reading, pos, block, starved, i, out>>
vars == <<compVars, decVars>>

(* The fields of a record: the order in which both programs take them, and *)
(* their widths.                                                           *)
After(f, c) ==
  CASE f = "flag" -> IF c = 1 THEN "offset" ELSE "len"
    [] f = "offset" -> "len"
    [] f = "len" -> IF c = 1 THEN "put" ELSE "data"
    [] f = "data" -> "put"
Width(f, n) ==
  CASE f = "flag" -> 1 [] f = "offset" -> OffsetSz [] f = "len" -> LenSz [] f = "data" -> n
Field(r, f) == [n \in 1..Width(f, sent[r].len) |-> <<r, f, n>>]

Init ==
  /\ file = <<>> /\ sent = <<>> /\ writing = "next"
  /\ frags \in BOOLEAN
  /\ reading = "flag" /\ pos = 0
  /\ compressed = 0 /\ offset = 0 /\ len = 0 /\ buff = <<>> /\ i = 0
  /\ starved = FALSE /\ out = <<>>

-----------------------------------------------------------------------------
(* compress.c.                                                             *)
NewRecord(c, n) ==
  /\ writing = "next" /\ Len(sent) < MaxRecords
  /\ sent' = Append(sent, [compressed |-> c, len |-> n])
  /\ writing' = "flag"
  /\ UNCHANGED <<file, decVars>>

(* One write, the last if it does not write everything.                    *)
WriteField ==
  /\ writing \notin {"next", "ended"}
  /\ LET r == Len(sent)
         next == After(writing, sent[r].compressed)
         bytes == Field(r, writing)
     IN \E n \in 0..Len(bytes) :
          /\ file' = file \o SubSeq(bytes, 1, n)
          /\ writing' = IF n < Len(bytes) THEN "ended" ELSE IF next = "put" THEN "next" ELSE next
  /\ UNCHANGED <<sent, decVars>>

EndWriting ==
  /\ writing = "next"
  /\ writing' = "ended"
  /\ UNCHANGED <<file, sent, decVars>>

-----------------------------------------------------------------------------
(* decompress.c.  read gives what there is, up to n bytes; the value of a  *)
(* field is known if the bytes are those of one record's field.            *)
Got(n) == SubSeq(file, pos + 1, IF pos + n < Len(file) THEN pos + n ELSE Len(file))
IsField(bytes, f) ==
  /\ bytes # <<>>
  /\ bytes = [n \in 1..Len(bytes) |-> <<bytes[1][1], f, n>>]
RecordOf(bytes) == bytes[1][1]
Reads(f) == writing = "ended" /\ reading = f

ReadFlag ==
  /\ Reads("flag")
  /\ IF Got(1) = <<>> THEN reading' = "done" /\ UNCHANGED <<pos, compressed>>
     ELSE /\ compressed' = IF IsField(Got(1), "flag") THEN sent[RecordOf(Got(1))].compressed ELSE 2
          /\ reading' = IF compressed' \in {0, 1} THEN After("flag", compressed') ELSE "done"
          /\ pos' = pos + 1
  /\ UNCHANGED <<compVars, frags, offset, len, buff, starved, i, out>>

(* Anything but a full read, an error too, ends the program.               *)
ShortNone(n) == Len(Got(n)) = 0                              \* faulty variant
ShortAtEnd(n) == pos + n >= Len(file)                        \* faulty variant
Short(n) == Len(Got(n)) # n
ReadWhole(n, f, c) ==
  IF Short(n) THEN reading' = "done" /\ UNCHANGED pos
              ELSE reading' = After(f, c) /\ pos' = pos + n

ReadOffset ==
  /\ Reads("offset")
  /\ ReadWhole(OffsetSz, "offset", compressed)
  /\ offset' = IF IsField(Got(OffsetSz), "offset") THEN RecordOf(Got(OffsetSz)) ELSE 0
  /\ UNCHANGED <<compVars, frags, compressed, len, buff, starved, i, out>>

ReadLen ==
  /\ Reads("len")
  /\ ReadWhole(LenSz, "len", compressed)
  /\ len' = IF IsField(Got(LenSz), "len") THEN sent[RecordOf(Got(LenSz))].len ELSE 0
  /\ UNCHANGED <<compVars, frags, compressed, offset, buff, starved, i, out>>

ReadData ==
  /\ Reads("data")
  /\ \/ ReadWhole(len, "data", compressed) /\ buff' = Got(len) /\ UNCHANGED starved
     \/ reading' = "done" /\ starved' = TRUE /\ UNCHANGED <<pos, buff>>
  /\ i' = 0
  /\ UNCHANGED <<compVars, frags, compressed, offset, len, out>>

(* A reference is put out from the dictionary, a new block from buff.      *)
PutReference ==
  /\ Reads("put") /\ compressed = 1
  /\ out' = out \o [n \in 1..len |-> <<offset, n>>]
  /\ reading' = "flag"
  /\ UNCHANGED <<compVars, frags, pos, block, starved, i>>

(* Bytes from + 1 to from + n of buff; one that was not read is no byte.   *)
BytesAt(from, n) ==
  [m \in 1..n |-> <<RecordOf(buff), IF from + m \in DOMAIN buff THEN buff[from + m][3] ELSE 0>>]

(* A fragment, and the last one.                                           *)
MoreToCome == i + FragSz < len
PutFragment ==
  /\ Reads("put") /\ compressed = 0 /\ frags
  /\ MoreToCome
  /\ out' = out \o BytesAt(i, FragSz)
  /\ i' = i + FragSz
  /\ UNCHANGED <<compVars, frags, reading, pos, block, starved>>

PutRest ==
  /\ Reads("put") /\ compressed = 0
  /\ frags => ~MoreToCome
  /\ out' = out \o BytesAt(i, len - i)
  /\ reading' = "flag"
  /\ UNCHANGED <<compVars, frags, pos, block, starved, i>>

Decompress ==
  \/ ReadFlag \/ ReadOffset \/ ReadLen \/ ReadData
  \/ PutReference \/ PutFragment \/ PutRest

Next ==
  \/ \E c \in {0, 1}, n \in Lens : NewRecord(c, n)
  \/ WriteField \/ EndWriting
  \/ Decompress

(* The two programs go on by themselves.                                   *)
Spec == Init /\ [][Next]_vars
FairSpec == Spec /\ WF_vars(Decompress)

-----------------------------------------------------------------------------
(* The records of which every field is in the file, and their blocks.      *)
Complete ==
  {r \in DOMAIN sent :
     LET f == IF sent[r].compressed = 1 THEN "len" ELSE "data"
     IN Contains(file, <<r, f, Width(f, sent[r].len)>>)}
Block(r) == [n \in 1..sent[r].len |-> <<r, n>>]
Whole == FlattenSeq([r \in 1..Len(sent) |-> IF r \in Complete THEN Block(r) ELSE <<>>])

(* Wherever the file was cut off, decompress puts out the blocks of the    *)
(* records that are complete, each byte once and in order; of the one that *)
(* is cut off, nothing.                                                    *)
NothingOfACutRecord == IsPrefix(out, Whole)

(* It gets to the end of them, and ends, unless for want of memory sooner. *)
EndsWithWhole == writing = "ended" ~> reading = "done" /\ (out = Whole \/ starved)
=============================================================================
