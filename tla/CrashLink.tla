----------------------------- MODULE CrashLink -----------------------------
(***************************************************************************)
(* The two ends of DreLink at the granularity of single stores: either     *)
(* process may die between any two of them, in the middle of a block, and  *)
(* be started again on the files it left.  The decompressor then says how  *)
(* far it got (nb_total_block, last_block_crc) and the compressor goes     *)
(* back to that block, if the crc agrees.                                  *)
(***************************************************************************)
EXTENDS Insertion, Decoder, FiniteSets

CONSTANTS
  ChanMax,        \* bound on the messages in transit, for model checking
  ResumesAllowed  \* the kinds of resume that happen; see ResumeKind

(* As CacheAssumption and LinkAssumption of DreCache and DreLink have it.  *)
ASSUME CrashLinkAssumption ==
  /\ MaxLen \in Nat \ {0}
  /\ BlkLen \in [Keys -> 1..MaxLen]
  /\ MinBlk \in Nat
  /\ StreamMin \in Nat
  /\ CacheSz \in Nat \ {0}
  /\ Wrap > CacheSz + MaxLen
  /\ Hole \notin Keys \X Nat
  /\ ChanMax \in Nat

VARIABLES
  chan,     \* the messages written to the stream and not yet read
  coming,   \* the block the decompressor is storing
  got,      \* the bytes last put out
  joined,   \* the stream connects the two processes
  uncounted,\* history: the ends that died with a block stored and not yet counted,
  cut       \*   and how many blocks a load has taken from nb_block only, so far

history == <<uncounted, cut>>
linkVars == <<compVars, decVars, chan, coming, got, joined, history>>

Bytes(k) == [i \in 1..LenOf(k) |-> <<k, i>>]

Init ==
  /\ CompInit /\ DecInit
  /\ chan = <<>> /\ coming = NoKey /\ got = <<>>
  /\ joined = TRUE
  /\ uncounted = {} /\ cut = 0

-----------------------------------------------------------------------------
(* compress.c: what a call has returned is written to the stream.  Nobody  *)
(* reads what is written once the reader has died.                         *)
WriteOut(m) == chan' = IF joined THEN Append(chan, m) ELSE chan

Send(k) ==
  /\ pc = "idle" /\ Len(chan) < ChanMax
  /\ \E m \in AtOnce(k) : WriteOut(m)
  /\ UNCHANGED <<compVars, decVars, coming, got, joined, history>>

BeginInsertion(k) ==
  /\ Len(chan) < ChanMax
  /\ Begin(k)
  /\ UNCHANGED <<decVars, chan, coming, got, joined, history>>

ContinueInsertion ==
  /\ InnerStep
  /\ UNCHANGED <<decVars, chan, coming, got, joined, history>>

EndInsertion ==
  /\ CountTotal
  /\ WriteOut(Inserted)
  /\ UNCHANGED <<decVars, coming, got, joined, history>>

(* decompress.c: the next record is read and decoded; a new block is put   *)
(* out after it has been stored.                                           *)
Receive ==
  /\ joined /\ dpc = "idle" /\ chan # <<>>
  /\ chan' = Tail(chan)
  /\ LET m == Head(chan) IN
     IF m.compressed
       THEN /\ got' = ReadMem(m.dict_offset, LenOf(m.key))
            /\ UNCHANGED <<decVars, coming>>
       ELSE /\ AppendFragment(Bytes(m.key), TRUE)
            /\ IF dpc' = "idle" THEN got' = Bytes(m.key) /\ UNCHANGED coming
                                ELSE coming' = m.key /\ UNCHANGED got
  /\ UNCHANGED <<compVars, joined, history>>

ContinueStore ==
  /\ DecStep
  /\ IF dpc' = "idle" THEN got' = Bytes(coming) /\ coming' = NoKey
                      ELSE UNCHANGED <<got, coming>>
  /\ UNCHANGED <<compVars, chan, joined, history>>

-----------------------------------------------------------------------------
(* The compressor stops, between calls or anywhere.  What it has written   *)
(* is still there to be read; a load that dies has joined nothing.         *)
CompressorStops ==
  /\ CompClose \/ CompCrash
  /\ uncounted' = uncounted \cup (IF pc = "total" THEN {"comp"} ELSE {})
  /\ joined' = (joined /\ pc \notin Loading)
  /\ UNCHANGED <<decVars, chan, coming, got, cut>>

(* The decompressor stops; with it goes what was in transit.               *)
DecompressorStops ==
  /\ DecCrash
  /\ uncounted' = uncounted \cup (IF dpc \in {"size", "total"} THEN {"decomp"} ELSE {})
  /\ chan' = <<>> /\ coming' = NoKey /\ joined' = FALSE
  /\ UNCHANGED <<compVars, got, cut>>

DecompressorLoads ==
  /\ DecLoad
  /\ UNCHANGED <<compVars, chan, coming, got, joined, history>>

(* The compressor's last block, after going back, against the crc.         *)
CrcAgreesAlways == TRUE                                      \* faulty variant
CrcAgrees == Bytes(LastLoaded(dtotal).key) = LastBlockCrc

(* The resumes that go wrong, although the code accepts them.  A count of  *)
(* 0 asks comp_load_dre_cache for every block; an earlier load that died   *)
(* between its stores has left nb_block and nb_total_block apart; the      *)
(* index is not one that a load gets right; or each end has died with a    *)
(* block stored and not counted, the decompressor with one and the         *)
(* compressor with a later one, for a block is sent after it is counted.   *)
BothUncounted == uncounted = {"comp", "decomp"}

ResumeKind ==
  CASE dtotal = 0 -> "all"
    [] dtotal > 0 /\ cut > 0 -> "torn"
    [] dtotal > 0 /\ cut = 0 /\ ~LoadIsSound(dtotal) -> "unsound"
    [] dtotal > 0 /\ cut = 0 /\ LoadIsSound(dtotal) /\ BothUncounted -> "uncounted"
    [] OTHER -> "sound"

(* comp_load_dre_cache(max_block = dtotal, last_block_crc) over a new      *)
(* stream.  If the crc does not agree it returns, with nothing changed.    *)
Resume ==
  /\ dpc = "idle"
  /\ ResumeKind \in ResumesAllowed
  /\ IF LoadCount(dtotal) = 0 THEN CompLoadDies(dtotal)
                              ELSE CompLoad(dtotal) /\ CrcAgrees
  /\ chan' = <<>> /\ joined' = TRUE /\ uncounted' = {}
  /\ UNCHANGED <<decVars, coming, got, cut>>

ContinueLoad ==
  /\ LoadStore
  /\ cut' = CASE pc = "nb_block" -> nb_total_block - cur.left
              [] pc = "nb_total" -> 0
              [] OTHER -> cut
  /\ UNCHANGED <<decVars, chan, coming, got, joined, uncounted>>

(* Both ends give up their files and start anew.                           *)
StartAnew ==
  /\ pc = "down" \/ ~joined
  /\ CompCreate /\ DecCreate
  /\ chan' = <<>> /\ coming' = NoKey /\ joined' = TRUE
  /\ uncounted' = {} /\ cut' = 0
  /\ UNCHANGED got

CreationDies ==
  /\ DecCreateDies
  /\ UNCHANGED <<compVars, chan, coming, got, joined, history>>

Next ==
  \/ \E k \in Keys : Send(k) \/ BeginInsertion(k)
  \/ ContinueInsertion
  \/ EndInsertion
  \/ Receive
  \/ ContinueStore
  \/ CompressorStops
  \/ DecompressorStops
  \/ DecompressorLoads
  \/ Resume
  \/ ContinueLoad
  \/ StartAnew
  \/ CreationDies

Spec == Init /\ [][Next]_linkVars

(* A call that has begun goes on, and decompress.c reads as long as there  *)
(* is something to read.  Nobody need compress, stop or start anything.    *)
FairSpec ==
  /\ Spec
  /\ WF_linkVars(ContinueInsertion \/ EndInsertion \/ ContinueLoad)
  /\ WF_linkVars(Receive \/ ContinueStore)

-----------------------------------------------------------------------------
(* The messages that add a block to the decompressor's cache, and those of *)
(* the first j of a stream that do.                                        *)
IsNew(m) == ~m.compressed /\ LenOf(m.key) >= DMinBlk
NewIn(stream, j) == {i \in 1..j : IsNew(stream[i])}

(* While the stream connects them, and neither is inside a call, the two   *)
(* ends count the same blocks: also after a crash at any store of either   *)
(* end, when the compressor has gone back by a sound resume that the crc   *)
(* has let pass.                                                           *)
InStep ==
  joined /\ pc = "idle" /\ dpc = "idle" =>
    /\ nb_total_block = dtotal + Cardinality(NewIn(chan, Len(chan)))
    /\ nb_block = Len(list)
    /\ \A i \in NewIn(chan, Len(chan)) :
         LET s == dtotal + Cardinality(NewIn(chan, i)) - 1 IN
         s \in DOMAIN Numbered =>
           Numbered[s] = [key |-> chan[i].key, off |-> chan[i].dict_offset]

(* A block the compressor may still refer to, and that the decompressor    *)
(* has received, is intact there, whatever the two crashes interrupted.    *)
Mirrored ==
  joined /\ pc = "idle" =>
    \A s \in DOMAIN Numbered :
      s < dtotal => ReadMem(Numbered[s].off, LenOf(Numbered[s].key)) = Bytes(Numbered[s].key)

(* test_rabin.sh:84: the decompressed file is the file that was compressed.*)
(* The next message read, if it is a reference, is put out as the block it *)
(* was made from.                                                          *)
RoundTrip ==
  joined /\ dpc = "idle" /\ chan # <<>> /\ Head(chan).compressed =>
    ReadMem(Head(chan).dict_offset, LenOf(Head(chan).key)) = Bytes(Head(chan).key)

(* The compressor does not die of an empty list, even one reloaded from    *)
(* what a crash left.                                                      *)
NoDeath == pc # "dead"

(* The block a byte sequence is, if any.                                   *)
BlockOf(bytes) ==
  IF \E k \in Keys : Bytes(k) = bytes THEN CHOOSE k \in Keys : Bytes(k) = bytes ELSE NoKey

User == INSTANCE Pipe WITH
  inTransit <- (IF coming = NoKey THEN <<>> ELSE <<coming>>)
                 \o [i \in 1..Len(chan) |-> chan[i].key],
  delivered <- BlockOf(got)

(* What is written comes out unchanged, in order and once, although either *)
(* process may die at any store: a crash only breaks the stream off.       *)
ImplementsPipe == User!Spec

(* A block the compressor has cached reaches the decompressor's dictionary *)
(* or the session ends: no block of a session that goes on is left behind. *)
Delivered ==
  \A n \in 1..MaxTotal :
    joined /\ pc # "down" /\ nb_total_block >= n
      ~> dtotal >= n \/ ~joined \/ pc = "down" \/ nb_total_block < n

(* dre.c:427 on last_block_crc: `compute the CRC of the last block'.  The  *)
(* last block is the one nb_total_block counts up to, which the compressor *)
(* has in its list under that number.                                      *)
CrcOfLastBlock ==
  pc = "idle" /\ dpc = "down" /\ dtotal - 1 \in DOMAIN Numbered =>
    LastBlockCrc = Bytes(Numbered[dtotal - 1].key)

(* What the two programs must have been given alike, as in DreLink.        *)
SameEnds == DCacheSz = CacheSz /\ DMinBlk = MinBlk /\ StreamMin >= MinBlk

(* The resumes that go wrong do not happen.                                *)
SoundResumes == ResumesAllowed = {"sound"}
=============================================================================
