# A verification project for lib-dre

lib-dre is a C library for data redundancy elimination. A *compressor* cuts a
stream of bytes into blocks at boundaries that depend on the content (a Rabin
fingerprint over a sliding window), keeps the blocks it has seen in a dictionary
cache, and replaces a block it has seen before by a reference into that cache. A
*decompressor* repeats the compressor's writes in a cache of its own and follows
the references. This directory holds TLA+ models of the library, configurations
that check them with TLC, and proofs checked with TLAPS.

## 1. Inventory

| component | source | state | operations |
|---|---|---|---|
| compressor cache, its list and data area | `src/dre.c` (`edge_cache`, `new_block_info`, `rabin_compress_buffer`, `rabin_flush`, `comp_load_dre_cache`, `reset_dre_cache`) | the live blocks, `nb_block`, `nb_total_block`, `data_pos_wr`, `edge` | look a block up, insert it, flush, reset, reload |
| compressor cache, its index | `src/dre.c` (`H_insert_bloc`, `remove_oldest_block`, `new_block_info`, `H_lookup`) | ring of slots in the mapped index file, list pointers, hash chains | link, unlink, search, rebuild on reload |
| chunker (`dre_stream_t`) | `src/dre.c` (`init_rabin_lookup_table`, the loop of `rabin_compress_buffer`, `rabin_flush`) | fingerprint, crc, window and unfinished block carried between buffers | take a buffer, flush |
| decompressor | `src/dre.c` (`rabin_decompress_block`, `edge_cache_decomp`, `decomp_load_dre_cache`) | its data area and header, `tmp_buffer` | store or fetch a block, reload |
| link | `src/compress.c`, `src/decompress.c` | the `c_buff_t` records in transit | send, receive, start, reopen, resume after a break |
| returned buffers, fake cache | `src/dre.c` (`write_block_to_cache`, `new_out_buff`, `insert_block_out`) | the list of `c_buff_t` of a call; what their `data` points into: the data area or, under `DRE_COMP`, a growing buffer | append, link, return, consume |
| cache files | `src/dre.c` (`rabin_load_cache_idx`, `rabin_load_cache_data`, `new_dre_cache`, `close_cache`) | two files and their mappings | create, open, map, close |
| programs | `src/compress.c`, `src/decompress.c`, `src/cache_info.c` | buffers and arguments | read, frame, write |
| crc64 | `src/crc64.c` | a constant table | one byte into a checksum |
| logger | `src/log.c` | level and destination | log a line |

**How they interact.** All calls are synchronous and the library starts no
thread. A user's buffer goes to `rabin_compress_buffer`, which runs the chunker
byte by byte and, at each boundary, calls the cache: `H_lookup` decides between a
reference and an insertion; an insertion calls `edge_cache` (make room in the
data area), `write_block_to_cache`, then `new_bloc` (take a slot with
`new_block_info`, fill it, link it with `H_insert_bloc`). The results are
`c_buff_t` records that the caller sends. The two ends share nothing but that
stream; each decides alone, with the same arithmetic, where a block goes.
Headers, slots and data live in mapped files and outlive the process; `edge`, the
list and the hash chains do not and are rebuilt by a reload.

**What is hard.**

- *Overwriting.* The data area and the slot ring wrap independently. An insertion
  must evict every block it is about to overwrite, and nothing in the code
  compares blocks to find out: it removes from the head of the list, twice, with
  two conditions that are right only if the list is ordered in a certain way.
- *Agreement without communication.* A reference is an offset that was right when
  it was sent. It is followed later, by a process with no index.
- *Reload.* What a reload rebuilds must be what was there; a reload may also go
  back, to resume after blocks were lost in a break.
- *Boundaries.* Head = tail, a block that ends at the end of the area, unsigned
  subtraction, a buffer shorter than the window.
- *Partial effects.* Errors half way through opening files; a crash between two
  stores to a mapped header; fragments of two streams that share a buffer.

There is no concurrency inside the library and no timer, so no such hazard is
listed; processes do end at any point, and the mapped files outlive them.
PROJECT.json lists the hazards, each at its line.

**What makes each part correct.** Compressor cache: no two live blocks share a
byte, none passes the end of the area, the index is never overfull, eviction
never runs out of blocks. Index: list, ring and chains
describe the same blocks, searches end. Chunker: no byte lost, the fingerprint is
that of the last window, boundaries do not depend on how the stream is split into
buffers. Both ends together: what goes in comes out, in order and once, also when
either has died and been started again. Returned buffers: each still has its bytes
when the caller reads it. Files: whatever failed, nothing stays open, and a cache
that is handed out is whole.

## 2. Modules

    Pipe  <--refines--  DreLink  --EXTENDS-->  DreCache  <--refines--  BlockIndex
      ^                                          ^    ^
      |                                          |    +--refines--  CompSteps
    refines                                 EXTENDS                     |
      |                                          |                   EXTENDS
    CrashLink ---EXTENDS--> Decoder          OutBuffers                 |
      |                        ^                                        v
      |                        +--EXTENDS-- Fragments               Insertion
      +-------------------EXTENDS-----------------------------------^

    DreLinkProofs   --EXTENDS-->  DreLink, OutBuffers
    CrashLinkProofs --INSTANCE--> DreLinkProofs, CompStepsProofs
    Induction       <--EXTENDS--  BlockIndexProofs, RabinProofs, FragmentsProofs,
                                  RecordsProofs
    CompStepsProofs
    Rabin        CacheFiles        Records

Each proof module also EXTENDS the module it is named after. DreLinkProofs has the
theorems of DreCache first, then those of OutBuffers and of DreLink, which rest on them;
CrashLinkProofs takes an instance of it, at the state the two ends of CrashLink stand
for. Each `MC*` module gives constants to the module it is named after.

**DreCache**: the compressor's cache as a list. Blocks are numbered by
`nb_total_block` at insertion. The code removes at the head only and appends at
the tail only, so the list is the interval `First .. nb_total_block - 1` and
`blk` gives each number its key and offset. A *key* stands for the triple
(crc, fp, length) by which `H_lookup` compares blocks. `Hit`, `Insert` and
`InsertFaults` are the three outcomes of one complete block; `CompressBlock` and
`Flush` are the places that produce it; `Reset` and `Load` are `reset_dre_cache`
and `comp_load_dre_cache`. `Insert` contains the whole of `edge_cache`, the write
and `new_bloc`. A loop `while (P(head)) remove_oldest_block()` is the predicate
`Removes(lo, f, S)`: it stops at the first number `f` not in the set `S` of blocks
that satisfy `P`. When `f` is one past the last block the code has read through a
null `blk_idx_head`: that is `InsertFaults`, after which the process is dead.

**BlockIndex**: the same operations on the data structures. The record `c` is
the `dre_cache_t`; each C function that changes it is an operator from cache to
cache, composed as the code calls them (`Insert` is `EdgeCache`, then `NewBloc`,
which uses `NewBlockInfo` and `HInsertBloc`). `Load` follows the two loops of
`comp_load_dre_cache`, including where their common index stops. `l_prv` is left
out: it is written and never read. A reload is classified by `LoadKind`:
`"sound"` is what the code gets right, and each other kind is a way in which it
goes wrong (section 5). A cfg names the kinds it allows; a `max_block` above
`nb_total_block` is refused by the code and by the guard of `Load`.

**DreLink**: DreCache, a channel and a decompressor that keeps bytes and counters
but no index. `Send` is one block from `compress.c`; `Receive` is one record in
`decompress.c`, with `StoreBlock` for what `rabin_decompress_block` does when the
block is new. `NewSession` starts both ends afresh, `Reopen` closes and reloads
both after the stream has ended, and `Resume` is the recovery the API provides
for: the channel is lost, the decompressor's `nb_total_block` and
`last_block_crc` go to `comp_load_dre_cache`, and the compressor goes back.
The bytes of key `k` are the cells `<<k, i>>`, so mixing two blocks shows.

**Pipe**: what the two ends promise: a FIFO of blocks that a break may empty.

**Insertion**: the compressor's insertion and its load, store by store. `pc` says which
store of `rabin_compress_buffer`, `edge_cache`, `remove_oldest_block`, `new_block_info`,
`new_bloc` and `comp_load_dre_cache` comes next; `dropping` is the point between the two stores of a removal.
The variables of the first group are in the mapped index and survive a crash
(`CompCrash`); `list` and `edge` are in memory and do not. Three fields of a slot
that are written together in meaning (length, fingerprint, crc) are one store,
`FillKey`; the pointers that the code also keeps in the slot mean nothing to the
next process and are left to BlockIndex. The order of stores is that of the source.
`CompLoad` is `comp_load_dre_cache` as far as it only reads the file; the stores it then
makes to the header are `StoreTail` (dre.c:378), `StoreNbBlock` (381), `StoreNbTotal`
(382) and `StorePosition` (385). `CompLoadDies` is the load that has loaded no block and
checks its crc, and `Die` at `"position"` the one that does not check it.

**CompSteps**: Insertion with a caller, who closes the cache and loads it again soundly.
`Seen` maps a call in progress to the state before it, which makes CompSteps a refinement
of DreCache, with `fault` for a process that died of an empty list.

**Decoder**: the decompressor's cache store by store: `AppendFragment` is
`rabin_decompress_block` up to the end of the fragment, `ReallocFails` and
`CopyToNull` what happens when memory is short, and `DecRotate` to `DecCountBlock`
the stores of a complete block. `DecCrash` may come between any two and may leave
any part of a copy written. `DecLoad` is `decomp_load_dre_cache`.

**Fragments**: Decoder with several streams over one cache, as
`new_dre_stream_ctx` allows, each with its own fragments. `log` is history: what
was stored, and whether it was *clean*, that is whether its fragments met those of
another stream or a failed call in `tmp_buffer`.

**CrashLink**: Insertion and Decoder joined by the stream of records, as DreLink
joins the whole operations. Either end may stop at any store. What the compressor
had written can still be read; what was on its way to a dead decompressor is lost.
`Resume` is the recovery of the API: `comp_load_dre_cache` with the
decompressor's `nb_total_block` and crc; `ContinueLoad` has its stores.
`StartAnew` gives up both caches. Two variables are history: `uncounted`, which end died
with a block stored and not yet counted, and `cut`, how many blocks loads that died
between dre.c:381 and 382 have taken from `nb_block` and not from `nb_total_block`.

The code of `comp_load_dre_cache` refuses a `max_block` above `nb_total_block` and a crc
that differs, and nothing else. `ResumeKind` sorts what it lets through, and a cfg names
the kinds that happen (`ResumesAllowed`):

| kind | the resume | what it leads to |
|---|---|---|
| `"all"` | the decompressor's count is 0, which asks for every block | finding 13 |
| `"torn"` | an earlier load died between the two counts | finding 12 |
| `"unsound"` | the index is one that the load gets wrong | findings 1 to 4 |
| `"uncounted"` | each end has died with a block stored and not counted | finding 11 |
| `"sound"` | any other | nothing goes wrong |

`crash_link` and the theorems have `"sound"` only (`SoundResumes`). What they say of
crashes at any store is said of the states that such crashes leave, and of sessions that
begin with a sound resume or anew; it is not said that every resume is sound, which is
false.

**OutBuffers**: DreCache with the list of `c_buff_t` that a call returns and the
memory their `data` points into, in the two builds side by side: `area` with
`pos`, and `fake` with `fpos`. `FormBlock` is a block boundary of
`rabin_compress_buffer`, `EndCall` its end, `FlushTail` is `rabin_flush`, and
`Consume` the loop of `compress.c`. malloc may fail in `new_out_buff`, realloc in
`write_block_to_cache`, and realloc may move what it grows.

**CacheFiles**: opening and closing a cache, a system call at a time. `held` is what
the process has, `kept` what the `dre_cache_t` records; `Fail` is the way out of
each helper and its caller.

**Records**: the file between the programs, byte by byte as `<<record, field, i>>`;
`compress.c` may stop in any field, and `decompress.c` reads what there is.

**Rabin**: the chunker. `CompressBuffer` is one call with one buffer, `Scan` its
loop, `TakeByte` one turn of it, `RollByte` what a byte does to the fingerprint,
`FormBlock` a boundary; `Flush` is `rabin_flush`. The
crc is modelled by the bytes it covers. `stream` and `flushed` are history
variables, for the properties only.

An operator marked *faulty variant* is used by no specification. It is a
plausible mistake in the definition that follows it, and is put in that
definition's place to confirm that a property would notice.

## 3. Runs

| run | module, cfg | shows |
|---|---|---|
| `dre_cache` | MCDreCache | no overwriting, no overfull index; the process can die of an empty list only as `FaultIsTight` says; the proofs' inductive invariant |
| `block_index` | MCBlockIndex | ring, list and chains agree; BlockIndex implements DreCache |
| `dre_link` | MCDreLink | what goes in comes out; no fault with one byte more; DreLink implements Pipe |
| `rabin` | MCRabin | chunking is lossless and content-defined |
| `comp_steps` | MCCompSteps | the stores of an insertion or a load add up to DreCache; in between, file and memory differ by one block at most; calls return |
| `fragments` | MCFragments | whole blocks reach the dictionary, in whatever fragments, through failed calls and resets |
| `crash_link` | MCCrashLink | after crashes of either end at any store, those of a load included, and sound resumes, both ends count the same blocks, what may be referred to is intact, what goes in still comes out, and what is cached is stored at the other end or the session ends; CrashLink implements Pipe |
| `out_buffers` | MCOutBuffers | the buffers of a call have their bytes, up to bounds that are exact |
| `cache_files` | CacheFiles | what is released, leaked or handed out when a call of the system fails |
| `records` | MCRecords | a file cut off anywhere gives the complete records and no more |
| `full_reload` | MCBlockIndexFull | a reload that breaks the index |
| `crash_counts` | MCCrashLinkCounts | the kind of resume `"uncounted"`, which `crash_link` leaves out, breaks the round trip |

These are the runs of PROJECT.json. Eleven more configurations stand beside them. MCCrashLinkWide
passes: `crash_link` on another instance. The others have each one property that TLC finds
violated; section 5 says what they show.

| cfg | property |
|---|---|
| MCBlockIndexCut, MCBlockIndexEmpty, MCBlockIndexPast | `HeadIsOldest`, `NbBlockIsCount` twice |
| MCDreLinkSize, MCDreLinkMin, MCDreLinkCount | `RoundTrip` twice, `CountsAgree` |
| MCCompStepsCrash, MCCrashLinkCrc | `NbBlockIsCount`, `CrcOfLastBlock` |
| MCCrashLinkTorn, MCCrashLinkAll | `NoDeath`, `InStep` |
| MCOutBuffersMove | `ReadsNothingFreed` |

**Bounds.** The two bounds on history are `MaxTotal` (blocks inserted since the
last reset) and, in Rabin, `StreamMax`; `ChanMax` bounds the records in transit
and `BuffMax` the size of a buffer.

- Lengths 1, 2 and 3 with `MinBlk = 2`: a tail too short to cache, and two block
  lengths, so that a block may end at, before or beyond where an old one starts.
- `CacheSz = 8` is `3 * MaxLen - 1`, the smallest data area for which eviction
  never runs out (`NeverFaults`, and `NoFault` in `dre_link`). `dre_cache` and
  `comp_steps` have 7, a byte less, so that they include the death of the process
  and show that nothing else goes wrong before it.
- `NbBlkIdx` is 3 and the keys are such that four of them fit in the data area
  together (1 + 2 + 2 + 2 bytes in DreCache, 2 + 2 + 2 + 2 in DreLink), so that
  sometimes the ring and sometimes the data area is what forces an eviction.
  `full_reload` has 2 slots.
- `MaxTotal` is 10, 8 in DreLink, 7 in BlockIndex and 6 in CompSteps: at least twice
  round the ring and the data area, where a lap is two to four blocks. The state of a
  cache after a lap is, numbers apart, one it has been in before.
- Keys of one length, two to four of them, give hits, misses and blocks evicted and
  inserted again. In BlockIndex one hash bucket holds keys of all lengths.
- `StreamMin` is 1 for the compressor alone, below `MinBlk`, as `compress.c` allows,
  and equal to `MinBlk` for the two ends together (finding 6).
- `Wrap = 32` stands for 2^64: it is larger than any offset plus a length, the
  only fact about 2^64 the unsigned subtraction needs. The proofs are for any such
  `Wrap`.
- Rabin: a window of 3 and buffers of 0 to 4 bytes, so windows cross one, two or
  three buffers; streams of 7 bytes hold two blocks and the start of a third.
  Three byte values with `AvgMod = 4` give boundaries by content, by the maximum
  and by a flush, and blocks that repeat.
- `crash_link` has blocks of 1 and 2 bytes in a data area of 5 and an index of two
  slots, so that sometimes the ring and sometimes the area forces an eviction, and a
  block may not fit at the end. `MaxTotal = 4` is twice round the ring and more than
  once round the area, with crashes in any lap. `ChanMax = 1` with a block being
  stored lets the decompressor lag by two, as many as the compressor's index holds;
  a run with 2 passes as well. Blocks too short to cache are left to `dre_link`.
  MCCrashLinkWide has four blocks of 2 bytes in a data area of 6 and an index of four
  slots, which the area never fills: `MaxTotal = 6` goes twice round the area and past
  the end of the ring. `crash_counts` is that instance with `MaxTotal = 4`;
  MCCrashLinkTorn and MCCrashLinkAll are the one of `crash_link`.
- `fragments`: two streams, blocks of 1 byte (below `DMinBlk`), 2 and 3, in every
  split. The data area is 9 bytes, so that fragments of both streams run together
  still fit: nothing in the code refuses a longer block. Four blocks wrap it.
- `out_buffers`: a fake cache of 5 bytes and up to four blocks a call, so that a
  call exceeds it once or twice; `CacheSz = 8` as for DreCache, where four blocks of
  a call pass `CacheSz - MaxLen + 1`, beyond which `DataIntact` fails.
- `records`: three records, of lengths 1 to 4 with fragments of 2: none, one whole,
  one and a rest, two whole. Offsets and lengths take 2 bytes, so that one can be
  cut in half.
- `cache_files` is finite as it is.

**Symmetry**, among keys of the same length or among streams, is used in the
DreCache, DreLink, OutBuffers and Fragments runs, in `crash_counts` and in MCCrashLinkWide. No definition tells such keys or
streams apart, and those runs check safety only.

**Deadlock** is checked in the passing runs but those where the system really may
stop: where the process may die of an empty list (`dre_cache`, `comp_steps`) or of
a null pointer (`fragments`, `out_buffers`), and where both programs end (`records`).
In the others a reset, a receipt, a crash, an empty buffer or a flush is always
possible.

**Fairness.** The library does nothing unless called, and nothing in it obliges a
caller to call again, a network to deliver or a dead process to be started. Assumed
is only that a program that runs goes on:

- `comp_steps`: weak fairness of the steps *inside* a call. `CallsReturn` then
  says that the loops of `edge_cache` end; which block they remove is not obvious,
  as both conditions depend on what earlier removals left.
- `crash_link`: the same for the compressor, stores of a load included, and for the decompressor weak
  fairness of reading the next record and of the stores it leads to: the loop at
  `decompress.c:65` does nothing else. No fairness is put on sending, stopping,
  opening a cache or resuming; `Delivered` allows for a session that ends.
- `records`: weak fairness of `decompress.c` as a whole, which runs until its input
  ends.

In DreCache, BlockIndex and Rabin an operation is one step. A search of a hash
chain ends because chains have no cycle (`ChainsExact`; `LookupSound` states it for
the reload that makes one).

## 4. Proofs

The first part of `DreLinkProofs`, about DreCache, proves, for every set of keys, block lengths, size of data area
and number of slots that `CacheAssumption` allows:

| theorem | statement |
|---|---|
| `Invariance` | `Spec => []IInv` |
| `TypeCorrect` | `Spec => []TypeOK` |
| `DictionarySafe` | `Spec => [](LiveDisjoint /\ WithinCache)` |
| `IndexSafe` | `Spec => []IndexBounded` |
| `FaultsAreTight` | `Spec => FaultIsTight` |
| `NeverFaults` | `RoomForThree => (Spec => []NoFault)` |

`CacheAssumption` says that lengths are between 1 and `MaxLen`, that the index has
at least two slots and that 2^64 exceeds the data area plus a block. It does *not*
say that blocks fit in the data area: where one does not, the process faults.
`RoomForThree` is `CacheSz >= 3 * MaxLen - 1`.

**The argument.** That live blocks are disjoint is not inductive: `edge_cache`'s
loops stop at the first block that fails their condition, so they are right only
if no later block satisfies it. `IInv` adds why. The writing position divides the
list in two: the blocks of the previous lap, which lie ahead of it, and those of
the current lap, behind it. The former are all older than the latter, and each
part is in the order of the data area (`LapOrder`). Hence, without a rotation,
the blocks in the way of a write are the oldest ones (`Survivors`). A rotation
first removes the whole previous lap, so that one lap is left, and it is the
previous lap of what follows. `Latest` ties the writing position to the newest
block. The first loop has an odd exception, `dict_offset != 0`; it is harmless
because a block at offset 0 can only be ahead of the writing position when that is 0
too, and `FromZero` and `EdgeIsSet` cover the first lap, in which `edge` is clear
and nothing is ever removed. `Disjoint` then gives `LiveDisjoint`.

`InsertStep` is the heart; it splits on whether the write rotates, and has one
step per conjunct. `LoadStep` needs `LoadIsSound`: the other reloads really break
`IInv`. For `NeverFaults`, `FaultIsNear` shows that running out of blocks takes a
rotation that meets the newest block, which then starts within one block's length
of 0 and ends within one block's length of the end: less than three blocks in all.

The second part is about OutBuffers, for every size of the fake cache and every number
of blocks a call (`OutAssumption`):

| theorem | statement |
|---|---|
| `OutInvariance` | `OutSpec => []OutInv` |
| `OutTypeCorrect` | `OutSpec => []OutTypeOK` |
| `FakeSafe` | `OutSpec => []FakeIntact` |
| `FakeBounded` | `OutSpec => GrowsToOneCall` |
| `DataSafe` | `OutSpec => []DataIntact` |
| `ListSafe` | `OutSpec => []ListIsFormed` |

**The argument.** OutBuffers conjoins DreCache's own actions, so `OutInv` starts from
`IInv`. For the fake cache, `OutInv` says that inside a call the writing
position is `fresh`, the bytes written so far, and that each new block of the list
lies below it: later writes begin where it ends. What grows is then `fresh'` long
exactly, and a call whose bytes fit `room` never grows at all. For the data area the
new blocks of a call must be seen to stay apart although the area wraps under them.
`AreaInv` says that they lie in one of two shapes: in a row, of length `fresh`, up to
the writing position; or, after a rotation inside the call, some in a row from where
the call began up to the gap at the end of the area, and the others in a row from 0.
The gap is shorter than the block that did not fit, hence at most `MaxLen - 1`
bytes, and two rows and a gap fit the area without overlap as long as `fresh` is at
most `CacheSz - MaxLen + 1`. TLC finds `DataIntact` violated with that bound one
larger. For `ListSafe`, `ListInv` says that the list has the keys of the blocks formed
from the `i`-th on, and lacks the last one when there was no memory for its record. As
long as the list is empty, such a failure costs a block at the beginning; afterwards it
leaves `out_tail` null, and the process dies of the next block (`insert_block_out`).

The third part is about both ends together, for every set of keys, data area,
number of slots and of records in transit, and without any bound on how far they get,
when the two ends were given alike what nothing transmits
(`SameEnds`: equal sizes, equal minimum, and a stream minimum not below it):

| theorem | statement |
|---|---|
| `LinkInvariance` | `SameEnds => (LinkSpec => []LinkInv)` |
| `AlwaysInStep` | `SameEnds => (LinkSpec => []InStep)` |
| `AlwaysMirrored` | `SameEnds => (LinkSpec => []Mirrored)` |
| `AlwaysRoundTrip` | `SameEnds => (LinkSpec => []RoundTrip)` |
| `LinkImplementsPipe` | `SameEnds => (LinkSpec => ImplementsPipe)` |

**The argument.** The properties are about now, but a reference is only as good as
the moment it is read, when the decompressor will have made more writes. `LinkInv`
therefore says that a future exists: a sequence `D` of decompressors, the first what
it is now and each next one what reading one more record makes of it (`Course`). In
each of them every block that the compressor still has live and that has been received
by then is in place (`Agrees`); each record is right at the point it is read (`Right`);
and at the end both ends have the same position and count (`Meets`). Receiving a record
drops the first of the sequence. Sending one appends to it, and there `IInv` is needed:
an insertion only lowers the set of live blocks, so what was said of them stays true
(`Kept`), and where the new block goes, which by `Meets` is the same place at both
ends, overlaps no block that is left (`SendNew`). A reference is sent only to a live
block, which `Agrees` says will be there (`SendReference`). A resume goes back to the
first of the sequence, and the position that `comp_load_dre_cache` computes is the
decompressor's. The crc is needed only where the decompressor has nothing: a sound
reload with `max_block = 0` loads every block, and the check refuses it.
Without `SameEnds` `RoundTrip` fails (findings 5 and 6).

`CompStepsProofs` proves `AlwaysTornByOne`, `Spec => []TornByOne`, for every number of
slots from two on and whatever the blocks and the data area are, from
`InsertionAssumption` (blocks are not empty, the counters do not wrap round 2^64).
`TornInv` says that the list is a stretch of the ring from the head on, short of the
block being removed, and that the tail is at its end, past the block being added
(`Stretch`). For that, taking a slot must not pass the head, and freeing one must not
empty the list: `Beginning` says why. As long as `edge` is clear nothing was removed and
the ring is not full; once it is set the list is not empty when a slot is to be freed.
`LoadStep` shows that a sound reload finds the stretch again from the head, the tail and
the two counters, although head = tail may mean empty or full and `max_count` is an
unsigned subtraction. From then on list and `edge` are as they will be, and `Loaded`
says which of the header's fields the load has still to bring there (`LoadStoreStep`).

It also proves `StepsImplementDreCache`, `Spec => ImplementsDreCache`,
that the stores of CompSteps add up to the operations of DreCache, from
`InsertionAssumption` alone: also where blocks do not fit and the process dies of it.
A load is DreCache's `Load` at its last store and stutters before (`RefLoading`).
`RefInv` says how far a call has come, against `was`, the cache it began with. Block
number `s` is in slot `s % NbBlkIdx` (`RefUp`, and `RefDown` of a closed file), which
turns positions of the ring into numbers. The blocks removed so far are a beginning of
those that DreCache's loops remove (`Removing`); when the second loop ends, the head is
one that `EdgeCache` allows (`Evicts`, then `AfterSlot`); the position, the offset and
the slot being filled are the ones of `Insert` (`Writing`, `Filling`). The loops'
conditions depend on a block's offset and the writing position only, and no removal
changes either: so DreCache, which evaluates them on the cache before the call, removes
the same blocks as the code, which evaluates them after each removal. `ReturnMap` then
has `Insert` in one step, `DieMap` `InsertFaults`, and `LoadMap` `Load`. `RefInv` was
checked with TLC, on the instance of `comp_steps`, before it was proved.

`FragmentsProofs` proves `AlwaysCleanIsWhole`, `Spec => []CleanIsWhole`, for every set
of streams, block lengths (`FragmentsAssumption`: at least one byte) and minimum
length. `FragInv` says that, unless something has disturbed it, tmp_buffer holds exactly
what the one stream under way has handed over of its block, or nothing when none is
under way, and that in the middle of the stores none is; a failed call and a meeting of
streams set `disturbed`, and only the end of a block that met no other clears it.

It also proves `AlwaysFilesAreLog`, `Spec => [](LastFits => FilesAreLog)`. `FilesInv`
says that in the middle of the stores the files are those of the log but for the stores
of its last entry that are still to come (`Storing`): the data before the copy and after
it, the position at each of its three values, the counters one behind until each is
increased; and that between calls nothing is missing (`Settled`). `DictionaryNext` and
`SinceLemma` say what one more entry does to `Dictionary` and to the number of blocks
since the last reset. `LastFits` says that the last block given to the dictionary is not
longer than the data area. It is needed for the crc only, which reads the block back; the
code does not check it (section 6), and the instance of `fragments` satisfies it.

`BlockIndexProofs` proves about the data structures, for every number of slots from two
on, every number of hash buckets and hash function, and whatever the blocks are, when
reloads are sound (`SoundLoads`, that is `LoadsAllowed = {"sound"}`, as in
`block_index`; section 5 says what the other kinds do):

| theorem | statement |
|---|---|
| `IndexInvariance` | `SoundLoads => (Spec => []IndexInv)` |
| `IndexTypeCorrect` | `SoundLoads => (Spec => []TypeOK)` |
| `AlwaysRingIsList` | `SoundLoads => (Spec => []RingIsList)` |
| `AlwaysChainsExact` | `SoundLoads => (Spec => []ChainsExact)` |
| `IndexImplementsDreCache` | `SoundLoads => (Spec => ImplementsDreCache)` |

**The argument.** The properties follow pointers until they are null, which an invariant
cannot do; so `IndexInv` says where each pointer leads. `Age` is a slot's distance from
`cache_idx_head` round the ring. The list pointers lead from each of the first
`nb_block` slots to the next one of the ring and end there (`ListLinked`). In the chain of
a bucket, `nxt` leads to the oldest of the bucket's slots that are newer and `prv` to the
newest of those that are older (`ChainLinked`), whatever blocks share the bucket.
`Counted` ties head and tail to the two counters and says when `edge` must be set.
Removing the head takes away the oldest slot of the list and of its chain at once, and
appending adds the newest of both. A
reload links the slots one at a time, so the same holds with fewer of them on the way
(`Linked(q, n)`). From
`IndexInv` the sequence that following the pointers gives is computed by induction on
the steps taken: `n` steps from the head give the first `n` places of the ring, and null
is met exactly after the last. For the refinement, the block in a slot of age `i` is
number `First + i`; each removal of `edge_cache`'s loops removes one, and each loop ends
where DreCache's `Removes` says.

`RabinProofs` proves about the chunker, for every window, limits, divisor and set of
byte values (`RabinAssumption`), and for streams and buffers of any length:

| theorem | statement |
|---|---|
| `RabinInvariance` | `Spec => []RabinInv` |
| `AlwaysNothingLost` | `Spec => []NothingLost` |
| `AlwaysDescribesData` | `Spec => []DescribesData` |
| `AlwaysFpIsWindow` | `InTable => (Spec => []FpIsWindow)` |
| `AlwaysContentDefined` | `InTable => (Spec => []ContentDefined)` |
| `AlwaysRepeatsFound` | `InTable => (Spec => []RepeatsFound)` |

`InTable` is `WinSz >= MinWinSz`: the table that `init_rabin_lookup_table` fills begins
at `MIN_WIN_SZ` (dre.c:55), and a smaller window finds zeros in it. The parts of
`RabinInv` about fingerprints have the same condition.

**The argument.** `RabinInv` says what a context holds between calls, as a function of
the stream so far: its last window, the fingerprint of that, the unfinished block. The
blocks formed follow one another from byte 1 on (`Covers`), and each ends at the first
byte where the condition of `IsBoundary` holds of the bytes since the one before, or at a
flush (`Cut`). `RollLemma` is the rolling step: taking the product for the byte that
leaves out, multiplying by the base and adding the byte that enters gives, modulo 2^64,
the fingerprint of the window one byte on. That a fingerprint depends on the window
only, and so does not remember the stream before it, is what makes cutting independent
of buffers. Inside a call the loop's invariant `RunInv` says the same of the stream with
the `i` bytes of the buffer taken so far; the byte that leaves comes from the buffer, or,
in its first `WinSz` bytes, from `tmp_win`. `ContentDefined` compares with a recursive
function of the stream, which is shown to give the ends that `Cut` describes, and not to
change where the stream grows.

`RecordsProofs` proves about the file between the programs, for every width of the
fields, every set of block lengths and fragment length (`RecordsAssumption`), and any
number of records:

| theorem | statement |
|---|---|
| `RecordsInvariance` | `Spec => []RecordsInv` |
| `AlwaysNothingOfACutRecord` | `Spec => []NothingOfACutRecord` |

**The argument.** `EndOf` gives the end of each record by recursion, and `PlaceInjective`
says that no two bytes of all the fields go to the same place. Since every byte written
is where it goes (`OnFile`), a record is complete exactly if the file reaches to its end
(`CompleteIs`), and a read that is not short, made at the start of a field, gives that
field and no bytes of another (`GotField`). So decompress.c never leaves the boundaries
of fields (`ReaderInv`), and starts to put out a block only when the whole record was
there; the fragments put together are the block (`FragmentLemma`). A short read can only
be the last.

`CrashLinkProofs` proves of the two ends store by store, with crashes of either or both,
for every set of keys, data area, number of slots and of records in transit, when both
were given alike what nothing transmits (`SameEnds`) and the resumes that happen are of
kind `"sound"` (`SoundResumes`: section 2 names the four other kinds that the code
accepts, and findings 11 to 13 show three of them breaking what is proved here):

| theorem | statement |
|---|---|
| `CrashInvariance` | `SameEnds /\ SoundResumes => (Spec => []CrashInv)` |
| `AlwaysInStep` | `SameEnds /\ SoundResumes => (Spec => []InStep)` |
| `AlwaysMirrored` | `SameEnds /\ SoundResumes => (Spec => []Mirrored)` |
| `AlwaysRoundTrip` | `SameEnds /\ SoundResumes => (Spec => []RoundTrip)` |
| `NeverDies` | `RoomForThree /\ SameEnds /\ SoundResumes => (Spec => []NoDeath)` |
| `CrashImplementsPipe` | `SameEnds /\ SoundResumes => (Spec => ImplementsPipe)` |

**The argument.** At every moment, inside a call and after a crash, the two ends of
CrashLink stand for a state that DreLink's have between two operations, and the
invariant of DreLink is true of that state. The first section of the module says which: a
block is in the list from the moment it is counted (`CountTotal`), out of it from the
moment the head moves, so that the list is the stretch of slots `Held` of the *file*,
whether a process has it open or not (`Ring`); and a block that the decompressor has
begun to store is stored (`VMem`, `VDpos`, `VTotal`). `Link` is the instance of
DreLinkProofs at that view. A store then either leaves the view alone or is one of four
things: an insertion (`CountTotal`), the removal of the head (`AdvanceHead`), the receipt
of a record, or a going back (`StoreNbTotal`, the third store of a load). Removing a single block is not a step of DreLink, which evicts
all it needs and inserts in one; the invariant survives it because it speaks of live
blocks, and there are fewer of them (`RemoveStep` and `Unsent` in DreLinkProofs). `Calling` keeps
what the loops of `edge_cache` have achieved so far until the insertion needs it: that
nothing live is where the block goes (`Link!Clear`, then `NewSent`).

A crash of the compressor changes nothing in the view except that a linked block may
never be counted, or blocks have been taken from `nb_block` and not from
`nb_total_block` (`Over`, in which `cut` counts them). A crash of the decompressor ends the session, and of the block
being stored there is nothing, a part or all; what was received before is still in the
data file (`DataThere`): the view, where the block is stored, has all of it in place, so a
copy cut short has hit none of it (`Intact`, `CutShort`).

`Resume` is accepted if the crc agrees, and the invariant must say what this
tells (`CrcSays`): the crc is that of the last block counted or, when the decompressor
died with a block stored and not counted, of the next. A block's bytes identify its key,
the live blocks have pairwise different keys, and a block is not sent twice in a row
(`Before`), so the compressor's block number `dtotal - 1` has that crc only if it is that
block, and the two positions are the same (`CameToLast`). Where the crc would be read
from before the mapping it agrees with no block (`CrcInside`). An earlier load may have
died after its tail was stored, or after all but the position was: `CameTo` shows that
the loops find the blocks up to the decompressor's last one all the same.

The load then has its stores to make, and either end may die between them. `Reload` says
what the header lacks at each. The ends are connected but not yet together (`Session` is
false) until `StoreNbTotal`, where `GoneBack` of DreLinkProofs has the invariant of a
session with nothing in transit (`CutBackStep`); a crash before that leaves the file the
compressor had, with another tail and `cut` blocks fewer in `nb_block`, and one after it
a file that has gone back already, whose position is no longer needed. In the first of
these the counts are apart, and any resume from there is of kind `"torn"`, which is where
the theorems stop.

`NeverDies` needs `Alive` besides: a loop of `edge_cache` that has begun still has a
block. In the first loop the last block ends at the writing position, so it is not of the
previous lap. In the second it starts either at least a block beyond the writing position,
after a rotation in an area with room for three, or below it, where the unsigned
difference exceeds any block's length (`LastStays`). That a reload may leave `edge`
clear where it was set, or set it early, does not matter: `edge` is only set when there
is a block. For `CrashImplementsPipe` the block being stored is still in transit
(`Under`); it is delivered with the last store, and a record read whose block is new
is a stuttering step.

`CompStepsProofs` is used by instance too: that the list in memory is the stretch of the
ring (`TornInv`, `RefUp`) does not depend on the other end, and a reload restores it.

**Induction.** The library's induction theorems take an operator as a parameter, which
the provers cannot instantiate. `Induction` states what is needed about sets and
functions instead: a set with 0 that is closed under successor is all of `Nat`
(`SetInduction`, and `UpTo` for `0..m`), from the well-foundedness of `<`; and that the
function a recursive definition speaks of exists and obeys its equation (`Recurrence`).
An induction defines the set of numbers of which the claim is true. The models write
their loops and reference definitions as recursive functions for that reason.

**Only model-checked.** That the bound of `DataIntact` is exact; and liveness. CacheFiles has
no parameter: its run is over all there is, so a proof would say no more.

**Out of the prover's reach.** Liveness and ENABLED, and RECURSIVE operators, which no
module uses.

## 5. What the runs found

1 and 11 are runs of PROJECT.json; the others name the configuration that shows them.

1. *Full index* (`full_reload`). A reload computes `edge` as
   `nb_total_block > nb_block`. An index exactly full, with nothing evicted yet,
   gets `edge = 0`: the next block takes the slot of a live block without removing
   it, and that block's hash chain becomes a cycle in which `H_lookup` loops.
2. *Cut inside the first loop* (MCBlockIndexCut). Going back to a block in the upper
   part of a wrapped ring leaves `cache_idx_tail` at 0.
3. *Empty index* (MCBlockIndexEmpty). Head = tail is read as full: every slot is
   loaded, with what it holds from before a reset.
4. *Going back too far* (MCBlockIndexPast). With `max_block` older than the oldest
   block, `max_count` underflows, nothing is cut and `nb_block` is near 2^64. With
   `max_block` exactly the number of evicted blocks, nothing is loaded and a null
   `tmp_bloc` is read; `LoadKind` calls this `"none"` and no run allows it, since
   the repository says nothing about it that could be checked.
5. *Different sizes* (MCDreLinkSize). `decompress.c` builds `decomp_edge1` with a
   cache of another size than `comp_edge1`.
6. *Short blocks* (MCDreLinkMin). A stream minimum below the caches' minimum
   makes the compressor cache blocks that the decompressor does not.
7. *A counter* (MCDreLinkCount). The decompressor's `nb_block` never decreases
   (dre.c:989), although dre.h:46 calls it the "number of block currently in cache": it
   is as high as `nb_total_block` when the area has wrapped many times and a few blocks
   are left. Nothing of the decompressor reads it, `cache_info` prints it. `FilesAreLog`
   leaves it out.
8. *A slot taken but not filled* (MCCompStepsCrash). A crash after
   `cache_idx_tail` has advanced leaves a slot that a reload of everything loads as a
   block, uncounted. A reload that goes back to the decompressor's count never
   reaches it, which is why `crash_link` passes.
9. *The crc of no block* (MCCrashLinkCrc). A crash between the stores of the
   decompressor's header makes it report a crc that does not belong to its count.
   The resume is then refused although nothing is lost; where it is accepted wrongly is
   told in 11 to 13. After a crash between a rotation and the next store of
   `last_block_size` the crc may even be read from before the mapping, which the model
   takes for bytes of no block.
10. *A buffer that moves* (MCOutBuffersMove). With `DRE_COMP`, new blocks of more
    than 1 MB in one call move the fake cache, and the buffers formed before point to
    where it was.
11. *Two uncounted blocks* (`crash_counts`). The decompressor dies with a block stored
    and not counted; the compressor, which had counted that block before it was sent,
    dies over a later one, between the two counts of `new_bloc`. Its `nb_block` is then
    one too many for its `nb_total_block`, so the resume loads one block more than it
    was asked for, which is the one the decompressor has stored and whose crc it
    reports. It is accepted, and both then count one block less than they hold.
    Nothing goes wrong until a reload, which compares the counts to know whether anything was evicted
    (`dre.c:170`): with one block evicted it finds none, `edge` is 0, the next
    insertion makes no room, and a reference to the block it overwrites is put out as
    other bytes.
12. *A load that dies between its counts* (MCCrashLinkTorn). `comp_load_dre_cache`
    subtracts from `nb_block` (dre.c:381) and then sets `nb_total_block` (382). After a
    crash between the two, the next resume subtracts again what the first one did. With
    two blocks and one to go back by, nothing is loaded, and the crc is read through a
    null `tmp_bloc` (370). With three and two, `max_count` wraps, the ring, whose tail
    has been moved, is loaded whole, the crc agrees and `nb_block` wraps.
13. *A count of 0* (MCCrashLinkAll). A decompressor that has counted nothing asks for
    `max_block = 0`, which loads every block and compares the last one's crc. If the
    decompressor died over its first block with `last_block_size` stored, and the
    compressor has just that block, the crc agrees: the resume is accepted with one
    block at the compressor and none at the decompressor. An empty index is accepted
    too, with its unused slots as blocks (finding 3), their crc and that of no bytes
    both being 0; the counterexample TLC gives is this shorter one.

Findings 1, 6 and 10 were also reproduced with the compiled programs (1 with `NB_BLK_IDX`
set to 2, 6 with a minimum of 4, 10 with an address sanitizer).

The passing runs keep away from these: `LoadIsSound` and `LoadsAllowed = {"sound"}`
exclude 1 to 4, equal `CacheSz` and `DCacheSz` exclude 5, and in DreLink
`StreamMin = MinBlk` excludes 6. `Resume` in DreLink is limited to
sound reloads in the same way. In CrashLink `ResumesAllowed = {"sound"}` excludes, besides
those (kind `"unsound"`), 11 (`"uncounted"`), 12 (`"torn"`) and 13 (`"all"`); the states
that lead to them are reached. `FakeIntact` holds within the size of the
fake cache, short of 10.

## 6. Not modelled

- *Collisions.* Two blocks with one triple are one key; `H_lookup` never compares
  bytes.
- *The crc check of a reload.* `crc_size` masks the crc; the model compares in
  full. With `crc_size` = 64 the mask's shift is undefined in C; `compress.c` passes 64,
  but with `check_crc` = 0, so that it is not executed there.
  CrashLink shows what the check is needed for (`CrcAgrees` and its variant). No
  block is made of bytes that the data file holds where nothing was written.
- *Stores reordered by the compiler, and files damaged by a crash of the system.*
  A store is made when the source makes it, and a process that dies leaves all it
  made.
- *What a process does after an error the code ignores*: a read of -1, a short
  write followed by others, a `rabin_decompress_block` that returns 0 to
  `decompress.c`. Nothing says what should come of it.
- *A failing realloc of `tmp_blk`* (dre.c:878), after which `rabin_compress_buffer`
  copies to a null pointer.
- *A block longer than the data area*, which the decompressor writes past its end.
- *A reset of both ends in a running session.* The compressor's is in DreCache and
  BlockIndex, the decompressor's in Fragments; no program of the repository calls
  either, and nothing carries a reset from one end to the other.
- *The life of a leaked cache record*, beyond the fact that it leaks (CacheFiles).
- *Block lengths above MaxLen.* With `max_blk_sz = 0` a stream has no maximum;
  DreCache then stands for a run whose longest block is `MaxLen`.
- *crc64, the logger, the command lines, `cache_info`*: no state that the rest depends on.

## 7. Plan

Done, in this order: DreCache and its proofs, BlockIndex, Pipe and DreLink, Rabin;
then Insertion and CompSteps, Decoder and Fragments, CrashLink, OutBuffers and its
proofs, CacheFiles, Records, DreLinkProofs, CompStepsProofs, FragmentsProofs; then
Induction, BlockIndexProofs, RabinProofs and RecordsProofs, `ListSafe` and
`AlwaysFilesAreLog`, and CrashLinkProofs.

Left: the logger, whose level and syslog's mask are set by different functions.
