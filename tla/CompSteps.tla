----------------------------- MODULE CompSteps -----------------------------
(***************************************************************************)
(* The compressor of Insertion on its own: a user who compresses and       *)
(* flushes blocks, and who closes the cache and opens it again.  Calls     *)
(* made one store at a time add up to the whole operations of DreCache,    *)
(* and they return.                                                        *)
(***************************************************************************)
EXTENDS Insertion

VARIABLES
  out,  \* the last c_buff_t returned
  was   \* history: the list, the counters and edge when the cache was last at rest

vars == <<compVars, out, was>>

NoOut == [compressed |-> FALSE, dict_offset |-> 0, key |-> NoKey]
Snapshot == [blk |-> Numbered, nb |-> nb_block, total |-> nb_total_block,
             pos |-> data_pos_wr, edge |-> edge]

Init == CompInit /\ out = NoOut /\ was = Snapshot

Compress(k) ==
  \/ /\ pc = "idle"
     /\ out' \in AtOnce(k)
     /\ UNCHANGED <<compVars, was>>
  \/ /\ Begin(k)
     /\ was' = Snapshot
     /\ UNCHANGED out

Continue == (InnerStep \/ LoadStore) /\ UNCHANGED <<out, was>>
Return == CountTotal /\ out' = Inserted /\ UNCHANGED was
Close == CompClose /\ was' = Snapshot /\ UNCHANGED out
Load(m) == LoadIsSound(m) /\ CompLoad(m) /\ UNCHANGED <<out, was>>

Next ==
  \/ \E k \in Keys : Compress(k)
  \/ Continue
  \/ Return
  \/ Close
  \/ \E m \in 0..MaxTotal : Load(m)

(* Nobody need call the library, but a call that has begun goes on.        *)
Fairness == WF_vars(Continue \/ Return)

Spec == Init /\ [][Next]_vars
FairSpec == Spec /\ Fairness

(* The process may also die inside a call, and the cache be opened again.  *)
CrashSpec == Init /\ [][Next \/ (CompCrash /\ UNCHANGED <<out, was>>)]_vars

-----------------------------------------------------------------------------
(* A call that has begun returns, unless edge_cache runs out of blocks and *)
(* the process dies: neither of its loops, nor the two together, go on     *)
(* removing for ever.                                                      *)
CallsReturn == pc \notin {"idle", "down", "dead"} ~> pc \in {"idle", "dead"}

(* The blocks as the user sees them: those of before the call, or of when  *)
(* the cache was closed, until the call returns or the process dies of it. *)
Seen == IF pc \in {"idle", "dead"} THEN Snapshot ELSE was

Whole == INSTANCE DreCache WITH
  blk <- Seen.blk, nb_block <- Seen.nb, nb_total_block <- Seen.total,
  data_pos_wr <- Seen.pos, edge <- Seen.edge, fault <- pc = "dead"

(* The stores of a call, in the order the code makes them, add up to one   *)
(* operation of DreCache, whichever the loops remove and however the       *)
(* writing is split.                                                       *)
ImplementsDreCache == Whole!Spec

(* What a crash at this point would leave in the file differs from the     *)
(* list in memory by one block at most: the head is behind by the block    *)
(* being removed, the tail ahead by the slot being filled, and nothing     *)
(* else is out of place, in however many removals a call makes.            *)
TornByOne ==
  pc \notin Loading \cup {"down"} =>
    LET behind == IF dropping THEN 1 ELSE 0
        ahead == IF pc \in {"fill", "offset", "count"} THEN 1 ELSE 0
    IN
    /\ nb_block = Len(list)
    /\ \A i \in DOMAIN list : list[i] = (cache_idx_head + behind + i - 1) % NbBlkIdx
    /\ cache_idx_tail = (cache_idx_head + behind + Len(list) + ahead) % NbBlkIdx

(* dre.h:46 on nb_block: `number of block currently in cache'.             *)
NbBlockIsCount == pc = "idle" => nb_block = Len(list)
=============================================================================
