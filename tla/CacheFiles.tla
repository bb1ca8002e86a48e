----------------------------- MODULE CacheFiles -----------------------------
(***************************************************************************)
(* How a cache is put together from its two files and taken apart again:   *)
(* new_dre_cache, comp_load_dre_cache, decomp_load_dre_cache and           *)
(* close_cache, one system call at a time.  Any of the calls may fail, and *)
(* the process may die between two of them; the files stay as they are and *)
(* the next process finds them.  It may be built the other way: with       *)
(* DRE_COMP a buffer takes the place of the data file.                     *)
(***************************************************************************)
EXTENDS Sequences

Idx == "idx"
Data == "data"
Files == {Idx, Data}
Builds == BOOLEAN                    \* TRUE with DRE_COMP, which does not decompress
Ops(b) == {"new", "comp"} \cup IF b THEN {} ELSE {"decomp"}

VARIABLES
  file,   \* on disk: "absent", "empty", "sized" (all zero) or "ready" (header written)
  fake,   \* the process is built with DRE_COMP
  op,     \* the function called last
  todo,   \* the files it has still to load, in its order
  step,   \* where it is; "closed" between calls, "up" with a cache, "dead" of a bus error
  fresh,  \* the file being loaded was created or truncated
  held,   \* what the process has: the dre_cache_t, descriptors, mappings, the buffer
  kept    \* what of it the dre_cache_t records

where == <<fake, op, todo, step, fresh>>
vars == <<file, where, held, kept>>

Cache == <<"calloc", "cache">>
Buffer == <<"malloc", Data>>
Fd(f) == <<"open", f>>
Map(f) == <<"mmap", f>>

(* What a cache consists of.                                               *)
Parts == {Fd(Idx), Map(Idx)} \cup (IF fake THEN {Buffer} ELSE {Fd(Data), Map(Data)})

Init ==
  /\ file = [f \in Files |-> "absent"]
  /\ fake = FALSE /\ op = "new" /\ todo = <<>> /\ step = "closed" /\ fresh = FALSE
  /\ held = {} /\ kept = {}

-----------------------------------------------------------------------------
(* comp_load_dre_cache needs the index to know the size of the data.       *)
Order(o) == IF o = "comp" THEN <<Idx, Data>> ELSE <<Data, Idx>>
Now == Head(todo)

Truncates == op = "new"                                    \* O_TRUNC
Creates == op = "new" \/ (op = "comp" /\ Now = Data)       \* O_CREAT

(* close_cache gives back what is recorded, and the record.                *)
CloseCache == held \ (kept \cup {Cache})

Return(rest) ==
  /\ step' = "closed" /\ todo' = <<>> /\ fresh' = FALSE
  /\ held' = rest /\ kept' = {}
  /\ UNCHANGED <<file, fake, op>>

(* A step of loading a file fails.  The helper closes its own descriptor,  *)
(* which is not recorded yet, and its caller closes the cache; but         *)
(* new_dre_cache and decomp_load_dre_cache, without a data file, only      *)
(* return.                                                                 *)
ForgetsCache == Now = Data /\ op # "comp" /\ ~fake
GivenBackNot == {}                                           \* faulty variant
GivenBack == {Fd(Now)}
Fail == Return((IF ForgetsCache THEN held ELSE CloseCache) \ GivenBack)

(* The file is loaded, and recorded.                                       *)
LoadedUnrecorded(parts) ==                                   \* faulty variant
  /\ held' = held \cup parts /\ kept' = kept \cup (parts \ {Fd(Now)})
  /\ todo' = Tail(todo) /\ fresh' = FALSE
  /\ step' = IF Tail(todo) # <<>> THEN "open" ELSE IF op = "comp" THEN "check" ELSE "up"
  /\ UNCHANGED <<fake, op>>

Loaded(parts) ==
  /\ held' = held \cup parts /\ kept' = kept \cup parts
  /\ todo' = Tail(todo) /\ fresh' = FALSE
  /\ step' = IF Tail(todo) # <<>> THEN "open" ELSE IF op = "comp" THEN "check" ELSE "up"
  /\ UNCHANGED <<fake, op>>

-----------------------------------------------------------------------------
(* alloc_cache.  A record leaked before is not followed further.           *)
Start(b, o) ==
  /\ step = "closed"
  /\ fake' = b /\ op' = o
  /\ \/ step' = "open" /\ todo' = Order(o) /\ held' = {Cache}
     \/ held' = {} /\ UNCHANGED <<step, todo>>
  /\ UNCHANGED <<file, fresh, kept>>

(* DRE_COMP: the buffer; new_dre_cache frees the record itself.            *)
AllocBuffer ==
  /\ step = "open" /\ fake /\ Now = Data
  /\ \/ Loaded({Buffer}) /\ UNCHANGED file
     \/ Fail

OpenFile ==
  /\ step = "open" /\ ~(fake /\ Now = Data)
  /\ \/ /\ file[Now] = "absent" => Creates
        /\ fresh' = (Truncates \/ file[Now] = "absent")
        /\ file' = IF fresh' THEN [file EXCEPT ![Now] = "empty"] ELSE file
        /\ step' = IF fresh' THEN "size" ELSE "map"
        /\ held' = held \cup {Fd(Now)}
        /\ UNCHANGED <<fake, op, todo, kept>>
     \/ Fail

(* A new file is given its size by a byte written at its end; for the data *)
(* comp_load_dre_cache takes the size in the index, and refuses 0.         *)
SizeFile ==
  /\ step = "size"
  /\ \/ /\ op = "comp" => file[Idx] = "ready"
        /\ file' = [file EXCEPT ![Now] = "sized"]
        /\ step' = "map"
        /\ UNCHANGED <<fake, op, todo, fresh, held, kept>>
     \/ Fail

(* An empty data file cannot be mapped.  An empty index can: its number of *)
(* slots, computed from the size less the header's, is a huge one.         *)
MapFile ==
  /\ step = "map"
  /\ \/ /\ Now = Data /\ file[Data] # "empty"
        /\ Loaded({Fd(Data), Map(Data)}) /\ UNCHANGED file
     \/ /\ Now = Idx
        /\ step' = "header" /\ held' = held \cup {Map(Idx)}
        /\ UNCHANGED <<file, fake, op, todo, fresh, kept>>
     \/ Fail

(* The header is written, or, of a file found there, read.                 *)
Header ==
  /\ step = "header"
  /\ \/ /\ fresh \/ file[Idx] # "empty"
        /\ file' = IF fresh THEN [file EXCEPT ![Idx] = "ready"] ELSE file
        /\ Loaded({Fd(Idx), Map(Idx)})
     \/ /\ ~fresh /\ file[Idx] = "empty"
        /\ step' = "dead"
        /\ UNCHANGED <<file, fake, op, todo, fresh, held, kept>>

(* comp_load_dre_cache accepts what it finds or, max_block or the crc      *)
(* being wrong, closes it.                                                 *)
Check ==
  /\ step = "check"
  /\ \/ step' = "up" /\ UNCHANGED <<file, fake, op, todo, fresh, held, kept>>
     \/ Return(CloseCache)

Close == step = "up" /\ Return(CloseCache)

(* The process dies, or has died.                                          *)
Die == step # "closed" /\ Return({})

(* make clean, or the user.                                                *)
Remove(f) ==
  /\ step = "closed"
  /\ file' = [file EXCEPT ![f] = "absent"]
  /\ UNCHANGED <<where, held, kept>>

Next ==
  \/ \E b \in Builds : \E o \in Ops(b) : Start(b, o)
  \/ AllocBuffer \/ OpenFile \/ SizeFile \/ MapFile \/ Header
  \/ Check \/ Close \/ Die
  \/ \E f \in Files : Remove(f)

Spec == Init /\ [][Next]_vars

-----------------------------------------------------------------------------
(* Whichever call failed, or at whatever point: a function that returns    *)
(* null, and close_cache, leave no descriptor, mapping or buffer behind,   *)
(* and give none back twice: the descriptor a helper closes when it fails  *)
(* is not recorded yet, and what is recorded is held.                      *)
(* The record itself is lost when the data file cannot be loaded, in the   *)
(* two functions that return without close_cache (dre.c:415 and 464), and  *)
(* in no other case.                                                       *)
Released ==
  /\ kept \subseteq held
  /\ step \in {"size", "map"} => Fd(Now) \in held \ kept
  /\ step = "closed" =>
       held \subseteq {Cache} /\ (held # {} => op \in {"new", "decomp"} /\ ~fake)

(* A cache is handed out whole, over files that were made to their full    *)
(* size, whichever process before it failed or died half-way in making     *)
(* them, or which of the two files was removed.                            *)
UpIsWhole ==
  step \in {"check", "up"} =>
    /\ held = {Cache} \cup Parts /\ kept = Parts
    /\ file[Idx] \in {"sized", "ready"}
    /\ ~fake => file[Data] = "sized"
=============================================================================
