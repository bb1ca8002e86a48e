---------------------------- MODULE MCBlockIndex ----------------------------
(* Small instances of BlockIndex for TLC.                                   *)
EXTENDS BlockIndex

CONSTANTS a, b1, b2, c3

(* One length below MinBlk, two keys of length 2, one of length 3: as many  *)
(* bytes as there are in the data area.                                     *)
MCBlkLen == [k \in {a, b1, b2, c3} |->
               CASE k = a -> 1 [] k \in {b1, b2} -> 2 [] OTHER -> 3]

(* Two buckets: one holds all the lengths, so its chain mixes them.         *)
MCBucket == [k \in {a, b1, b2, c3} |-> IF k = b2 THEN 1 ELSE 0]
=============================================================================
