----------------------------- MODULE MCDreCache -----------------------------
(* Small instances of DreCache for TLC.                                     *)
EXTENDS DreCache, TLC

CONSTANTS a, b1, b2, b3, c1, c2

(* One length below MinBlk, three keys of length 2, two of length 3.        *)
MCBlkLen == [k \in {a, b1, b2, b3, c1, c2} |->
               CASE k = a -> 1 [] k \in {b1, b2, b3} -> 2 [] OTHER -> 3]

(* Keys of one length differ in nothing else.                               *)
MCSymmetry == Permutations({b1, b2, b3}) \cup Permutations({c1, c2})
=============================================================================
