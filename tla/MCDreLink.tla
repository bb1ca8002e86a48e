------------------------------ MODULE MCDreLink ------------------------------
(* Small instances of DreLink for TLC.                                      *)
EXTENDS DreLink, TLC

CONSTANTS a, b1, b2, b3, b4, c1, c2

(* One length below MinBlk, four keys of length 2, two of length 3.         *)
MCBlkLen == [k \in {a, b1, b2, b3, b4, c1, c2} |->
               CASE k = a -> 1 [] k \in {b1, b2, b3, b4} -> 2 [] OTHER -> 3]

(* Keys of one length differ in nothing else.                               *)
MCSymmetry == Permutations({b1, b2, b3, b4}) \cup Permutations({c1, c2})
=============================================================================
