---------------------------- MODULE MCCrashLink ----------------------------
(* Small instances of CrashLink for TLC.                                    *)
EXTENDS CrashLink, TLC

CONSTANTS a, b1, b2, b3, b4, d1, d2

(* One length below MinBlk, four keys of length 2, two of length 3.         *)
MCBlkLen == [k \in Keys |->
               CASE k = a -> 1 [] k \in {b1, b2, b3, b4} -> 2 [] OTHER -> 3]
MCCells == {<<k, i>> : k \in {a, b1, b2, b3, b4, d1, d2}, i \in 1..3}

(* Keys of one length differ in nothing else.                               *)
MCSymmetry == Permutations({b1, b2, b3, b4}) \cup Permutations({d1, d2})
=============================================================================
