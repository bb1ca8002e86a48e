---------------------------- MODULE MCFragments ----------------------------
(* Small instances of Fragments for TLC.                                    *)
EXTENDS Fragments, TLC

CONSTANTS s1, s2, a, b, c

(* A block below DMinBlk, one that is long enough, one of two parts or three. *)
MCBlkLen == [k \in {a, b, c} |-> CASE k = a -> 1 [] k = b -> 2 [] OTHER -> 3]
MCCells == {<<k, i>> : k \in {a, b, c}, i \in 1..3}
MCSymmetry == Permutations({s1, s2})
=============================================================================
