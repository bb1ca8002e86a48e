---------------------------- MODULE MCOutBuffers ----------------------------
(* Small instances of OutBuffers for TLC.                                   *)
EXTENDS OutBuffers, TLC

CONSTANTS a, b1, b2, b3, c1

(* One length below MinBlk, three of length 2, one of length 3.             *)
MCBlkLen == [k \in {a, b1, b2, b3, c1} |->
               CASE k = a -> 1 [] k \in {b1, b2, b3} -> 2 [] OTHER -> 3]

(* edge_cache never runs out of blocks (NeverFaults).                       *)
ASSUME MCRoom == RoomForThree

(* Keys of one length differ in nothing else.                               *)
MCSymmetry == Permutations({b1, b2, b3})
=============================================================================
