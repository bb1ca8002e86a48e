-------------------------------- MODULE Pipe --------------------------------
(***************************************************************************)
(* What a compressor and a decompressor joined by a byte stream promise    *)
(* their users, whatever the dictionaries do: the blocks written at one    *)
(* end come out at the other unchanged, in order and once.  Only a session *)
(* that breaks off loses what was on its way.                              *)
(***************************************************************************)
EXTENDS Sequences

CONSTANTS
  Keys,    \* the blocks a user can write
  NoKey    \* nothing delivered yet

VARIABLES
  inTransit,  \* the blocks written and not yet delivered
  delivered   \* the last block delivered

vars == <<inTransit, delivered>>

Init == inTransit = <<>> /\ delivered = NoKey

Write(k) ==
  /\ inTransit' = Append(inTransit, k)
  /\ UNCHANGED delivered

Deliver ==
  /\ inTransit # <<>>
  /\ delivered' = Head(inTransit)
  /\ inTransit' = Tail(inTransit)

BreakOff ==
  /\ inTransit' = <<>>
  /\ UNCHANGED delivered

Next == (\E k \in Keys : Write(k)) \/ Deliver \/ BreakOff

Spec == Init /\ [][Next]_vars
=============================================================================
