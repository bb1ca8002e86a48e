-------------------------- MODULE FragmentsProofs --------------------------
(* Proofs about Fragments, for every set of streams and of blocks,         *)
(* whatever their lengths and the minimum length of a block in the cache.  *)
EXTENDS Fragments, TLAPS, SequenceTheorems, FiniteSetTheorems, Induction

Byte == (Keys \X Nat) \cup {Junk}

(* The bytes of block k after the first a, up to the b-th.                 *)
Part(k, a, b) == [i \in 1..(b - a) |-> <<k, a + i>>]

(* Stream s has handed over n bytes of block k.                            *)
HasGiven(s, k, n) == n < BlkLen[k] /\ rest[s] = Part(k, n, BlkLen[k])

(* No block is under way, ...                                              *)
Quiet == tmp = <<>> /\ \A s \in Streams : ~UnderWay(s)

(* ... or one is, and tmp_buffer holds what was handed over of it.         *)
Gathering ==
  \E s \in Streams, k \in Keys, n \in Nat :
    /\ HasGiven(s, k, n) /\ n > 0
    /\ tmp = Part(k, 0, n) /\ ~tmp_null
    /\ \A t \in Streams \ {s} : ~UnderWay(t)

FragTypes ==
  /\ rest \in [Streams -> Seq(Keys \X Nat)]
  /\ \A s \in Streams : rest[s] # <<>> => \E k \in Keys, n \in Nat : HasGiven(s, k, n)
  /\ tmp \in Seq(Byte) /\ tmp_buffer_len \in Nat /\ tmp_null \in BOOLEAN
  /\ disturbed \in BOOLEAN
  /\ log \in Seq([bytes : Seq(Byte), clean : BOOLEAN])
  /\ dpc \in {"idle", "dead", "rotate", "copy", "advance", "size", "total", "count"}

FragInv ==
  /\ FragTypes
  /\ dpc = "idle" /\ ~disturbed => Quiet \/ Gathering
  /\ dpc \notin {"idle", "dead"} /\ ~disturbed => \A s \in Streams : ~UnderWay(s)
  /\ CleanIsWhole

-----------------------------------------------------------------------------
(* Parts of a block, cut and put together.                                 *)
LEMMA PartLemma ==
  ASSUME NEW k \in Keys, NEW a \in Nat, NEW b \in Nat, a <= b
  PROVE  /\ Part(k, a, b) \in Seq(Keys \X Nat) /\ Len(Part(k, a, b)) = b - a
         /\ \A i \in 1..(b - a) : Part(k, a, b)[i] = <<k, a + i>>
<1>1. b - a \in Nat
  OBVIOUS
<1>2. \A i \in 1..(b - a) : <<k, a + i>> \in Keys \X Nat
  OBVIOUS
<1> QED BY <1>1, <1>2 DEF Part

LEMMA RestLemma ==
  ASSUME NEW k \in Keys, NEW n \in Nat, n <= BlkLen[k]
  PROVE  /\ Part(k, n, BlkLen[k]) \in Seq(Keys \X Nat)
         /\ Len(Part(k, n, BlkLen[k])) = BlkLen[k] - n
         /\ \A i \in 1..(BlkLen[k] - n) : Part(k, n, BlkLen[k])[i] = <<k, n + i>>
<1> DEFINE b == BlkLen[k]
<1>1. b \in Nat /\ n <= b
  BY FragmentsAssumption
<1> HIDE DEF b
<1>2. /\ Part(k, n, b) \in Seq(Keys \X Nat) /\ Len(Part(k, n, b)) = b - n
      /\ \A i \in 1..(b - n) : Part(k, n, b)[i] = <<k, n + i>>
  BY <1>1, PartLemma
<1> QED BY <1>2 DEF b

LEMMA CutLemma ==
  ASSUME NEW k \in Keys, NEW a \in Nat, NEW b \in Nat, NEW n \in 1..(b - a)
  PROVE  /\ SubSeq(Part(k, a, b), 1, n) = Part(k, a, a + n)
         /\ SubSeq(Part(k, a, b), n + 1, Len(Part(k, a, b))) = Part(k, a + n, b)
<1>1. a <= b /\ b - a \in Nat /\ n \in Nat /\ n >= 1 /\ n <= b - a /\ a + n \in Nat /\ a + n <= b
  OBVIOUS
<1>2. /\ Part(k, a, b) \in Seq(Keys \X Nat) /\ Len(Part(k, a, b)) = b - a
      /\ \A i \in 1..(b - a) : Part(k, a, b)[i] = <<k, a + i>>
  BY <1>1, PartLemma
<1>3. SubSeq(Part(k, a, b), 1, n) = Part(k, a, a + n)
  <2>1. SubSeq(Part(k, a, b), 1, n) = [i \in 1..n |-> Part(k, a, b)[i]]
    BY <1>1, <1>2
  <2>2. \A i \in 1..n : Part(k, a, b)[i] = <<k, a + i>>
    BY <1>1, <1>2
  <2>3. (a + n) - a = n
    BY <1>1
  <2> QED BY <2>1, <2>2, <2>3 DEF Part
<1>4. SubSeq(Part(k, a, b), n + 1, b - a) = Part(k, a + n, b)
  <2> DEFINE cut == SubSeq(Part(k, a, b), n + 1, b - a)
             rem == b - (a + n)
  <2>1. rem \in Nat /\ rem = (b - a) - n
    BY <1>1
  <2>2. cut = [i \in 1..rem |-> Part(k, a, b)[n + i]]
    <3>1. cut \in Seq(Keys \X Nat) /\ Len(cut) = rem
          /\ \A i \in 1..rem : cut[i] = Part(k, a, b)[n + 1 + i - 1]
      BY <1>1, <1>2, <2>1
    <3>2. \A i \in 1..rem : n + 1 + i - 1 = n + i
      BY <1>1
    <3>3. cut = [i \in 1..rem |-> cut[i]]
      BY <3>1
    <3> HIDE DEF cut, rem
    <3> QED BY <3>1, <3>2, <3>3
  <2>3. ASSUME NEW i \in 1..rem  PROVE Part(k, a, b)[n + i] = <<k, (a + n) + i>>
    <3>1. n + i \in 1..(b - a) /\ a + (n + i) = (a + n) + i
      BY <1>1, <2>1
    <3> QED BY <3>1, <1>2
  <2> HIDE DEF cut
  <2> QED BY <2>2, <2>3 DEF Part, cut
<1> QED BY <1>2, <1>3, <1>4

LEMMA JoinLemma ==
  ASSUME NEW k \in Keys, NEW a \in Nat, NEW b \in Nat, a <= b
  PROVE  Part(k, 0, a) \o Part(k, a, b) = Part(k, 0, b)
<1> DEFINE one == Part(k, 0, a)
           two == Part(k, a, b)
<1>1. one \in Seq(Keys \X Nat) /\ Len(one) = a /\ \A i \in 1..a : one[i] = <<k, 0 + i>>
  <2>1. 0 \in Nat /\ 0 <= a /\ a - 0 = a
    OBVIOUS
  <2> QED BY <2>1, PartLemma
<1>2. two \in Seq(Keys \X Nat) /\ Len(two) = b - a /\ \A i \in 1..(b - a) : two[i] = <<k, a + i>>
  BY PartLemma
<1> HIDE DEF one, two
<1>3. /\ one \o two \in Seq(Keys \X Nat) /\ Len(one \o two) = b
      /\ \A i \in 1..b : (one \o two)[i] = IF i <= a THEN one[i] ELSE two[i - a]
  <2>1. /\ one \o two \in Seq(Keys \X Nat) /\ Len(one \o two) = Len(one) + Len(two)
        /\ \A i \in 1..(Len(one) + Len(two)) :
             (one \o two)[i] = IF i <= Len(one) THEN one[i] ELSE two[i - Len(one)]
    BY <1>1, <1>2, ConcatProperties
  <2>2. Len(one) + Len(two) = b
    BY <1>1, <1>2
  <2> QED BY <2>1, <2>2, <1>1
<1>4. ASSUME NEW i \in 1..b  PROVE (one \o two)[i] = <<k, 0 + i>>
  <2>1. CASE i <= a
    <3>1. i \in 1..a
      BY <2>1
    <3> QED BY <2>1, <3>1, <1>1, <1>3
  <2>2. CASE ~(i <= a)
    <3>1. i - a \in 1..(b - a) /\ a + (i - a) = 0 + i
      BY <2>2
    <3>2. (one \o two)[i] = two[i - a]
      BY <2>2, <1>3
    <3> QED BY <3>1, <3>2, <1>2
  <2> QED BY <2>1, <2>2
<1>5. one \o two = [i \in 1..b |-> (one \o two)[i]]
  <2> DEFINE both == one \o two
  <2>1. both \in Seq(Keys \X Nat) /\ Len(both) = b
    BY <1>3
  <2> HIDE DEF both
  <2>2. both = [i \in 1..b |-> both[i]]
    BY <2>1
  <2> QED BY <2>2 DEF both
<1>6. Part(k, 0, b) = [i \in 1..b |-> <<k, 0 + i>>]
  <2>1. b - 0 = b
    OBVIOUS
  <2> QED BY <2>1 DEF Part
<1>7. [i \in 1..b |-> (one \o two)[i]] = [i \in 1..b |-> <<k, 0 + i>>]
  BY <1>4
<1> QED BY <1>5, <1>6, <1>7 DEF one, two

(* What a stream has given can be read off its rest.                       *)
LEMMA GivenLemma ==
  ASSUME FragTypes, NEW s \in Streams, NEW k \in Keys, NEW n \in Nat, HasGiven(s, k, n)
  PROVE  /\ BlkLen[k] \in Nat
         /\ rest[s] \in Seq(Keys \X Nat) /\ Len(rest[s]) = BlkLen[k] - n /\ rest[s] # <<>>
         /\ rest[s][1] = <<k, n + 1>>
         /\ UnderWay(s) <=> n > 0
<1>1. BlkLen[k] \in Nat /\ n < BlkLen[k] /\ rest[s] = Part(k, n, BlkLen[k])
  BY FragmentsAssumption DEF HasGiven
<1>2. /\ rest[s] \in Seq(Keys \X Nat) /\ Len(rest[s]) = BlkLen[k] - n
      /\ \A i \in 1..(BlkLen[k] - n) : rest[s][i] = <<k, n + i>>
  <2>1. n <= BlkLen[k]
    BY <1>1
  <2> QED BY <2>1, <1>1, RestLemma
<1>3. rest[s] # <<>>
  BY <1>1, <1>2
<1>4. rest[s][1] = <<k, n + 1>>
  <2>1. 1 \in 1..(BlkLen[k] - n)
    BY <1>1
  <2> QED BY <2>1, <1>2
<1>5. rest[s][1][2] = n + 1
  BY <1>4
<1> QED BY <1>1, <1>2, <1>3, <1>4, <1>5 DEF UnderWay

(* The same of the next state.                                             *)
LEMMA GivenNext ==
  ASSUME FragTypes', NEW s \in Streams, NEW k \in Keys, NEW n \in Nat, HasGiven(s, k, n)'
  PROVE  /\ rest'[s] # <<>> /\ rest'[s][1] = <<k, n + 1>>
         /\ UnderWay(s)' <=> n > 0
<1>1. BlkLen[k] \in Nat /\ n < BlkLen[k] /\ n <= BlkLen[k] /\ rest'[s] = Part(k, n, BlkLen[k])
  BY FragmentsAssumption DEF HasGiven, Part
<1>2. /\ rest'[s] \in Seq(Keys \X Nat) /\ Len(rest'[s]) = BlkLen[k] - n
      /\ \A i \in 1..(BlkLen[k] - n) : rest'[s][i] = <<k, n + i>>
  BY <1>1, RestLemma
<1>3. rest'[s] # <<>>
  BY <1>1, <1>2
<1>4. rest'[s][1] = <<k, n + 1>>
  <2>1. 1 \in 1..(BlkLen[k] - n)
    BY <1>1
  <2> QED BY <2>1, <1>2
<1>5. rest'[s][1][2] = n + 1
  BY <1>4
<1> QED BY <1>3, <1>4, <1>5 DEF UnderWay

(* A log that grows by an entry says of the entries before what it did.    *)
LEMMA LogGrows ==
  ASSUME FragInv, NEW e \in [bytes : Seq(Byte), clean : BOOLEAN], log' = Append(log, e),
         e.clean => \E k \in Keys : e.bytes = Bytes(k)
  PROVE  log' \in Seq([bytes : Seq(Byte), clean : BOOLEAN]) /\ CleanIsWhole'
<1> DEFINE Entry == [bytes : Seq(Byte), clean : BOOLEAN]
<1>1. log \in Seq(Entry)
  BY DEF FragInv, FragTypes
<1> HIDE DEF Entry
<1>2. /\ log' \in Seq(Entry) /\ Len(log) \in Nat /\ DOMAIN log = 1..Len(log)
      /\ DOMAIN log' = 1..(Len(log) + 1)
      /\ \A i \in 1..Len(log) : log'[i] = log[i]
      /\ log'[Len(log) + 1] = e
  BY <1>1 DEF Entry
<1>3. ASSUME NEW i \in DOMAIN log', log'[i].clean
      PROVE  \E k \in Keys : log'[i].bytes = Bytes(k)
  <2>1. CASE i \in 1..Len(log)
    BY <2>1, <1>2, <1>3 DEF FragInv, CleanIsWhole
  <2>2. CASE i = Len(log) + 1
    BY <2>2, <1>2, <1>3
  <2> QED BY <2>1, <2>2, <1>2
<1>4. CleanIsWhole'
  BY <1>3 DEF CleanIsWhole, Bytes
<1> QED BY <1>2, <1>4 DEF Entry

-----------------------------------------------------------------------------
LEMMA BeginStep ==
  ASSUME FragInv, NEW s \in Streams, BeginBlock(s)
  PROVE  FragInv'
<1>1. /\ FragTypes /\ CleanIsWhole /\ dpc = "idle" /\ rest[s] = <<>>
      /\ UNCHANGED <<decVars, log, disturbed>>
  BY DEF FragInv, BeginBlock
<1>2. PICK k \in Keys : rest' = [rest EXCEPT ![s] = Bytes(k)]
  BY DEF BeginBlock
<1>3. BlkLen[k] \in Nat /\ BlkLen[k] > 0
  BY FragmentsAssumption
<1>4. /\ rest'[s] = Part(k, 0, BlkLen[k]) /\ \A t \in Streams \ {s} : rest'[t] = rest[t]
      /\ rest' \in [Streams -> Seq(Keys \X Nat)]
  <2>1. Bytes(k) = Part(k, 0, BlkLen[k])
    <3>1. BlkLen[k] - 0 = BlkLen[k] /\ \A i \in 1..BlkLen[k] : 0 + i = i
      BY <1>3
    <3> QED BY <3>1 DEF Bytes, Part
  <2>2. Part(k, 0, BlkLen[k]) \in Seq(Keys \X Nat)
    BY <1>3, RestLemma
  <2> QED BY <2>1, <2>2, <1>1, <1>2 DEF FragTypes
<1>5. /\ tmp' = tmp /\ tmp_buffer_len' = tmp_buffer_len /\ tmp_null' = tmp_null /\ dpc' = dpc
      /\ log' = log /\ disturbed' = disturbed
  BY <1>1 DEF decVars, dmem
<1>6. FragTypes'
  <2>1. ASSUME NEW t \in Streams, rest'[t] # <<>>
        PROVE  \E l \in Keys, n \in Nat : HasGiven(t, l, n)'
    <3>1. CASE t = s
      <4>1. HasGiven(s, k, 0)'
        BY <1>3, <1>4 DEF HasGiven, Part
      <4> QED BY <3>1, <4>1
    <3>2. CASE t # s
      <4>1. PICK l \in Keys, n \in Nat : HasGiven(t, l, n)
        BY <3>2, <2>1, <1>1, <1>4 DEF FragTypes
      <4>2. HasGiven(t, l, n)'
        BY <3>2, <4>1, <1>4 DEF HasGiven, Part
      <4> QED BY <4>2
    <3> QED BY <3>1, <3>2
  <2> QED BY <2>1, <1>1, <1>4, <1>5 DEF FragTypes
<1>7. ~UnderWay(s)' /\ ~UnderWay(s) /\ \A t \in Streams \ {s} : UnderWay(t)' <=> UnderWay(t)
  <2>1. HasGiven(s, k, 0)'
    BY <1>3, <1>4 DEF HasGiven, Part
  <2>2. ~UnderWay(s)'
    BY <2>1, <1>6, GivenNext
  <2> QED BY <2>2, <1>1, <1>4 DEF UnderWay
<1>8. ASSUME ~disturbed', Quiet  PROVE Quiet'
  BY <1>5, <1>7, <1>8 DEF Quiet
<1>9. ASSUME ~disturbed', Gathering  PROVE Gathering'
  <2>1. PICK t \in Streams, l \in Keys, n \in Nat :
          /\ HasGiven(t, l, n) /\ n > 0 /\ tmp = Part(l, 0, n) /\ ~tmp_null
          /\ \A u \in Streams \ {t} : ~UnderWay(u)
    BY <1>9 DEF Gathering
  <2>2. t # s
    BY <2>1, <1>1, <1>7, GivenLemma
  <2>3. HasGiven(t, l, n)' /\ tmp' = Part(l, 0, n)
    BY <2>1, <2>2, <1>4, <1>5 DEF HasGiven, Part
  <2>4. \A u \in Streams \ {t} : ~UnderWay(u)'
    BY <2>1, <1>7
  <2> QED BY <2>1, <2>3, <2>4, <1>5 DEF Gathering, Part
<1>10. CleanIsWhole'
  BY <1>1, <1>5 DEF CleanIsWhole, Bytes
<1>11. dpc' = "idle" /\ ~disturbed' => Quiet' \/ Gathering'
  BY <1>1, <1>5, <1>8, <1>9 DEF FragInv
<1>12. dpc' = "idle"
  BY <1>1, <1>5
<1> QED BY <1>6, <1>10, <1>11, <1>12 DEF FragInv

(* The stores to the dictionary; the last of them empties tmp_buffer.      *)
LEMMA ContinueStep ==
  ASSUME FragInv, Continue
  PROVE  FragInv'
<1>1. /\ FragTypes /\ CleanIsWhole /\ dpc \notin {"idle", "dead"}
      /\ dpc' \in {"idle", "copy", "advance", "size", "total", "count"}
      /\ tmp' = tmp \/ tmp' = <<>>
      /\ dpc' = "idle" => tmp' = <<>>
      /\ UNCHANGED <<rest, log, disturbed, tmp_buffer_len, tmp_null>>
  BY DEF FragInv, Continue, envVars, DecStep, DecRotate, DecCopy, DecAdvance, DecSetSize,
         DecCountTotal, DecCountBlock, dmem
<1>2. FragTypes'
  <2>1. tmp' \in Seq(Byte)
    <3>1. tmp \in Seq(Byte) /\ <<>> \in Seq(Byte)
      BY <1>1 DEF FragTypes
    <3> QED BY <3>1, <1>1
  <2>2. \A s \in Streams, k \in Keys, n \in Nat : HasGiven(s, k, n)' <=> HasGiven(s, k, n)
    BY <1>1 DEF HasGiven, Part
  <2>3. dpc' \in {"idle", "dead", "rotate", "copy", "advance", "size", "total", "count"}
    BY <1>1
  <2> QED BY <1>1, <2>1, <2>2, <2>3 DEF FragTypes
<1>3. CleanIsWhole'
  BY <1>1 DEF CleanIsWhole, Bytes
<1>4. ~disturbed' => \A s \in Streams : ~UnderWay(s)'
  BY <1>1 DEF FragInv, UnderWay
<1>5. dpc' = "idle" /\ ~disturbed' => Quiet'
  BY <1>1, <1>4 DEF Quiet
<1> QED BY <1>2, <1>3, <1>4, <1>5 DEF FragInv

(* A reset leaves tmp_buffer to the block under way.                       *)
LEMMA ResetStep ==
  ASSUME FragInv, Reset
  PROVE  FragInv'
<1>1. /\ FragTypes /\ dpc = "idle" /\ log' = Append(log, ResetMark)
      /\ UNCHANGED <<rest, disturbed, tmp, tmp_buffer_len, tmp_null, dpc>>
  BY DEF FragInv, Reset, DecReset, dmem
<1>2. log' \in Seq([bytes : Seq(Byte), clean : BOOLEAN]) /\ CleanIsWhole'
  <2>1. ResetMark \in [bytes : Seq(Byte), clean : BOOLEAN] /\ ~ResetMark.clean
    <3>1. <<>> \in Seq(Byte)
      OBVIOUS
    <3> QED BY <3>1 DEF ResetMark
  <2> QED BY <2>1, <1>1, LogGrows
<1>3. \A s \in Streams, k \in Keys, n \in Nat : HasGiven(s, k, n)' <=> HasGiven(s, k, n)
  BY <1>1 DEF HasGiven, Part
<1>4. FragTypes'
  BY <1>1, <1>2, <1>3 DEF FragTypes
<1>5. \A s \in Streams : UnderWay(s)' <=> UnderWay(s)
  BY <1>1 DEF UnderWay
<1>6. (Quiet => Quiet') /\ (Gathering => Gathering')
  <2>1. Quiet => Quiet'
    BY <1>1, <1>5 DEF Quiet
  <2>2. ASSUME Gathering  PROVE Gathering'
    <3>1. PICK s \in Streams, k \in Keys, n \in Nat :
            /\ HasGiven(s, k, n) /\ n > 0 /\ tmp = Part(k, 0, n) /\ ~tmp_null
            /\ \A t \in Streams \ {s} : ~UnderWay(t)
      BY <2>2 DEF Gathering
    <3> QED BY <3>1, <1>1, <1>3, <1>5 DEF Gathering, Part
  <2> QED BY <2>1, <2>2
<1> QED BY <1>1, <1>2, <1>4, <1>6 DEF FragInv

-----------------------------------------------------------------------------
(* When a fragment is appended with tmp_buffer to itself, what is gathered *)
(* then is what its stream has given of its block.                         *)
LEMMA GatherLemma ==
  ASSUME FragInv, dpc = "idle", ~disturbed, NEW s \in Streams, NEW k \in Keys, NEW m \in Nat,
         HasGiven(s, k, m), \A t \in Streams \ {s} : ~UnderWay(t),
         NEW n \in Nat, m <= n
  PROVE  /\ Kept \o Part(k, m, n) = Part(k, 0, n)
         /\ ~tmp_null => tmp \o Part(k, m, n) = Part(k, 0, n)
<1>1. FragTypes /\ (Quiet \/ Gathering)
  BY DEF FragInv
<1>2. UnderWay(s) <=> m > 0
  BY <1>1, GivenLemma
<1>3. Part(k, 0, m) \o Part(k, m, n) = Part(k, 0, n)
  BY JoinLemma
<1>4. CASE Quiet
  <2>1. m = 0 /\ tmp = <<>>
    BY <1>2, <1>4 DEF Quiet
  <2>2. Part(k, 0, 0) = <<>>
    BY DEF Part
  <2>3. Kept = <<>>
    BY <2>1 DEF Kept
  <2> QED BY <2>1, <2>2, <2>3, <1>3
<1>5. CASE Gathering
  <2>1. PICK t \in Streams, l \in Keys, j \in Nat :
          /\ HasGiven(t, l, j) /\ j > 0 /\ tmp = Part(l, 0, j) /\ ~tmp_null
    BY <1>5 DEF Gathering
  <2>2. t = s
    BY <2>1, <1>1, GivenLemma
  <2>3. rest[s][1] = <<k, m + 1>> /\ rest[s][1] = <<l, j + 1>>
    BY <2>1, <2>2, <1>1, GivenLemma
  <2>4. l = k /\ j = m
    <3>1. <<k, m + 1>> = <<l, j + 1>>
      BY <2>3
    <3> QED BY <3>1
  <2>5. Kept = tmp /\ tmp = Part(k, 0, m)
    BY <2>1, <2>4 DEF Kept
  <2> QED BY <2>5, <1>3
<1> QED BY <1>1, <1>4, <1>5

(* A stream hands over its next bytes.                                     *)
LEMMA HandOverStep ==
  ASSUME FragInv, NEW s \in Streams, NEW n \in DOMAIN rest[s], HandOver(s, n)
  PROVE  FragInv'
<1> DEFINE bytes == SubSeq(rest[s], 1, n)
           last == n = Len(rest[s])
           meets == \E t \in Streams \ {s} : UnderWay(t)
           clean == ~disturbed /\ ~meets
<1>1. FragTypes /\ CleanIsWhole
  BY DEF FragInv
<1>2. rest' = [rest EXCEPT ![s] = SubSeq(@, n + 1, Len(@))]
  BY DEF HandOver
<1>3. rest[s] # <<>>
  OBVIOUS
<1>4. PICK k \in Keys, m \in Nat : HasGiven(s, k, m)
  BY <1>1, <1>3 DEF FragTypes
<1>5. /\ BlkLen[k] \in Nat /\ m < BlkLen[k] /\ rest[s] = Part(k, m, BlkLen[k])
      /\ rest[s] \in Seq(Keys \X Nat) /\ Len(rest[s]) = BlkLen[k] - m
      /\ n \in 1..(BlkLen[k] - m)
  <2>1. /\ BlkLen[k] \in Nat /\ rest[s] \in Seq(Keys \X Nat)
        /\ Len(rest[s]) = BlkLen[k] - m
    BY <1>1, <1>4, GivenLemma
  <2>2. n \in 1..Len(rest[s])
    BY <2>1
  <2> QED BY <2>1, <2>2, <1>4 DEF HasGiven
<1>6. /\ bytes = Part(k, m, m + n) /\ rest'[s] = Part(k, m + n, BlkLen[k])
      /\ m + n \in Nat /\ m <= m + n /\ m + n <= BlkLen[k]
      /\ last <=> m + n = BlkLen[k]
  <2> DEFINE b == BlkLen[k]
  <2>1. b \in Nat /\ n \in 1..(b - m) /\ rest[s] = Part(k, m, b) /\ Len(rest[s]) = b - m
    BY <1>5
  <2>2. rest'[s] = SubSeq(rest[s], n + 1, Len(rest[s]))
    BY <1>1, <1>2 DEF FragTypes
  <2> HIDE DEF b
  <2>3. /\ SubSeq(Part(k, m, b), 1, n) = Part(k, m, m + n)
        /\ SubSeq(Part(k, m, b), n + 1, Len(Part(k, m, b))) = Part(k, m + n, b)
    BY <2>1, CutLemma
  <2>4. m + n \in Nat /\ m <= m + n /\ m + n <= b /\ (n = b - m <=> m + n = b)
    BY <2>1
  <2> QED BY <2>1, <2>2, <2>3, <2>4 DEF b
<1>7. \A t \in Streams \ {s} : rest'[t] = rest[t]
  BY <1>1, <1>2 DEF FragTypes
<1>8. \A t \in Streams \ {s} : UnderWay(t)' <=> UnderWay(t)
  BY <1>7 DEF UnderWay
<1>9. /\ rest' \in [Streams -> Seq(Keys \X Nat)]
      /\ \A t \in Streams : rest'[t] # <<>> => \E l \in Keys, j \in Nat : HasGiven(t, l, j)'
  <2>1. rest'[s] \in Seq(Keys \X Nat)
    BY <1>6, RestLemma
  <2>2. rest' \in [Streams -> Seq(Keys \X Nat)]
    BY <2>1, <1>1, <1>2, <1>6, <1>7 DEF FragTypes
  <2>3. ASSUME NEW t \in Streams, rest'[t] # <<>>
        PROVE  \E l \in Keys, j \in Nat : HasGiven(t, l, j)'
    <3>1. CASE t # s
      <4>1. PICK l \in Keys, j \in Nat : HasGiven(t, l, j)
        BY <3>1, <2>3, <1>1, <1>7 DEF FragTypes
      <4> QED BY <4>1, <3>1, <1>7 DEF HasGiven, Part
    <3>2. CASE t = s
      <4>1. m + n # BlkLen[k]
        <5>1. Part(k, BlkLen[k], BlkLen[k]) = <<>>
          BY <1>5 DEF Part
        <5> QED BY <5>1, <3>2, <2>3, <1>6
      <4>2. HasGiven(s, k, m + n)'
        BY <4>1, <1>5, <1>6 DEF HasGiven, Part
      <4> QED BY <4>2, <3>2, <1>6
    <3> QED BY <3>1, <3>2
  <2> QED BY <2>2, <2>3
<1>10. \/ /\ AppendFragment(bytes, last)
          /\ disturbed' = IF last THEN meets ELSE ~clean
          /\ log' = IF dpc' = "rotate" THEN Append(log, [bytes |-> tmp', clean |-> clean])
                                      ELSE log
       \/ /\ ReallocFails(bytes) \/ CopyToNull(bytes)
          /\ disturbed' = TRUE /\ log' = log
  BY DEF HandOver
<1>11. bytes \in Seq(Byte) /\ Len(bytes) = n /\ n \in Nat
  <2>1. Part(k, m, m + n) \in Seq(Keys \X Nat) /\ Len(Part(k, m, m + n)) = (m + n) - m
    BY <1>6, PartLemma
  <2>2. Part(k, m, m + n) \in Seq(Byte)
    <3>1. Keys \X Nat \subseteq Byte
      BY DEF Byte
    <3> QED BY <3>1, <2>1
  <2>3. (m + n) - m = n /\ n \in Nat
    BY <1>5
  <2> QED BY <2>1, <2>2, <2>3, <1>6
<1>12. Len(tmp) \in Nat /\ tmp \in Seq(Byte) /\ tmp_buffer_len \in Nat
  BY <1>1 DEF FragTypes
<1> HIDE DEF bytes, last, meets, clean
<1>13. CASE ReallocFails(bytes) \/ CopyToNull(bytes)
  <2>1. /\ disturbed' = TRUE /\ log' = log /\ tmp' = tmp /\ tmp_buffer_len' = tmp_buffer_len
        /\ tmp_null' \in BOOLEAN /\ dpc' \in {"idle", "dead"}
    <3>1. dpc = "idle"
      BY <1>13 DEF ReallocFails, CopyToNull
    <3>2. /\ tmp' = tmp /\ tmp_buffer_len' = tmp_buffer_len
          /\ tmp_null' \in BOOLEAN /\ dpc' \in {"idle", "dead"}
      BY <3>1, <1>1, <1>13 DEF ReallocFails, CopyToNull, dmem, FragTypes
    <3>3. AppendFragment(bytes, last) => FALSE
      <4>1. CASE ReallocFails(bytes)
        BY <4>1, <1>12 DEF ReallocFails, AppendFragment
      <4>2. CASE CopyToNull(bytes)
        BY <4>2 DEF CopyToNull, AppendFragment
      <4> QED BY <4>1, <4>2, <1>13
    <3> QED BY <3>2, <3>3, <1>10
  <2>2. FragTypes'
    BY <2>1, <1>1, <1>9 DEF FragTypes
  <2>3. CleanIsWhole'
    BY <2>1, <1>1 DEF CleanIsWhole, Bytes
  <2> QED BY <2>1, <2>2, <2>3 DEF FragInv
<1>14. CASE AppendFragment(bytes, last) /\ ~(ReallocFails(bytes) \/ CopyToNull(bytes))
  <2> DEFINE grown == IF Grows(bytes) THEN Kept \o bytes ELSE tmp \o bytes
  <2>1. /\ dpc = "idle" /\ (Grows(bytes) \/ ~tmp_null)
        /\ tmp' = IF last /\ ~LongEnough(Len(grown)) THEN <<>> ELSE grown
        /\ dpc' = IF last /\ LongEnough(Len(tmp) + Len(bytes)) THEN "rotate" ELSE "idle"
    BY <1>14 DEF AppendFragment
  <2>2. tmp_buffer_len' \in Nat /\ tmp_null' \in BOOLEAN /\ ~tmp_null'
    <3>1. CASE Grows(bytes)
      <4>1. tmp_buffer_len' = Len(bytes) + Len(tmp) /\ tmp_null' = FALSE
        BY <3>1, <1>14 DEF AppendFragment
      <4>2. Len(bytes) \in Nat /\ Len(tmp) \in Nat
        BY <1>11, <1>12
      <4>3. Len(bytes) + Len(tmp) \in Nat
        BY <4>2
      <4> QED BY <4>1, <4>3
    <3>2. CASE ~Grows(bytes)
      <4>1. tmp_buffer_len' = tmp_buffer_len /\ tmp_null' = tmp_null
        BY <3>2, <1>14 DEF AppendFragment
      <4> QED BY <4>1, <3>2, <2>1, <1>12, <1>1 DEF FragTypes
    <3> QED BY <3>1, <3>2
  <2>3. /\ disturbed' = IF last THEN meets ELSE ~clean
        /\ log' = IF dpc' = "rotate" THEN Append(log, [bytes |-> tmp', clean |-> clean]) ELSE log
    BY <1>10, <1>14
  <2>4. grown \in Seq(Byte) /\ Len(grown) = Len(tmp) + Len(bytes)
    <3>1. Kept \in Seq(Byte) /\ Len(Kept) = Len(tmp)
      <4>1. CASE tmp_null
        <5>1. Junk \in Byte
          BY DEF Byte
        <5>2. /\ [i \in 1..Len(tmp) |-> Junk] \in Seq(Byte)
              /\ Len([i \in 1..Len(tmp) |-> Junk]) = Len(tmp)
          BY <5>1, <1>12
        <5> QED BY <4>1, <5>2 DEF Kept
      <4>2. CASE ~tmp_null
        BY <4>2, <1>12 DEF Kept
      <4> QED BY <4>1, <4>2
    <3>2. Kept \o bytes \in Seq(Byte) /\ Len(Kept \o bytes) = Len(Kept) + Len(bytes)
      BY <3>1, <1>11, ConcatProperties
    <3>3. tmp \o bytes \in Seq(Byte) /\ Len(tmp \o bytes) = Len(tmp) + Len(bytes)
      BY <1>11, <1>12, ConcatProperties
    <3> QED BY <3>1, <3>2, <3>3
  <2>5. clean => grown = Part(k, 0, m + n)
    <3> SUFFICES ASSUME clean PROVE grown = Part(k, 0, m + n)
      OBVIOUS
    <3>1. ~disturbed /\ \A t \in Streams \ {s} : ~UnderWay(t)
      BY DEF clean, meets
    <3> DEFINE j == m + n
    <3>2. j \in Nat /\ m <= j
      BY <1>6
    <3> HIDE DEF j
    <3>3. /\ Kept \o Part(k, m, j) = Part(k, 0, j)
          /\ ~tmp_null => tmp \o Part(k, m, j) = Part(k, 0, j)
      <4>1. dpc = "idle"
        BY <1>14 DEF AppendFragment
      <4>2. Kept \o Part(k, m, j) = Part(k, 0, j)
        BY <4>1, <3>1, <3>2, <1>4, GatherLemma
      <4>3. ~tmp_null => tmp \o Part(k, m, j) = Part(k, 0, j)
        BY <4>1, <3>1, <3>2, <1>4, GatherLemma
      <4> QED BY <4>2, <4>3
    <3>4. bytes = Part(k, m, j)
      BY <1>6 DEF j
    <3> QED BY <3>3, <3>4, <2>1 DEF j
  <2> HIDE DEF grown
  <2>6. tmp' \in Seq(Byte)
    <3>1. <<>> \in Seq(Byte)
      OBVIOUS
    <3> QED BY <3>1, <2>1, <2>4
  <2>7. meets \in BOOLEAN /\ clean \in BOOLEAN /\ disturbed' \in BOOLEAN
    BY <2>3 DEF meets, clean
  <2>8. log' \in Seq([bytes : Seq(Byte), clean : BOOLEAN]) /\ CleanIsWhole'
    <3>1. CASE dpc' = "rotate"
      <4>1. last /\ tmp' = grown
        BY <3>1, <2>1, <2>4
      <4>2. clean => tmp' = Bytes(k)
        <5>1. BlkLen[k] - 0 = BlkLen[k] /\ \A i \in 1..BlkLen[k] : 0 + i = i
          BY <1>5
        <5>2. Part(k, 0, BlkLen[k]) = Bytes(k)
          BY <5>1 DEF Part, Bytes
        <5> QED BY <5>2, <4>1, <2>5, <1>6
      <4> DEFINE e == [bytes |-> tmp', clean |-> clean]
      <4>3. e \in [bytes : Seq(Byte), clean : BOOLEAN] /\ log' = Append(log, e)
        BY <3>1, <2>3, <2>6, <2>7
      <4>4. e.clean => \E l \in Keys : e.bytes = Bytes(l)
        BY <4>2
      <4> HIDE DEF e
      <4> QED BY <4>3, <4>4, LogGrows
    <3>2. CASE dpc' # "rotate"
      BY <3>2, <2>3, <1>1 DEF FragTypes, CleanIsWhole, Bytes
    <3> QED BY <3>1, <3>2
  <2>9. FragTypes'
    <3>1. dpc' \in {"idle", "rotate"}
      BY <2>1
    <3> QED BY <3>1, <2>2, <2>6, <2>7, <2>8, <1>9 DEF FragTypes
  <2>10. CASE last
    <3>1. disturbed' = meets
      BY <2>3, <2>10
    <3>2. ~UnderWay(s)'
      <4>1. Part(k, BlkLen[k], BlkLen[k]) = <<>>
        BY <1>5 DEF Part
      <4>2. rest'[s] = <<>>
        BY <4>1, <2>10, <1>6
      <4> QED BY <4>2 DEF UnderWay
    <3>3. ~disturbed' => \A t \in Streams : ~UnderWay(t)'
      BY <3>1, <3>2, <1>8 DEF meets
    <3>4. dpc' = "idle" => tmp' = <<>>
      BY <2>1, <2>4, <2>10
    <3> QED BY <3>3, <3>4, <2>8, <2>9 DEF FragInv, Quiet
  <2>11. CASE ~last
    <3>1. dpc' = "idle" /\ tmp' = grown /\ (~disturbed' => clean)
      BY <2>1, <2>3, <2>7, <2>11
    <3>2. ASSUME ~disturbed'  PROVE Gathering'
      <4>1. clean /\ tmp' = Part(k, 0, m + n)
        BY <3>1, <3>2, <2>5
      <4>2. m + n # BlkLen[k] /\ m + n < BlkLen[k] /\ m + n > 0
        BY <2>11, <1>5, <1>6
      <4>3. HasGiven(s, k, m + n)'
        BY <4>2, <1>6 DEF HasGiven, Part
      <4>4. \A t \in Streams \ {s} : ~UnderWay(t)'
        BY <4>1, <1>8 DEF clean, meets
      <4> QED BY <4>1, <4>2, <4>3, <4>4, <2>2, <1>6 DEF Gathering, Part
    <3> QED BY <3>1, <3>2, <2>8, <2>9 DEF FragInv
  <2> QED BY <2>10, <2>11
<1> QED BY <1>10, <1>13, <1>14

-----------------------------------------------------------------------------
LEMMA FragInit == Init => FragInv
<1> SUFFICES ASSUME Init PROVE FragInv
  OBVIOUS
<1>1. /\ rest = [s \in Streams |-> <<>>] /\ log = <<>> /\ disturbed = FALSE
      /\ tmp = <<>> /\ tmp_buffer_len = 0 /\ tmp_null = TRUE /\ dpc = "idle"
  BY DEF Init, DecInit
<1>2. FragTypes
  <2>1. rest \in [Streams -> Seq(Keys \X Nat)] /\ \A s \in Streams : rest[s] = <<>>
    BY <1>1
  <2>2. tmp \in Seq(Byte)
    BY <1>1
  <2>3. log \in Seq([bytes : Seq(Byte), clean : BOOLEAN])
    BY <1>1
  <2> QED BY <1>1, <2>1, <2>2, <2>3 DEF FragTypes
<1>3. Quiet
  BY <1>1 DEF Quiet, UnderWay
<1>4. CleanIsWhole
  BY <1>1 DEF CleanIsWhole
<1> QED BY <1>1, <1>2, <1>3, <1>4 DEF FragInv

LEMMA FragNext == FragInv /\ [Next]_vars => FragInv'
<1> SUFFICES ASSUME FragInv, [Next]_vars PROVE FragInv'
  OBVIOUS
<1>1. CASE \E s \in Streams : BeginBlock(s) \/ \E n \in DOMAIN rest[s] : HandOver(s, n)
  BY <1>1, BeginStep, HandOverStep
<1>2. CASE Continue
  BY <1>2, ContinueStep
<1>3. CASE Reset
  BY <1>3, ResetStep
<1>4. CASE UNCHANGED vars
  <2>1. UNCHANGED <<rest, log, disturbed, tmp, tmp_buffer_len, tmp_null, dpc>>
    BY <1>4 DEF vars, envVars, decVars, dmem
  <2> QED BY <2>1 DEF FragInv, FragTypes, Quiet, Gathering, HasGiven, UnderWay, CleanIsWhole,
                      Part, Bytes
<1> QED BY <1>1, <1>2, <1>3, <1>4 DEF Next

(* The inductive invariant: while nothing has disturbed it, tmp_buffer     *)
(* holds what the one stream under way has handed over of its block.       *)
THEOREM FragInvariance == Spec => []FragInv
<1>1. Init => FragInv
  BY FragInit
<1>2. FragInv /\ [Next]_vars => FragInv'
  BY FragNext
<1> QED BY <1>1, <1>2, PTL DEF Spec

(* CleanIsWhole of Fragments, for every number of streams and all lengths: *)
(* a block that had tmp_buffer to itself enters the dictionary whole,      *)
(* after whatever failures, mixtures and resets.                           *)
THEOREM AlwaysCleanIsWhole == Spec => []CleanIsWhole
<1>1. FragInv => CleanIsWhole
  BY DEF FragInv
<1> QED BY <1>1, FragInvariance, PTL

-----------------------------------------------------------------------------
(* The files: between two calls they are those of the log, and in a call   *)
(* they lack the stores of its last entry that have not been made yet.     *)
Entry == [bytes : Seq(Byte), clean : BOOLEAN]
DFiles == [mem : [0..(DCacheSz - 1) -> Byte \cup {Hole}], pos : Nat]

LastEntry == log[Len(log)]
Before == Files(log)[Len(log) - 1]
Stores == {"rotate", "copy", "advance", "size", "total", "count"}

Settled ==
  /\ mem = Dictionary.mem /\ dpos = Dictionary.pos
  /\ dtotal = Cardinality(SinceReset) /\ dnb = Cardinality(SinceReset)
  /\ log # <<>> => last_block_size = Len(LastEntry.bytes)

Storing ==
  /\ log # <<>> /\ LastEntry # ResetMark /\ LastEntry.bytes = tmp
  /\ mem = IF dpc \in {"rotate", "copy"} THEN Before.mem ELSE Dictionary.mem
  /\ dpos = IF dpc = "rotate" THEN Before.pos
            ELSE IF dpc \in {"copy", "advance"} THEN StartOf(Before, LastEntry)
            ELSE Dictionary.pos
  /\ dpc \in {"total", "count"} => last_block_size = Len(tmp)
  /\ dtotal = IF dpc = "count" THEN Cardinality(SinceReset) ELSE Cardinality(SinceReset) - 1
  /\ dnb = Cardinality(SinceReset) - 1

FilesInv == (dpc = "idle" => Settled) /\ (dpc \in Stores => Storing)

LEMMA StoredType ==
  ASSUME NEW d \in DFiles, NEW e \in Entry
  PROVE  /\ Stored(d, e) \in DFiles /\ StartOf(d, e) \in Nat
         /\ Stored(d, e).pos = StartOf(d, e) + Len(e.bytes)
         /\ \A p \in 0..(DCacheSz - 1) :
              Stored(d, e).mem[p] =
                IF p \in StartOf(d, e)..(StartOf(d, e) + Len(e.bytes) - 1)
                  THEN e.bytes[p - StartOf(d, e) + 1] ELSE d.mem[p]
<1> DEFINE start == StartOf(d, e)
           to == start + Len(e.bytes)
<1>1. d.mem \in [0..(DCacheSz - 1) -> Byte \cup {Hole}] /\ d.pos \in Nat
  BY DEF DFiles
<1>2. e.bytes \in Seq(Byte) /\ Len(e.bytes) \in Nat
      /\ \A i \in 1..Len(e.bytes) : e.bytes[i] \in Byte
  <2>1. e.bytes \in Seq(Byte)
    BY DEF Entry
  <2> QED BY <2>1
<1>3. start \in Nat
  BY <1>1 DEF StartOf
<1>4. Stored(d, e) = [mem |-> [p \in 0..(DCacheSz - 1) |->
                                 IF p \in start..(start + Len(e.bytes) - 1)
                                   THEN e.bytes[p - start + 1] ELSE d.mem[p]],
                      pos |-> to]
  BY <1>1 DEF Stored
<1> HIDE DEF start
<1>5. ASSUME NEW p \in 0..(DCacheSz - 1)
      PROVE  (IF p \in start..(start + Len(e.bytes) - 1) THEN e.bytes[p - start + 1] ELSE d.mem[p])
               \in Byte \cup {Hole}
  <2>1. CASE p \in start..(start + Len(e.bytes) - 1)
    <3>1. p - start + 1 \in 1..Len(e.bytes)
      BY <2>1, <1>2, <1>3
    <3> QED BY <2>1, <3>1, <1>2
  <2>2. CASE p \notin start..(start + Len(e.bytes) - 1)
    BY <2>2, <1>1
  <2> QED BY <2>1, <2>2
<1>6. to \in Nat
  BY <1>2, <1>3
<1> HIDE DEF to
<1> DEFINE m == [p \in 0..(DCacheSz - 1) |->
                   IF p \in start..(start + Len(e.bytes) - 1) THEN e.bytes[p - start + 1] ELSE d.mem[p]]
<1>7. m \in [0..(DCacheSz - 1) -> Byte \cup {Hole}]
  BY <1>5
<1>8. \A p \in 0..(DCacheSz - 1) :
        m[p] = IF p \in start..(start + Len(e.bytes) - 1) THEN e.bytes[p - start + 1] ELSE d.mem[p]
  OBVIOUS
<1>9. Stored(d, e) = [mem |-> m, pos |-> to]
  BY <1>4
<1> HIDE DEF m
<1> QED BY <1>3, <1>6, <1>7, <1>8, <1>9 DEF DFiles, start, to

LEMMA FilesDef ==
  ASSUME NEW list \in Seq(Entry)
  PROVE  /\ Files(list)[0] = [mem |-> DBlank, pos |-> 0]
         /\ \A n \in 0..Len(list) : Files(list)[n] \in DFiles
         /\ \A n \in 1..Len(list) : Files(list)[n] = Stored(Files(list)[n-1], list[n])
<1> DEFINE m == Len(list)
           a == [mem |-> DBlank, pos |-> 0]
           T == [n \in 0..m |-> DFiles]
           step == [p \in (1..m) \X DFiles |-> Stored(p[2], list[p[1]])]
           Body(f) == [n \in 0..m |-> IF n = 0 THEN a ELSE Stored(f[n-1], list[n])]
<1>1. m \in Nat /\ \A n \in 1..m : list[n] \in Entry
  BY LenProperties
<1>2. ASSUME NEW n \in 1..m, NEW x \in DFiles PROVE Stored(x, list[n]) \in DFiles
  BY <1>1, StoredType
<1>3. Carries(T, step, m) /\ a \in T[0]
  <2>1. a \in T[0]
    BY <1>1 DEF DBlank, DFiles
  <2>2. ASSUME NEW n \in 1..m, NEW x \in T[n-1] PROVE step[<<n, x>>] \in T[n]
    <3>1. n - 1 \in 0..m /\ n \in 0..m
      BY <1>1
    <3>2. x \in DFiles /\ T[n] = DFiles
      BY <3>1
    <3>3. step[<<n, x>>] = Stored(x, list[n])
      BY <3>2
    <3> QED BY <3>2, <3>3, <1>2
  <2> QED BY <2>1, <2>2 DEF Carries
<1>4. PICK f : Recurs(f, m, a, step) /\ \A n \in 0..m : f[n] \in T[n]
  <2> HIDE DEF m, T, step, a
  <2> QED BY <1>1, <1>3, Recurrence
<1>5. f = Body(f)
  <2>1. ASSUME NEW n \in 0..m, n # 0 PROVE step[<<n, f[n-1]>>] = Stored(f[n-1], list[n])
    <3>1. n \in 1..m /\ n - 1 \in 0..m
      BY <1>1, <2>1
    <3>2. f[n-1] \in DFiles
      BY <3>1, <1>4
    <3> QED BY <3>1, <3>2
  <2> HIDE DEF step
  <2> QED BY <2>1, <1>4 DEF Recurs
<1> DEFINE h == Files(list)
<1>6. h = Body(h)
  BY <1>5 DEF Files
<1> HIDE DEF h
<1>7. h[0] = a /\ \A n \in 1..m : h[n] = Stored(h[n-1], list[n])
  <2>1. 0 \in 0..m /\ \A n \in 1..m : n \in 0..m /\ n # 0
    BY <1>1
  <2> HIDE DEF a
  <2> QED BY <1>6, <2>1
<1>8. \A n \in 0..m : h[n] \in T[n]
  <2>1. ASSUME NEW n \in 1..m, h[n-1] \in T[n-1] PROVE h[n] = step[<<n, h[n-1]>>]
    <3>1. n - 1 \in 0..m
      BY <1>1
    <3>2. h[n-1] \in DFiles
      BY <3>1, <2>1
    <3> QED BY <3>2, <1>7
  <2>2. h[0] \in T[0]
    BY <1>3, <1>7
  <2> HIDE DEF m, T, step
  <2> QED BY <1>1, <1>3, <2>1, <2>2, RecurrenceType
<1>9. \A n \in 0..m : h[n] \in DFiles
  BY <1>8
<1> QED BY <1>7, <1>9 DEF h

(* An entry more leaves the files after the ones before it as they were.   *)
LEMMA FilesAppend ==
  ASSUME NEW list \in Seq(Entry), NEW e \in Entry
  PROVE  \A n \in 0..Len(list) : Files(Append(list, e))[n] = Files(list)[n]
<1> DEFINE m == Len(list)
           u == Append(list, e)
           f == Files(list)
           g == Files(u)
           U == {n \in 0..m : g[n] = f[n]}
<1>1. m \in Nat /\ u \in Seq(Entry) /\ Len(u) = m + 1 /\ \A i \in 1..m : u[i] = list[i]
  BY LenProperties, AppendProperties
<1> HIDE DEF u
<1>2. /\ f[0] = [mem |-> DBlank, pos |-> 0] /\ g[0] = [mem |-> DBlank, pos |-> 0]
      /\ \A n \in 1..m : f[n] = Stored(f[n-1], list[n])
      /\ \A n \in 1..(m + 1) : g[n] = Stored(g[n-1], u[n])
  BY <1>1, FilesDef
<1> HIDE DEF f, g, m
<1>3. U \in SUBSET (0..m) /\ 0 \in U
  BY <1>1, <1>2
<1>4. ASSUME NEW n \in U, n < m PROVE n + 1 \in U
  <2>1. n + 1 \in 1..m /\ n + 1 \in 1..(m + 1) /\ n + 1 \in 0..m /\ (n + 1) - 1 = n
    BY <1>1, <1>4
  <2>2. f[n + 1] = Stored(f[n], list[n + 1]) /\ g[n + 1] = Stored(g[n], u[n + 1])
    BY <1>2, <2>1
  <2> QED BY <1>1, <2>1, <2>2
<1>5. U = 0..m
  <2> HIDE DEF U
  <2> QED BY <1>1, <1>3, <1>4, UpTo
<1> QED BY <1>5 DEF f, g, m, u

(* The last entry of the log, and the files before and after it.           *)
LEMMA DictionaryLemma ==
  ASSUME log \in Seq(Entry)
  PROVE  /\ Len(log) \in Nat /\ Dictionary \in DFiles
         /\ log = <<>> => Dictionary = [mem |-> DBlank, pos |-> 0]
         /\ log # <<>> => /\ LastEntry \in Entry /\ Before \in DFiles
                          /\ Dictionary = Stored(Before, LastEntry)
<1>1. Len(log) \in Nat /\ Len(log) \in 0..Len(log)
  OBVIOUS
<1>2. Dictionary \in DFiles
  BY <1>1, FilesDef DEF Dictionary
<1>3. log = <<>> => Dictionary = [mem |-> DBlank, pos |-> 0]
  <2> SUFFICES ASSUME log = <<>> PROVE Dictionary = [mem |-> DBlank, pos |-> 0]
    OBVIOUS
  <2>1. Len(log) = 0
    OBVIOUS
  <2> QED BY <2>1, FilesDef DEF Dictionary
<1>4. ASSUME log # <<>>
      PROVE  /\ LastEntry \in Entry /\ Before \in DFiles
             /\ Dictionary = Stored(Before, LastEntry)
  <2>1. Len(log) \in 1..Len(log) /\ Len(log) - 1 \in 0..Len(log)
    BY <1>4, EmptySeq
  <2>2. LastEntry \in Entry
    BY <2>1 DEF LastEntry
  <2> QED BY <2>1, <2>2, FilesDef DEF Dictionary, Before, LastEntry
<1> QED BY <1>1, <1>2, <1>3, <1>4

LEMMA DictionaryNext ==
  ASSUME log \in Seq(Entry), NEW e \in Entry, log' = Append(log, e)
  PROVE  log' # <<>> /\ LastEntry' = e /\ Before' = Dictionary
         /\ Dictionary' = Stored(Dictionary, e)
<1>1. /\ Len(log) \in Nat /\ log' \in Seq(Entry) /\ Len(log') = Len(log) + 1
      /\ log'[Len(log) + 1] = e
  BY AppendProperties, LenProperties
<1>2. log' # <<>> /\ LastEntry' = e
  BY <1>1 DEF LastEntry
<1>3. Files(log')[Len(log)] = Dictionary
  <2>1. Len(log) \in 0..Len(log)
    BY <1>1
  <2> QED BY <2>1, FilesAppend DEF Dictionary
<1>4. Before' = Dictionary
  <2>1. Len(log') - 1 = Len(log)
    BY <1>1
  <2> QED BY <2>1, <1>3 DEF Before
<1>5. Files(log')[Len(log')] = Stored(Files(log')[Len(log') - 1], log'[Len(log')])
  <2>1. Len(log') \in 1..Len(log')
    BY <1>1
  <2> QED BY <2>1, <1>1, FilesDef
<1> QED BY <1>1, <1>2, <1>3, <1>4, <1>5 DEF Dictionary, Before

(* How the number of blocks since the last reset changes with the log.     *)
LEMMA SinceLemma ==
  ASSUME log \in Seq(Entry), NEW e \in Entry, log' = Append(log, e)
  PROVE  /\ Cardinality(SinceReset) \in Nat
         /\ Cardinality(SinceReset)' = IF e = ResetMark THEN 0 ELSE Cardinality(SinceReset) + 1
<1> DEFINE m == Len(log)
           S == SinceReset
<1>1. /\ m \in Nat /\ DOMAIN log = 1..m /\ DOMAIN log' = 1..(m + 1) /\ Len(log') = m + 1
      /\ \A i \in 1..m : log'[i] = log[i]
      /\ log'[m + 1] = e
  <2>1. log' \in Seq(Entry) /\ Len(log') = m + 1
    BY AppendProperties
  <2> QED BY <2>1, AppendProperties, LenProperties
<1>2. S = {i \in 1..m : \A j \in i..m : log[j] # ResetMark}
  BY <1>1 DEF SinceReset
<1>3. SinceReset' = {i \in 1..(m + 1) : \A j \in i..(m + 1) : log'[j] # ResetMark}
  BY <1>1 DEF SinceReset, ResetMark
<1> HIDE DEF m, S
<1>4. IsFiniteSet(S) /\ Cardinality(S) \in Nat
  <2>1. IsFiniteSet(1..m) /\ S \subseteq 1..m
    BY <1>1, <1>2, FS_Interval
  <2> QED BY <2>1, FS_Subset, FS_CardinalityType
<1>5. CASE e = ResetMark
  <2>1. ASSUME NEW i \in 1..(m + 1) PROVE ~\A j \in i..(m + 1) : log'[j] # ResetMark
    <3>1. m + 1 \in i..(m + 1)
      BY <1>1
    <3> QED BY <3>1, <1>1, <1>5
  <2>2. SinceReset' = {}
    BY <2>1, <1>3
  <2> QED BY <2>2, <1>4, <1>5, FS_EmptySet DEF S
<1>6. CASE e # ResetMark
  <2>1. SinceReset' = S \cup {m + 1}
    <3>1. ASSUME NEW i \in 1..m
          PROVE  (\A j \in i..(m + 1) : log'[j] # ResetMark) <=> (\A j \in i..m : log[j] # ResetMark)
      <4>1. i..(m + 1) = (i..m) \cup {m + 1} /\ i..m \subseteq 1..m
        BY <1>1
      <4> QED BY <4>1, <1>1, <1>6
    <3>2. \A j \in (m + 1)..(m + 1) : log'[j] # ResetMark
      <4>1. (m + 1)..(m + 1) = {m + 1}
        BY <1>1
      <4> QED BY <4>1, <1>1, <1>6
    <3>3. 1..(m + 1) = (1..m) \cup {m + 1}
      BY <1>1
    <3> QED BY <3>1, <3>2, <3>3, <1>2, <1>3
  <2>2. m + 1 \notin S
    BY <1>1, <1>2
  <2> QED BY <2>1, <2>2, <1>4, <1>6, FS_AddElement DEF S
<1> QED BY <1>4, <1>5, <1>6 DEF S

(* The files stay as they are when neither they, nor tmp_buffer, nor the   *)
(* log change.                                                             *)
LEMMA FilesStay ==
  ASSUME FilesInv, UNCHANGED <<dfile, log, tmp, dpc>>
  PROVE  FilesInv'
<1>1. /\ Dictionary' = Dictionary /\ Before' = Before /\ LastEntry' = LastEntry
      /\ Cardinality(SinceReset)' = Cardinality(SinceReset)
  BY DEF Dictionary, Before, LastEntry, SinceReset, ResetMark
<1>2. /\ mem' = mem /\ dpos' = dpos /\ last_block_size' = last_block_size
      /\ dtotal' = dtotal /\ dnb' = dnb /\ log' = log /\ tmp' = tmp /\ dpc' = dpc
  BY DEF dfile
<1>3. Settled => Settled'
  BY <1>1, <1>2 DEF Settled
<1>4. Storing => Storing'
  BY <1>1, <1>2 DEF Storing, ResetMark, StartOf
<1> QED BY <1>2, <1>3, <1>4 DEF FilesInv

(* Handing over a fragment stores nothing yet: the log has the entry whose *)
(* stores follow, if they do.                                              *)
LEMMA HandOverFiles ==
  ASSUME FragInv, FragInv', FilesInv, NEW s \in Streams, NEW n \in DOMAIN rest[s], HandOver(s, n)
  PROVE  FilesInv'
<1> DEFINE bytes == SubSeq(rest[s], 1, n)
           last == n = Len(rest[s])
           clean == ~disturbed /\ ~\E t \in Streams \ {s} : UnderWay(t)
           e == [bytes |-> tmp', clean |-> clean]
<1>1. dpc = "idle" /\ UNCHANGED dfile /\ Settled
  BY DEF HandOver, AppendFragment, ReallocFails, CopyToNull, FilesInv
<1>2. \/ /\ dpc' = "rotate" /\ log' = Append(log, e) /\ AppendFragment(bytes, last)
      \/ dpc' = "idle" /\ log' = log
      \/ dpc' = "dead"
  BY DEF HandOver, AppendFragment, ReallocFails, CopyToNull
<1>3. Len(bytes) \in Nat \ {0} /\ bytes \in Seq(Keys \X Nat)
  <2>1. rest[s] \in Seq(Keys \X Nat)
    BY DEF FragInv, FragTypes
  <2>2. n \in 1..Len(rest[s])
    BY <2>1
  <2> QED BY <2>1, <2>2
<1>4. tmp \in Seq(Byte) /\ tmp' \in Seq(Byte) /\ log \in Seq(Entry)
  BY DEF FragInv, FragTypes, Entry
<1> HIDE DEF bytes, last
<1>5. CASE dpc' = "idle" /\ log' = log
  <2>1. /\ Dictionary' = Dictionary /\ LastEntry' = LastEntry
        /\ Cardinality(SinceReset)' = Cardinality(SinceReset)
    BY <1>5 DEF Dictionary, LastEntry, SinceReset, ResetMark
  <2>2. Settled'
    BY <1>1, <1>5, <2>1 DEF Settled, dfile
  <2> QED BY <1>5, <2>2 DEF FilesInv, Stores
<1>6. CASE dpc' = "dead"
  BY <1>6 DEF FilesInv, Stores
<1>7. CASE dpc' = "rotate" /\ log' = Append(log, e) /\ AppendFragment(bytes, last)
  <2>1. tmp' # <<>>
    <3>1. last /\ LongEnough(Len(tmp) + Len(bytes))
      BY <1>7 DEF AppendFragment
    <3>2. Len(Kept) = Len(tmp) /\ Kept \in Seq(Byte)
      <4>1. Junk \in Byte /\ Len(tmp) \in Nat
        BY <1>4 DEF Byte
      <4>2. /\ [i \in 1..Len(tmp) |-> Junk] \in Seq(Byte)
            /\ Len([i \in 1..Len(tmp) |-> Junk]) = Len(tmp)
        BY <4>1
      <4> QED BY <1>4, <4>2 DEF Kept
    <3>3. bytes \in Seq(Byte)
      BY <1>3 DEF Byte
    <3>4. /\ Len(Kept \o bytes) = Len(tmp) + Len(bytes)
          /\ Len(tmp \o bytes) = Len(tmp) + Len(bytes)
      <4>1. tmp \in Seq(Byte)
        BY <1>4
      <4>2. Len(Kept \o bytes) = Len(Kept) + Len(bytes)
        BY <3>2, <3>3, ConcatProperties
      <4>3. Len(tmp \o bytes) = Len(tmp) + Len(bytes)
        BY <3>3, <4>1, ConcatProperties
      <4> QED BY <3>2, <4>2, <4>3
    <3>5. tmp' = Kept \o bytes \/ tmp' = tmp \o bytes
      <4>1. LongEnough(Len(Kept \o bytes)) /\ LongEnough(Len(tmp \o bytes))
        BY <3>1, <3>4
      <4> QED BY <1>7, <4>1 DEF AppendFragment
    <3>6. Len(tmp) + Len(bytes) # 0
      BY <1>3, <1>4
    <3> QED BY <3>4, <3>5, <3>6
  <2>2. e \in Entry /\ e # ResetMark /\ e.bytes = tmp'
    BY <1>4, <2>1 DEF Entry, ResetMark
  <2> HIDE DEF e
  <2>3. log' # <<>> /\ LastEntry' = e /\ Before' = Dictionary
    BY <1>4, <1>7, <2>2, DictionaryNext
  <2>4. /\ Cardinality(SinceReset) \in Nat
        /\ Cardinality(SinceReset)' = Cardinality(SinceReset) + 1
    BY <1>4, <1>7, <2>2, SinceLemma
  <2>5. /\ mem' = Before.mem' /\ dpos' = Before.pos'
        /\ dtotal' = Cardinality(SinceReset)' - 1 /\ dnb' = Cardinality(SinceReset)' - 1
    BY <1>1, <2>3, <2>4 DEF Settled, dfile
  <2>6. Storing'
    BY <1>7, <2>2, <2>3, <2>5 DEF Storing, ResetMark
  <2> QED BY <1>7, <2>6 DEF FilesInv
<1> QED BY <1>2, <1>5, <1>6, <1>7

(* Each of the stores makes up for one thing the files lack.               *)
LEMMA ContinueFiles ==
  ASSUME FragInv, FilesInv, Continue
  PROVE  FilesInv'
<1>1. log \in Seq(Entry) /\ log' = log /\ dpc \in Stores /\ Storing
  BY DEF FragInv, FragTypes, Entry, Continue, envVars, DecStep, DecRotate, DecCopy, DecAdvance,
         DecSetSize, DecCountTotal, DecCountBlock, Stores, FilesInv
<1>2. /\ Dictionary' = Dictionary /\ Before' = Before /\ LastEntry' = LastEntry
      /\ StartOf(Before, LastEntry)' = StartOf(Before, LastEntry)
      /\ Cardinality(SinceReset)' = Cardinality(SinceReset)
  BY <1>1 DEF Dictionary, Before, LastEntry, SinceReset, ResetMark, StartOf
<1>3. log # <<>> /\ LastEntry # ResetMark /\ LastEntry.bytes = tmp
  BY <1>1 DEF Storing
<1> DEFINE start == StartOf(Before, LastEntry)
<1>4. /\ Before \in DFiles /\ LastEntry \in Entry /\ Dictionary \in DFiles
      /\ Dictionary = Stored(Before, LastEntry)
  BY <1>1, <1>3, DictionaryLemma
<1>5. /\ start \in Nat /\ Dictionary.pos = start + Len(tmp)
      /\ \A p \in 0..(DCacheSz - 1) :
           Dictionary.mem[p] = IF p \in start..(start + Len(tmp) - 1)
                                 THEN tmp[p - start + 1] ELSE Before.mem[p]
  BY <1>3, <1>4, StoredType
<1>6. /\ Before.mem \in [0..(DCacheSz - 1) -> Byte \cup {Hole}]
      /\ Dictionary.mem \in [0..(DCacheSz - 1) -> Byte \cup {Hole}]
  BY <1>4 DEF DFiles
<1>7. Cardinality(SinceReset) \in Nat
  <2>1. Len(log) \in Nat /\ DOMAIN log = 1..Len(log)
    BY <1>1, LenProperties
  <2>2. SinceReset \subseteq 1..Len(log) /\ IsFiniteSet(1..Len(log))
    BY <2>1, FS_Interval DEF SinceReset
  <2> QED BY <2>2, FS_Subset, FS_CardinalityType
<1>8. CASE DecRotate
  <2>1. dpos' = start
    <3>1. dpos = Before.pos
      BY <1>1, <1>8 DEF Storing, DecRotate
    <3> QED BY <1>3, <1>8, <3>1 DEF DecRotate, StartOf
  <2>2. /\ dpc = "rotate" /\ dpc' = "copy" /\ tmp' = tmp
        /\ UNCHANGED <<mem, last_block_size, dtotal, dnb>>
    BY <1>8 DEF DecRotate, dmem
  <2>3. Storing'
    BY <1>1, <1>2, <1>3, <2>1, <2>2 DEF Storing, ResetMark
  <2> QED BY <2>2, <2>3 DEF FilesInv
<1>9. CASE DecCopy
  <2>1. /\ dpc = "copy" /\ dpc' = "advance" /\ tmp' = tmp /\ mem' = Written(Target)
        /\ UNCHANGED <<dpos, last_block_size, dtotal, dnb>>
    BY <1>9 DEF DecCopy, dmem
  <2>2. mem = Before.mem /\ dpos = start
    BY <1>1, <2>1 DEF Storing
  <2>3. mem' = Dictionary.mem
    <3> DEFINE m == [p \in 0..(DCacheSz - 1) |->
                       IF p \in start..(start + Len(tmp) - 1)
                         THEN tmp[p - start + 1] ELSE Before.mem[p]]
    <3>1. mem' = m
      <4>1. DOMAIN mem = 0..(DCacheSz - 1)
        BY <1>6, <2>2
      <4> HIDE DEF start
      <4> QED BY <2>1, <2>2, <4>1 DEF Written, Target
    <3>2. Dictionary.mem = [p \in 0..(DCacheSz - 1) |-> Dictionary.mem[p]]
      BY <1>6
    <3> HIDE DEF start
    <3>3. m = [p \in 0..(DCacheSz - 1) |-> Dictionary.mem[p]]
      BY <1>5
    <3> QED BY <3>1, <3>2, <3>3
  <2>4. Storing'
    BY <1>1, <1>2, <1>3, <2>1, <2>2, <2>3 DEF Storing, ResetMark
  <2> QED BY <2>1, <2>4 DEF FilesInv
<1>10. CASE DecAdvance
  <2>1. /\ dpc = "advance" /\ dpc' = "size" /\ tmp' = tmp /\ dpos' = dpos + Len(tmp)
        /\ UNCHANGED <<mem, last_block_size, dtotal, dnb>>
    BY <1>10 DEF DecAdvance, dmem
  <2>2. dpos' = Dictionary.pos
    BY <1>1, <1>5, <2>1 DEF Storing
  <2>3. Storing'
    BY <1>1, <1>2, <1>3, <2>1, <2>2 DEF Storing, ResetMark
  <2> QED BY <2>1, <2>3 DEF FilesInv
<1>11. CASE DecSetSize
  <2>1. /\ dpc = "size" /\ dpc' = "total" /\ tmp' = tmp /\ last_block_size' = Len(tmp)
        /\ UNCHANGED <<mem, dpos, dtotal, dnb>>
    BY <1>11 DEF DecSetSize, dmem
  <2>2. Storing'
    BY <1>1, <1>2, <1>3, <2>1 DEF Storing, ResetMark
  <2> QED BY <2>1, <2>2 DEF FilesInv
<1>12. CASE DecCountTotal
  <2>1. /\ dpc = "total" /\ dpc' = "count" /\ tmp' = tmp /\ dtotal' = dtotal + 1
        /\ UNCHANGED <<mem, dpos, last_block_size, dnb>>
    BY <1>12 DEF DecCountTotal, dmem
  <2>2. dtotal' = Cardinality(SinceReset)
    BY <1>1, <1>7, <2>1 DEF Storing
  <2>3. Storing'
    BY <1>1, <1>2, <1>3, <2>1, <2>2 DEF Storing, ResetMark
  <2> QED BY <2>1, <2>3 DEF FilesInv
<1>13. CASE DecCountBlock
  <2>1. /\ dpc = "count" /\ dpc' = "idle" /\ dnb' = dnb + 1
        /\ UNCHANGED <<mem, dpos, last_block_size, dtotal>>
    BY <1>13 DEF DecCountBlock
  <2>2. dnb' = Cardinality(SinceReset)
    BY <1>1, <1>7, <2>1 DEF Storing
  <2>3. Settled'
    BY <1>1, <1>2, <1>3, <2>1, <2>2 DEF Storing, Settled
  <2> QED BY <2>1, <2>3 DEF FilesInv, Stores
<1> QED BY <1>8, <1>9, <1>10, <1>11, <1>12, <1>13 DEF Continue, DecStep

(* A reset takes the header back; the data stays.                          *)
LEMMA ResetFiles ==
  ASSUME FragInv, FilesInv, Reset
  PROVE  FilesInv'
<1>1. /\ log \in Seq(Entry) /\ dpc = "idle" /\ dpc' = "idle" /\ Settled /\ mem' = mem
      /\ dpos' = 0 /\ last_block_size' = 0 /\ dtotal' = 0 /\ dnb' = 0
      /\ log' = Append(log, ResetMark)
  BY DEF FragInv, FragTypes, Entry, FilesInv, Reset, DecReset
<1>2. ResetMark \in Entry /\ Len(ResetMark.bytes) = 0
  <2>1. <<>> \in Seq(Byte)
    OBVIOUS
  <2> QED BY <2>1 DEF Entry, ResetMark
<1>3. log' # <<>> /\ LastEntry' = ResetMark /\ Dictionary' = Stored(Dictionary, ResetMark)
  BY <1>1, <1>2, DictionaryNext
<1>4. Cardinality(SinceReset)' = 0
  BY <1>1, <1>2, SinceLemma
<1>5. Dictionary \in DFiles
  BY <1>1, DictionaryLemma
<1>6. StartOf(Dictionary, ResetMark) = 0
  BY DEF StartOf
<1>7. Stored(Dictionary, ResetMark).pos = 0
  BY <1>2, <1>5, <1>6, StoredType
<1>8. Stored(Dictionary, ResetMark).mem = Dictionary.mem
  <2> DEFINE m == Stored(Dictionary, ResetMark).mem
  <2>1. /\ m \in [0..(DCacheSz - 1) -> Byte \cup {Hole}]
        /\ Dictionary.mem \in [0..(DCacheSz - 1) -> Byte \cup {Hole}]
    <3>1. Stored(Dictionary, ResetMark) \in DFiles
      BY <1>2, <1>5, StoredType
    <3> QED BY <3>1, <1>5 DEF DFiles
  <2>2. ASSUME NEW p \in 0..(DCacheSz - 1) PROVE m[p] = Dictionary.mem[p]
    <3>1. m[p] = IF p \in 0..(0 + 0 - 1) THEN ResetMark.bytes[p - 0 + 1] ELSE Dictionary.mem[p]
      BY <1>2, <1>5, <1>6, StoredType
    <3>2. p \notin 0..(0 + 0 - 1)
      OBVIOUS
    <3> QED BY <3>1, <3>2
  <2> HIDE DEF m
  <2> DEFINE b == Dictionary.mem
             S == 0..(DCacheSz - 1)
  <2>3. \A p \in S : m[p] = b[p]
    BY <2>2
  <2>4. m = [p \in S |-> m[p]] /\ b = [p \in S |-> b[p]]
    BY <2>1
  <2> HIDE DEF b, S
  <2>5. m = b
    BY <2>3, <2>4
  <2>6. m = Dictionary.mem
    BY <2>5 DEF b
  <2> QED BY <2>6 DEF m
<1>9. LastEntry' = ResetMark' /\ Len(LastEntry.bytes)' = 0
  BY <1>2, <1>3 DEF ResetMark
<1>10. Settled'
  BY <1>1, <1>3, <1>4, <1>7, <1>8, <1>9 DEF Settled
<1> QED BY <1>1, <1>10 DEF FilesInv, Stores

LEMMA FilesInit == Init => FilesInv
<1> SUFFICES ASSUME Init PROVE FilesInv
  OBVIOUS
<1>1. /\ mem = DBlank /\ dpos = 0 /\ dtotal = 0 /\ dnb = 0 /\ log = <<>> /\ dpc = "idle"
  BY DEF Init, DecInit
<1>2. log \in Seq(Entry)
  BY <1>1
<1>3. Dictionary = [mem |-> DBlank, pos |-> 0]
  BY <1>1, <1>2, DictionaryLemma
<1>4. Cardinality(SinceReset) = 0
  <2>1. SinceReset = {}
    BY <1>1 DEF SinceReset
  <2> QED BY <2>1, FS_EmptySet
<1>5. Settled
  BY <1>1, <1>3, <1>4 DEF Settled
<1> QED BY <1>1, <1>5 DEF FilesInv, Stores

LEMMA FilesNext == FragInv /\ FilesInv /\ [Next]_vars => FilesInv'
<1> SUFFICES ASSUME FragInv, FilesInv, [Next]_vars PROVE FilesInv'
  OBVIOUS
<1>1. FragInv'
  BY FragNext
<1>2. ASSUME NEW s \in Streams, BeginBlock(s) PROVE FilesInv'
  <2>1. UNCHANGED <<dfile, log, tmp, dpc>>
    BY <1>2 DEF BeginBlock, decVars, dmem
  <2> QED BY <2>1, FilesStay
<1>3. ASSUME NEW s \in Streams, NEW n \in DOMAIN rest[s], HandOver(s, n) PROVE FilesInv'
  BY <1>1, <1>3, HandOverFiles
<1>4. CASE Continue
  BY <1>4, ContinueFiles
<1>5. CASE Reset
  BY <1>5, ResetFiles
<1>6. CASE UNCHANGED vars
  <2>1. UNCHANGED <<dfile, log, tmp, dpc>>
    BY <1>6 DEF vars, envVars, decVars, dmem
  <2> QED BY <2>1, FilesStay
<1> QED BY <1>2, <1>3, <1>4, <1>5, <1>6 DEF Next

(* The inductive invariant of the files: they are those of the log but for *)
(* the stores of its last entry that are still to be made.                 *)
THEOREM FilesInvariance == Spec => []FilesInv
<1>1. Init => FilesInv
  BY FilesInit
<1>2. FragInv /\ FilesInv /\ [Next]_vars => FilesInv'
  BY FilesNext
<1> QED BY <1>1, <1>2, FragInvariance, PTL DEF Spec

(* The last entry of the log fits the data area.  The code does not see to *)
(* it: a longer one is written past the mapping (write_block_to_cache).    *)
LastFits == log # <<>> => Len(log[Len(log)].bytes) <= DCacheSz

LEMMA SettledIsLog ==
  ASSUME FragInv, FilesInv, LastFits
  PROVE  FilesAreLog
<1> SUFFICES ASSUME dpc = "idle"
             PROVE  /\ mem = Dictionary.mem /\ dpos = Dictionary.pos
                    /\ dtotal = Cardinality(SinceReset)
                    /\ log # <<>> => LastBlockCrc = LastEntry.bytes
  BY DEF FilesAreLog, LastEntry
<1>1. Settled /\ log \in Seq(Entry)
  BY DEF FilesInv, FragInv, FragTypes, Entry
<1>2. ASSUME log # <<>> PROVE LastBlockCrc = LastEntry.bytes
  <2> DEFINE start == StartOf(Before, LastEntry)
             bytes == LastEntry.bytes
             len == Len(bytes)
  <2>1. /\ Before \in DFiles /\ LastEntry \in Entry
        /\ Dictionary = Stored(Before, LastEntry)
    BY <1>1, <1>2, DictionaryLemma
  <2>2. bytes \in Seq(Byte) /\ len \in Nat /\ bytes = [i \in 1..len |-> bytes[i]]
    <3>1. bytes \in Seq(Byte)
      BY <2>1 DEF Entry
    <3> HIDE DEF bytes
    <3> QED BY <3>1
  <2>3. /\ start \in Nat /\ dpos = start + len /\ last_block_size = len
        /\ mem \in [0..(DCacheSz - 1) -> Byte \cup {Hole}]
        /\ \A p \in 0..(DCacheSz - 1) :
             p \in start..(start + len - 1) => mem[p] = bytes[p - start + 1]
    <3>1. /\ start \in Nat /\ Dictionary.pos = start + len /\ Dictionary \in DFiles
          /\ \A p \in 0..(DCacheSz - 1) :
               Dictionary.mem[p] = IF p \in start..(start + len - 1)
                                     THEN bytes[p - start + 1] ELSE Before.mem[p]
      BY <2>1, StoredType
    <3>2. mem = Dictionary.mem /\ dpos = Dictionary.pos /\ last_block_size = len
      BY <1>1, <1>2 DEF Settled
    <3>3. mem \in [0..(DCacheSz - 1) -> Byte \cup {Hole}]
      BY <3>1, <3>2 DEF DFiles
    <3> HIDE DEF start, bytes
    <3> QED BY <3>1, <3>2, <3>3
  <2>4. len <= DCacheSz
    BY <1>2 DEF LastFits, LastEntry
  <2>5. start = 0 \/ start + len <= DCacheSz
    <3>1. Before.pos \in Nat
      BY <2>1 DEF DFiles
    <3> HIDE DEF len
    <3> QED BY <3>1, <2>2, DecoderAssumption DEF StartOf, len
  <2> HIDE DEF start, bytes, len
  <2>6. start + len <= DCacheSz /\ dpos - last_block_size = start
    BY <2>2, <2>3, <2>4, <2>5, DecoderAssumption
  <2>7. ASSUME NEW i \in 1..len
        PROVE  start + i - 1 \in DOMAIN mem /\ mem[start + i - 1] = bytes[i]
    <3> DEFINE p == start + i - 1
    <3>1. /\ p \in 0..(DCacheSz - 1) /\ p \in start..(start + len - 1)
          /\ p - start + 1 = i
      BY <2>2, <2>3, <2>6, DecoderAssumption
    <3> HIDE DEF p
    <3>2. p \in DOMAIN mem /\ mem[p] = bytes[i]
      BY <3>1, <2>3
    <3> QED BY <3>2 DEF p
  <2>8. LastBlockCrc = [i \in 1..len |-> IF start + i - 1 \in DOMAIN mem
                                           THEN mem[start + i - 1] ELSE Hole]
    BY <2>3, <2>6 DEF LastBlockCrc, ReadMem
  <2>9. [i \in 1..len |-> IF start + i - 1 \in DOMAIN mem THEN mem[start + i - 1] ELSE Hole]
          = [i \in 1..len |-> bytes[i]]
    BY <2>7
  <2>10. LastBlockCrc = bytes
    BY <2>2, <2>8, <2>9
  <2> QED BY <2>10 DEF bytes
<1> QED BY <1>1, <1>2 DEF Settled

(* FilesAreLog of Fragments, for all streams, lengths, fragments, failures *)
(* and resets: between calls the mapped files (write_block_to_cache and    *)
(* the header) are the ones a compressor computes from whole blocks, where *)
(* the last block given to them is not longer than the data area.          *)
THEOREM AlwaysFilesAreLog == Spec => [](LastFits => FilesAreLog)
<1>1. FragInv /\ FilesInv => (LastFits => FilesAreLog)
  BY SettledIsLog
<1> QED BY <1>1, FragInvariance, FilesInvariance, PTL
=============================================================================
