----------------------------- MODULE RabinProofs -----------------------------
(* Proofs about Rabin, for every modulus, window, minimum and maximum, and *)
(* for every stream however it is split into buffers.                      *)
EXTENDS Rabin, Induction, SequenceTheorems

(* The lookup table has the window.                                        *)
InTable == WinSz >= MinWinSz

(* The fingerprint of the window that ends with byte p of a stream s.      *)
FpAt(s, p) == Fingerprint(Window(s, p))

(* What was before byte 1 of a stream counts as 0.                         *)
Past(s, p) == IF p >= 1 THEN s[p] ELSE 0

Boundary(len, fp) ==
  /\ len >= MinBlkSz
  /\ fp % AvgMod = 0 \/ (MaxBlkSz > 0 /\ len >= MaxBlkSz)

(* b is the block of the bytes after `from' up to `to'.                    *)
BlockAt(s, b, from, to) ==
  /\ from < to
  /\ b.len = to - from
  /\ b.data = SubSeq(s, from + 1, to)
  /\ b.crc = b.data
  /\ InTable => b.fp = FpAt(s, to)

(* Where the last block of a list ends.                                    *)
LastEnd(list) == EndOf(list)[Len(list)]

(* A list of blocks covers the first q bytes of s up to its last end: each *)
(* end is a boundary or a flush, and nothing in between is either.         *)
Covers(s, q, list) ==
  /\ LastEnd(list) <= q
  /\ \A n \in 1..Len(list) : BlockAt(s, list[n], EndOf(list)[n-1], EndOf(list)[n])
IsEnd(s, from, to, flushes) ==
  to \in flushes \/ Boundary(to - from, FpAt(s, to))
Cut(s, q, list, flushes) ==
  InTable =>
    /\ \A n \in 1..Len(list) : IsEnd(s, EndOf(list)[n-1], EndOf(list)[n], flushes)
    /\ \A n \in 0..Len(list), p \in 1..q :
         EndOf(list)[n] < p /\ (n < Len(list) => p < EndOf(list)[n+1])
           => ~IsEnd(s, EndOf(list)[n], p, flushes)

(* The inductive invariant.                                                *)
ContextType ==
  [idx : Nat, fp : 0..(FpMod - 1), crc : Seq(Bytes), blk_len : Nat,
   tmp_blk : Seq(Bytes), tmp_win : Seq(Nat)]
StreamType ==
  /\ ctx \in ContextType /\ Len(ctx.tmp_win) = WinSz
  /\ blocks \in Seq(Block)
  /\ stream \in Seq(Bytes)
  /\ flushed \in SUBSET (1..Len(stream))
ContextInv ==
  /\ ctx.idx = Len(stream)
  /\ InTable => ctx.fp = FpAt(stream, Len(stream))
  /\ ctx.tmp_blk = SubSeq(stream, LastEnd(blocks) + 1, Len(stream))
  /\ ctx.crc = ctx.tmp_blk /\ ctx.blk_len = Len(ctx.tmp_blk)
  /\ \A i \in 1..WinSz : ctx.tmp_win[i] = Past(stream, Len(stream) - WinSz + i)
RabinInv ==
  /\ StreamType
  /\ ContextInv
  /\ Covers(stream, Len(stream), blocks)
  /\ Cut(stream, Len(stream), blocks, flushed)

-----------------------------------------------------------------------------
(* Sequences, element by element.                                          *)
LEMMA SubSeqPrefix ==
  ASSUME NEW B, NEW s \in Seq(B), NEW t \in Seq(B), NEW a \in Nat \ {0}, NEW b \in Int, b <= Len(s)
  PROVE  SubSeq(s \o t, a, b) = SubSeq(s, a, b)
<1>1. CASE b < a
  BY <1>1, SubSeqEmpty
<1>2. CASE a <= b
  <2>1. a \in 1..Len(s) /\ b \in 1..Len(s)
    BY <1>2, LenProperties
  <2> QED BY <2>1, SubSeqOfConcat1
<1> QED BY <1>1, <1>2

LEMMA SubSeqType ==
  ASSUME NEW B, NEW s \in Seq(B), NEW a \in Nat \ {0}, NEW b \in Int, b <= Len(s)
  PROVE  /\ SubSeq(s, a, b) \in Seq(B)
         /\ Len(SubSeq(s, a, b)) = IF a <= b THEN b - a + 1 ELSE 0
         /\ \A i \in 1..(b - a + 1) : SubSeq(s, a, b)[i] = s[a + i - 1]
<1>1. \A i \in a..b : s[i] \in B
  BY LenProperties
<1> QED BY <1>1, SubSeqProperties

LEMMA SubSeqNext ==
  ASSUME NEW B, NEW s \in Seq(B), NEW a \in Nat \ {0}, NEW b \in Nat, a <= b + 1, b < Len(s)
  PROVE  SubSeq(s, a, b + 1) = Append(SubSeq(s, a, b), s[b + 1])
<1>1. Len(s) \in Nat /\ s \in [1..Len(s) -> B]
  BY LenProperties
<1>2. /\ SubSeq(s, a, b) \in Seq(B) /\ SubSeq(s, a, b + 1) \in Seq(B)
      /\ Len(SubSeq(s, a, b)) = b - a + 1 /\ Len(SubSeq(s, a, b + 1)) = b - a + 2
      /\ \A i \in 1..(b - a + 1) : SubSeq(s, a, b)[i] = s[a + i - 1]
      /\ \A i \in 1..(b - a + 2) : SubSeq(s, a, b + 1)[i] = s[a + i - 1]
  <2>1. b + 1 <= Len(s) /\ b + 1 \in Int /\ (b + 1) - a + 1 = b - a + 2
    BY <1>1
  <2> QED BY <2>1, <1>1, SubSeqType
<1> DEFINE u == Append(SubSeq(s, a, b), s[b + 1])
<1>3. s[b + 1] \in B
  BY <1>1
<1>4. /\ u \in Seq(B) /\ Len(u) = b - a + 2
      /\ \A i \in 1..(b - a + 1) : u[i] = s[a + i - 1]
      /\ u[b - a + 2] = s[b + 1]
  BY <1>2, <1>3, AppendProperties
<1> HIDE DEF u
<1>5. \A i \in 1..(b - a + 2) : SubSeq(s, a, b + 1)[i] = u[i]
  BY <1>2, <1>4
<1>6. SubSeq(s, a, b + 1) = u
  BY <1>2, <1>4, <1>5, SeqEqual
<1> QED BY <1>6 DEF u

LEMMA ConcatAppend ==
  ASSUME NEW B, NEW s \in Seq(B), NEW t \in Seq(B), NEW e \in B
  PROVE  s \o Append(t, e) = Append(s \o t, e)
<1>1. <<e>> \in Seq(B)
  OBVIOUS
<1>2. s \o t \in Seq(B)
  BY ConcatProperties
<1>3. Append(t, e) = t \o <<e>> /\ Append(s \o t, e) = (s \o t) \o <<e>>
  BY <1>2, AppendIsConcat
<1> QED BY <1>1, <1>3, ConcatAssociative

-----------------------------------------------------------------------------
(* The recursive functions.                                                *)
LEMMA PowDef ==
  /\ Pow \in [Nat -> Nat] /\ Pow[0] = 1
  /\ \A n \in Nat : Pow[n + 1] = (RAB_P * Pow[n]) % FpMod
<1> DEFINE Body(f) == [n \in Nat |-> IF n = 0 THEN 1 ELSE RAB_P * f[n-1] % FpMod]
           step == [p \in Nat \X Nat |-> RAB_P * p[2] % FpMod]
<1>1. step \in [Nat \X Nat -> Nat]
  BY RabinAssumption DEF RAB_P
<1>2. PICK f : Obeys(f, Nat, 1, step)
  <2> HIDE DEF step
  <2> QED BY <1>1, Recursion
<1>3. f \in [Nat -> Nat] /\ f[0] = 1
  BY <1>2 DEF Obeys
<1>4. \A n \in Nat : n # 0 => f[n] = RAB_P * f[n-1] % FpMod
  <2> SUFFICES ASSUME NEW n \in Nat, n # 0 PROVE f[n] = RAB_P * f[n-1] % FpMod
    OBVIOUS
  <2>1. n - 1 \in Nat /\ (n - 1) + 1 = n
    OBVIOUS
  <2>2. f[(n - 1) + 1] = step[<<n - 1, f[n-1]>>]
    BY <2>1, <1>2 DEF Obeys
  <2>3. step[<<n - 1, f[n-1]>>] = RAB_P * f[n-1] % FpMod
    BY <2>1, <1>3
  <2> QED BY <2>1, <2>2, <2>3
<1>5. f = Body(f)
  BY <1>3, <1>4
<1> DEFINE h == Pow
<1>6. h = Body(h)
  BY <1>5 DEF Pow
<1> HIDE DEF h
<1>7. h[0] = 1 /\ \A n \in Nat : n # 0 => h[n] = RAB_P * h[n-1] % FpMod
  BY <1>6
<1>8. \A n \in Nat : h[n + 1] = RAB_P * h[n] % FpMod
  <2> SUFFICES ASSUME NEW n \in Nat PROVE h[n + 1] = RAB_P * h[n] % FpMod
    OBVIOUS
  <2>1. n + 1 \in Nat /\ n + 1 # 0 /\ (n + 1) - 1 = n
    OBVIOUS
  <2> QED BY <2>1, <1>7
<1>9. h \in [Nat -> Nat]
  <2> DEFINE T == {n \in Nat : h[n] \in Nat}
  <2>1. T \in SUBSET Nat /\ 0 \in T
    BY <1>7
  <2>2. ASSUME NEW n \in T PROVE n + 1 \in T
    BY <1>8, RabinAssumption DEF RAB_P
  <2>3. T = Nat
    <3> HIDE DEF T
    <3> QED BY <2>1, <2>2, SetInduction
  <2>4. h = [n \in Nat |-> h[n]]
    BY <1>6
  <2> QED BY <2>3, <2>4
<1> QED BY <1>7, <1>8, <1>9 DEF h

LEMMA ModType ==
  ASSUME NEW x \in Int
  PROVE  x % FpMod \in 0..(FpMod - 1)
BY RabinAssumption

LEMMA FpsDef ==
  ASSUME NEW s \in Seq(Nat)
  PROVE  /\ Fps(s)[0] = 0
         /\ \A n \in 0..Len(s) : Fps(s)[n] \in 0..(FpMod - 1)
         /\ \A n \in 1..Len(s) : Fps(s)[n] = (Fps(s)[n-1] * RAB_P + s[n]) % FpMod
<1> DEFINE m == Len(s)
           S == 0..(FpMod - 1)
           T == [n \in 0..m |-> S]
           step == [p \in (1..m) \X S |-> (p[2] * RAB_P + s[p[1]]) % FpMod]
           Body(f) == [n \in 0..m |-> IF n = 0 THEN 0 ELSE (f[n-1] * RAB_P + s[n]) % FpMod]
<1>1. m \in Nat /\ s \in [1..m -> Nat]
  BY LenProperties
<1>2. ASSUME NEW n \in 1..m, NEW x \in S PROVE (x * RAB_P + s[n]) % FpMod \in S
  <2>1. x \in Nat /\ s[n] \in Nat
    BY <1>1
  <2>2. x * RAB_P + s[n] \in Nat
    BY <2>1 DEF RAB_P
  <2> QED BY <2>2, ModType
<1>3. Carries(T, step, m) /\ 0 \in T[0]
  <2>1. 0 \in T[0]
    BY <1>1, RabinAssumption
  <2>2. ASSUME NEW n \in 1..m, NEW x \in T[n-1] PROVE step[<<n, x>>] \in T[n]
    <3>1. n - 1 \in 0..m /\ n \in 0..m
      BY <1>1
    <3>2. x \in S /\ T[n] = S
      BY <3>1
    <3>3. step[<<n, x>>] = (x * RAB_P + s[n]) % FpMod
      BY <3>2
    <3> QED BY <3>2, <3>3, <1>2
  <2> QED BY <2>1, <2>2 DEF Carries
<1>4. PICK f : Recurs(f, m, 0, step) /\ \A n \in 0..m : f[n] \in T[n]
  <2> HIDE DEF m, T, step
  <2> QED BY <1>1, <1>3, Recurrence
<1>5. f = Body(f)
  <2>1. ASSUME NEW n \in 0..m, n # 0 PROVE step[<<n, f[n-1]>>] = (f[n-1] * RAB_P + s[n]) % FpMod
    <3>1. n \in 1..m /\ n - 1 \in 0..m
      BY <1>1, <2>1
    <3>2. f[n-1] \in S
      BY <3>1, <1>4
    <3> QED BY <3>1, <3>2
  <2> HIDE DEF step
  <2> QED BY <2>1, <1>4 DEF Recurs
<1> DEFINE h == Fps(s)
<1>6. h = Body(h)
  BY <1>5 DEF Fps
<1> HIDE DEF h
<1>7. h[0] = 0 /\ \A n \in 1..m : h[n] = (h[n-1] * RAB_P + s[n]) % FpMod
  BY <1>1, <1>6
<1>8. \A n \in 0..m : h[n] \in T[n]
  <2>1. \A n \in 1..m : h[n-1] \in T[n-1] => h[n] = step[<<n, h[n-1]>>]
    <3> SUFFICES ASSUME NEW n \in 1..m, h[n-1] \in T[n-1] PROVE h[n] = step[<<n, h[n-1]>>]
      OBVIOUS
    <3>1. n - 1 \in 0..m
      BY <1>1
    <3>2. h[n-1] \in S
      BY <3>1
    <3> QED BY <3>2, <1>7
  <2>2. h[0] \in T[0]
    BY <1>3, <1>7
  <2> HIDE DEF m, T, step
  <2> QED BY <1>1, <1>3, <2>1, <2>2, RecurrenceType
<1> QED BY <1>7, <1>8 DEF h

LEMMA EndDef ==
  ASSUME NEW list \in Seq(Block)
  PROVE  /\ EndOf(list)[0] = 0
         /\ \A n \in 0..Len(list) : EndOf(list)[n] \in Nat
         /\ \A n \in 1..Len(list) : EndOf(list)[n] = EndOf(list)[n-1] + list[n].len
<1> DEFINE m == Len(list)
           T == [n \in 0..m |-> Nat]
           step == [p \in (1..m) \X Nat |-> p[2] + list[p[1]].len]
           Body(f) == [n \in 0..m |-> IF n = 0 THEN 0 ELSE f[n-1] + list[n].len]
<1>1. m \in Nat /\ \A n \in 1..m : list[n].len \in Nat
  <2>1. m \in Nat /\ \A n \in 1..m : list[n] \in Block
    BY LenProperties, ElementOfSeq
  <2> QED BY <2>1 DEF Block
<1>3. Carries(T, step, m) /\ 0 \in T[0]
  <2>1. 0 \in T[0]
    BY <1>1
  <2>2. ASSUME NEW n \in 1..m, NEW x \in T[n-1] PROVE step[<<n, x>>] \in T[n]
    <3>1. n - 1 \in 0..m /\ n \in 0..m
      BY <1>1
    <3>2. x \in Nat /\ T[n] = Nat
      BY <3>1
    <3> QED BY <3>2, <1>1
  <2> QED BY <2>1, <2>2 DEF Carries
<1>4. PICK f : Recurs(f, m, 0, step) /\ \A n \in 0..m : f[n] \in T[n]
  <2> HIDE DEF m, T, step
  <2> QED BY <1>1, <1>3, Recurrence
<1>5. f = Body(f)
  <2>1. ASSUME NEW n \in 0..m, n # 0 PROVE step[<<n, f[n-1]>>] = f[n-1] + list[n].len
    <3>1. n \in 1..m /\ n - 1 \in 0..m
      BY <1>1, <2>1
    <3>2. f[n-1] \in Nat
      BY <3>1, <1>4
    <3> QED BY <3>1, <3>2
  <2> HIDE DEF step
  <2> QED BY <2>1, <1>4 DEF Recurs
<1> DEFINE h == EndOf(list)
<1>6. h = Body(h)
  BY <1>5 DEF EndOf
<1> HIDE DEF h
<1>7. h[0] = 0 /\ \A n \in 1..m : h[n] = h[n-1] + list[n].len
  BY <1>1, <1>6
<1>8. \A n \in 0..m : h[n] \in T[n]
  <2>1. \A n \in 1..m : h[n-1] \in T[n-1] => h[n] = step[<<n, h[n-1]>>]
    <3> SUFFICES ASSUME NEW n \in 1..m, h[n-1] \in T[n-1] PROVE h[n] = step[<<n, h[n-1]>>]
      OBVIOUS
    <3>1. h[n-1] \in Nat
      BY <1>1
    <3> QED BY <3>1, <1>7
  <2>2. h[0] \in T[0]
    BY <1>3, <1>7
  <2> HIDE DEF m, T, step
  <2> QED BY <1>1, <1>3, <2>1, <2>2, RecurrenceType
<1> QED BY <1>7, <1>8 DEF h

LEMMA JoinedDef ==
  ASSUME NEW list \in Seq(Block)
  PROVE  /\ Joined(list)[0] = <<>>
         /\ \A n \in 1..Len(list) : Joined(list)[n] = Joined(list)[n-1] \o list[n].data
<1> DEFINE m == Len(list)
           S == Seq(Bytes)
           T == [n \in 0..m |-> S]
           step == [p \in (1..m) \X S |-> p[2] \o list[p[1]].data]
           Body(f) == [n \in 0..m |-> IF n = 0 THEN <<>> ELSE f[n-1] \o list[n].data]
<1>1. m \in Nat /\ \A n \in 1..m : list[n].data \in S
  <2>1. m \in Nat /\ \A n \in 1..m : list[n] \in Block
    BY LenProperties, ElementOfSeq
  <2> QED BY <2>1 DEF Block
<1>2. <<>> \in S /\ \A x, y \in S : x \o y \in S
  BY EmptySeq, ConcatProperties
<1> HIDE DEF S
<1>3. Carries(T, step, m) /\ <<>> \in T[0]
  <2>1. <<>> \in T[0]
    BY <1>1, <1>2
  <2>2. ASSUME NEW n \in 1..m, NEW x \in T[n-1] PROVE step[<<n, x>>] \in T[n]
    <3>1. n - 1 \in 0..m /\ n \in 0..m
      BY <1>1
    <3>2. x \in S /\ T[n] = S
      BY <3>1
    <3>3. step[<<n, x>>] = x \o list[n].data
      BY <3>2
    <3> QED BY <3>2, <3>3, <1>1, <1>2
  <2> QED BY <2>1, <2>2 DEF Carries
<1>4. PICK f : Recurs(f, m, <<>>, step) /\ \A n \in 0..m : f[n] \in T[n]
  <2> HIDE DEF m, T, step
  <2> QED BY <1>1, <1>3, Recurrence
<1>5. f = Body(f)
  <2>1. ASSUME NEW n \in 0..m, n # 0 PROVE step[<<n, f[n-1]>>] = f[n-1] \o list[n].data
    <3>1. n \in 1..m /\ n - 1 \in 0..m
      BY <1>1, <2>1
    <3>2. f[n-1] \in S
      BY <3>1, <1>4
    <3> QED BY <3>1, <3>2
  <2> HIDE DEF step
  <2> QED BY <2>1, <1>4 DEF Recurs
<1> DEFINE h == Joined(list)
<1>6. h = Body(h)
  BY <1>5 DEF Joined
<1> HIDE DEF h
<1>7. h[0] = <<>> /\ \A n \in 1..m : h[n] = h[n-1] \o list[n].data
  <2>1. 0 \in 0..m /\ \A n \in 1..m : n \in 0..m /\ n # 0
    BY <1>1
  <2> HIDE DEF m
  <2> QED BY <2>1, <1>6
<1> QED BY <1>7 DEF h

-----------------------------------------------------------------------------
(* The rolling fingerprint.                                                *)
LEMMA ModUnique ==
  ASSUME NEW k \in Int, NEW e \in 0..(FpMod - 1)
  PROVE  (k * FpMod + e) % FpMod = e
BY RabinAssumption

LEMMA ModSplit ==
  ASSUME NEW x \in Int
  PROVE  \E k \in Int : x = k * FpMod + (x % FpMod)
<1>1. x = (x \div FpMod) * FpMod + (x % FpMod) /\ x \div FpMod \in Int
  BY RabinAssumption
<1> QED BY <1>1

LEMMA ModSame ==
  ASSUME NEW x \in Int, NEW k \in Int
  PROVE  (x + k * FpMod) % FpMod = x % FpMod
<1> DEFINE r == x % FpMod
<1>1. r \in 0..(FpMod - 1) /\ FpMod \in Int
  BY ModType, RabinAssumption
<1>2. PICK a \in Int : x = a * FpMod + r
  BY ModSplit
<1> HIDE DEF r
<1>3. x + k * FpMod = (a + k) * FpMod + r /\ a + k \in Int
  BY <1>1, <1>2
<1>4. (x + k * FpMod) % FpMod = r
  BY <1>1, <1>3, ModUnique
<1> QED BY <1>4 DEF r

LEMMA DropArith ==
  ASSUME NEW A \in Int, NEW B \in Int, NEW P \in Int, NEW h \in Int, NEW b \in Int,
         NEW i \in Int, NEW u \in Int, NEW v \in Int, NEW w \in Int, NEW M \in Int,
         A = B - h * P + i * M
  PROVE  (A * 3 + b) - u * M
           = ((B * 3 + b) - v * M) - h * (3 * P - w * M) + (3 * i - u + v - h * w) * M
OBVIOUS

(* Taking the first byte off a sequence takes its share off the            *)
(* fingerprint, but for a multiple of 2^64.                                *)
LEMMA DropLemma ==
  ASSUME NEW s \in Seq(Nat), NEW t \in Seq(Nat), Len(s) = Len(t) + 1,
         \A i \in 1..Len(t) : t[i] = s[i + 1]
  PROVE  \E k \in Int : Fps(t)[Len(t)] = Fps(s)[Len(s)] - s[1] * Pow[Len(t)] + k * FpMod
<1> DEFINE m == Len(t)
           f == Fps(t)
           g == Fps(s)
           Drops(n) == \E k \in Int : f[n] = g[n + 1] - s[1] * Pow[n] + k * FpMod
           U == {n \in 0..m : Drops(n)}
<1>1. /\ m \in Nat /\ Len(s) = m + 1 /\ s[1] \in Nat /\ FpMod \in Nat
      /\ \A i \in 1..m : t[i] \in Nat /\ t[i] = s[i + 1]
  <2>1. m \in Nat /\ Len(s) = m + 1 /\ FpMod \in Nat
    BY LenProperties, RabinAssumption
  <2>2. 1 \in 1..Len(s)
    BY <2>1
  <2> QED BY <2>1, <2>2, ElementOfSeq
<1>2. /\ f[0] = 0 /\ g[0] = 0
      /\ \A n \in 0..m : f[n] \in Int
      /\ \A n \in 0..(m + 1) : g[n] \in Int
      /\ \A n \in 1..m : f[n] = (f[n-1] * RAB_P + t[n]) % FpMod
      /\ \A n \in 1..(m + 1) : g[n] = (g[n-1] * RAB_P + s[n]) % FpMod
  BY <1>1, FpsDef
<1>3. /\ Pow[0] = 1 /\ \A n \in Nat : Pow[n] \in Nat /\ Pow[n + 1] = (3 * Pow[n]) % FpMod
  BY PowDef DEF RAB_P
<1> HIDE DEF f, g, m
<1>4. U \in SUBSET (0..m) /\ 0 \in U
  <2>1. g[1] = (0 * RAB_P + s[1]) % FpMod
    <3>1. 1 \in 1..(m + 1) /\ 1 - 1 = 0
      BY <1>1
    <3> QED BY <3>1, <1>2
  <2>2. g[1] = s[1] % FpMod
    <3>1. 0 * RAB_P + s[1] = s[1]
      BY <1>1 DEF RAB_P
    <3> QED BY <2>1, <3>1
  <2>3. PICK k \in Int : s[1] = k * FpMod + g[1]
    <3>1. s[1] \in Int
      BY <1>1
    <3> QED BY <2>2, <3>1, ModSplit
  <2>4. g[1] \in Int
    <3>1. 1 \in 0..(m + 1)
      BY <1>1
    <3> QED BY <3>1, <1>2
  <2>5. f[0] = g[0 + 1] - s[1] * Pow[0] + k * FpMod
    <3> DEFINE x == k * FpMod
    <3>1. x \in Int /\ s[1] = x + g[1]
      BY <1>1, <2>3
    <3> HIDE DEF x
    <3>2. f[0] = g[1] - s[1] + x
      BY <1>1, <1>2, <2>4, <3>1
    <3>3. s[1] * Pow[0] = s[1] /\ 0 + 1 = 1
      BY <1>1, <1>3
    <3> QED BY <3>2, <3>3 DEF x
  <2>6. Drops(0)
    BY <2>5
  <2>7. 0 \in 0..m
    BY <1>1
  <2> HIDE DEF Drops
  <2> QED BY <2>6, <2>7
<1>5. ASSUME NEW n \in U, n < m PROVE n + 1 \in U
  <2>1. n + 1 \in 1..m /\ n + 2 \in 1..(m + 1) /\ n \in 0..m /\ n + 1 \in 0..m /\ n \in Nat
        /\ n + 1 \in 0..(m + 1) /\ (n + 1) - 1 = n /\ (n + 2) - 1 = n + 1 /\ (n + 1) + 1 = n + 2
    BY <1>1, <1>5
  <2> DEFINE A == f[n]
             B == g[n + 1]
             P == Pow[n]
             h == s[1]
             b == s[n + 2]
             M == FpMod
  <2>2. PICK i \in Int : A = B - h * P + i * M
    OBVIOUS
  <2>3. A \in Int /\ B \in Int /\ P \in Int /\ h \in Int /\ b \in Int /\ M \in Int /\ t[n + 1] = b
    <3>1. t[n + 1] \in Nat /\ t[n + 1] = s[n + 2]
      BY <1>1, <2>1
    <3>2. P \in Nat
      BY <1>3, <2>1
    <3>3. A \in Int /\ B \in Int
      BY <1>2, <2>1
    <3> HIDE DEF A, B, P
    <3> QED BY <1>1, <3>1, <3>2, <3>3
  <2>4. /\ f[n + 1] = (A * RAB_P + b) % M
        /\ g[n + 2] = (B * RAB_P + b) % M
        /\ Pow[n + 1] = (3 * P) % M
    <3>1. f[n + 1] = (f[(n + 1) - 1] * RAB_P + t[n + 1]) % FpMod
      BY <1>2, <2>1
    <3>2. g[n + 2] = (g[(n + 2) - 1] * RAB_P + s[n + 2]) % FpMod
      BY <1>2, <2>1
    <3> QED BY <1>3, <2>1, <2>3, <3>1, <3>2
  <2> HIDE DEF A, B, P, h, b
  <2>5. A * RAB_P = A * 3 /\ B * RAB_P = B * 3
    BY DEF RAB_P
  <2>6. A * 3 + b \in Int /\ B * 3 + b \in Int /\ 3 * P \in Int
    BY <2>3
  <2>7. PICK u \in Int : A * 3 + b = u * M + f[n + 1]
    BY <2>4, <2>5, <2>6, ModSplit
  <2>8. PICK v \in Int : B * 3 + b = v * M + g[n + 2]
    BY <2>4, <2>5, <2>6, ModSplit
  <2>9. PICK w \in Int : 3 * P = w * M + Pow[n + 1]
    BY <2>4, <2>6, ModSplit
  <2>10. f[n + 1] \in Int /\ g[n + 2] \in Int /\ Pow[n + 1] \in Int
    BY <2>4, <2>5, <2>6, ModType
  <2> HIDE DEF M
  <2>11. f[n + 1] = (A * 3 + b) - u * M /\ g[n + 2] = (B * 3 + b) - v * M
         /\ Pow[n + 1] = 3 * P - w * M
    <3>1. ASSUME NEW x \in Int, NEW y \in Int, NEW z \in Int, x = y * M + z
          PROVE  z = x - y * M
      BY <2>3, <3>1
    <3>2. f[n + 1] = (A * 3 + b) - u * M
      BY <2>6, <2>7, <2>10, <3>1
    <3>3. g[n + 2] = (B * 3 + b) - v * M
      BY <2>6, <2>8, <2>10, <3>1
    <3>4. Pow[n + 1] = 3 * P - w * M
      BY <2>6, <2>9, <2>10, <3>1
    <3> QED BY <3>2, <3>3, <3>4
  <2> DEFINE j == 3 * i - u + v - h * w
  <2>12. f[n + 1] = g[n + 2] - h * Pow[n + 1] + j * M
    BY <2>2, <2>3, <2>11, DropArith
  <2>13. j \in Int
    BY <2>3
  <2> HIDE DEF j
  <2>14. f[n + 1] = g[(n + 1) + 1] - s[1] * Pow[n + 1] + j * FpMod
    BY <2>1, <2>12 DEF h, M
  <2> QED BY <2>1, <2>13, <2>14
<1>6. U = 0..m
  <2> HIDE DEF U
  <2> QED BY <1>1, <1>4, <1>5, UpTo
<1>7. Drops(m)
  <2> HIDE DEF Drops
  <2>1. m \in U
    <3> HIDE DEF U
    <3> QED BY <1>1, <1>6
  <2> QED BY <2>1
<1> QED BY <1>1, <1>7 DEF m, f, g

LEMMA FpsAppend ==
  ASSUME NEW s \in Seq(Nat), NEW b \in Nat
  PROVE  Fingerprint(Append(s, b)) = (Fingerprint(s) * RAB_P + b) % FpMod
<1> DEFINE m == Len(s)
           u == Append(s, b)
           f == Fps(s)
           g == Fps(u)
           U == {n \in 0..m : g[n] = f[n]}
<1>1. m \in Nat /\ u \in Seq(Nat) /\ Len(u) = m + 1 /\ u[m + 1] = b /\ \A i \in 1..m : u[i] = s[i]
  BY LenProperties, AppendProperties
<1> HIDE DEF u
<1>2. /\ f[0] = 0 /\ g[0] = 0
      /\ \A n \in 1..m : f[n] = (f[n-1] * RAB_P + s[n]) % FpMod
      /\ \A n \in 1..(m + 1) : g[n] = (g[n-1] * RAB_P + u[n]) % FpMod
  BY <1>1, FpsDef
<1> HIDE DEF f, g, m
<1>3. U \in SUBSET (0..m) /\ 0 \in U
  BY <1>1, <1>2
<1>4. ASSUME NEW n \in U, n < m PROVE n + 1 \in U
  <2>1. n + 1 \in 1..m /\ n + 1 \in 1..(m + 1) /\ n + 1 \in 0..m /\ (n + 1) - 1 = n
    BY <1>1, <1>4
  <2>2. f[n + 1] = (f[n] * RAB_P + s[n + 1]) % FpMod /\ g[n + 1] = (g[n] * RAB_P + u[n + 1]) % FpMod
    BY <1>2, <2>1
  <2> QED BY <1>1, <2>1, <2>2
<1>5. U = 0..m
  <2> HIDE DEF U
  <2> QED BY <1>1, <1>3, <1>4, UpTo
<1>6. g[m + 1] = (f[m] * RAB_P + b) % FpMod
  <2>1. m + 1 \in 1..(m + 1) /\ (m + 1) - 1 = m /\ m \in 0..m
    BY <1>1
  <2>2. g[m] = f[m]
    BY <1>5, <2>1
  <2> QED BY <1>1, <1>2, <2>1, <2>2
<1> QED BY <1>1, <1>6 DEF Fingerprint, f, g, m, u

(* One byte into the fingerprint: q bytes of s have gone in, the table has *)
(* the window, and what leaves it is the byte WinSz before.                *)
LEMMA RollLemma ==
  ASSUME InTable, NEW s \in Seq(Bytes), NEW q \in Nat, q < Len(s)
  PROVE  FpAt(s, q + 1)
           = ((IF q >= WinSz THEN FpAt(s, q) - Gout(s[q - WinSz + 1]) ELSE FpAt(s, q)) * RAB_P
                + s[q + 1]) % FpMod
<1>1. /\ s \in Seq(Nat) /\ WinSz \in Nat /\ WinSz >= 1 /\ Len(s) \in Nat /\ FpMod \in Nat
      /\ \A i \in 1..Len(s) : s[i] \in Nat
  <2>1. s \in Seq(Nat)
    BY RabinAssumption, SeqMonotonic
  <2> QED BY <2>1, RabinAssumption, LenProperties, ElementOfSeq
<1>2. q + 1 \in 1..Len(s) /\ s[q + 1] \in Nat
  BY <1>1
<1>3. CASE q < WinSz
  <2>1. Window(s, q) = SubSeq(s, 1, q) /\ Window(s, q + 1) = SubSeq(s, 1, q + 1)
    <3>1. ~(q > WinSz) /\ ~(q + 1 > WinSz)
      BY <1>1, <1>3
    <3> QED BY <3>1 DEF Window
  <2>2. SubSeq(s, 1, q + 1) = Append(SubSeq(s, 1, q), s[q + 1])
    BY <1>1, SubSeqNext
  <2>3. SubSeq(s, 1, q) \in Seq(Nat)
    BY <1>1, SubSeqType
  <2>4. FpAt(s, q + 1) = (FpAt(s, q) * RAB_P + s[q + 1]) % FpMod
    BY <1>2, <2>1, <2>2, <2>3, FpsAppend DEF FpAt
  <2>5. ~(q >= WinSz)
    BY <1>1, <1>3
  <2> QED BY <2>4, <2>5
<1>4. CASE q >= WinSz
  <2> DEFINE a == q - WinSz + 1
             w == SubSeq(s, a, q)
             t == SubSeq(s, a + 1, q)
             b == s[q + 1]
             h == s[a]
             n == WinSz - 1
  <2>1. /\ a \in Nat \ {0} /\ a <= q /\ a + 1 \in Nat \ {0} /\ a + 1 <= q + 1 /\ q <= Len(s)
        /\ q - a + 1 = n + 1 /\ q - (a + 1) + 1 = n /\ n \in Nat /\ a \in 1..Len(s)
    BY <1>1, <1>4
  <2>2. Window(s, q) = w
    <3>1. CASE q > WinSz
      BY <3>1 DEF Window
    <3>2. CASE q = WinSz
      <4>1. a = 1 /\ ~(q > WinSz)
        BY <1>1, <3>2
      <4> QED BY <4>1 DEF Window
    <3> QED BY <1>1, <1>4, <3>1, <3>2
  <2>3. Window(s, q + 1) = SubSeq(s, a + 1, q + 1)
    <3>1. q + 1 > WinSz /\ (q + 1) - WinSz + 1 = a + 1
      BY <1>1, <1>4
    <3> QED BY <3>1 DEF Window
  <2> HIDE DEF a, n
  <2>4. SubSeq(s, a + 1, q + 1) = Append(t, b)
    BY <1>1, <2>1, SubSeqNext
  <2>5. /\ w \in Seq(Nat) /\ Len(w) = n + 1 /\ \A i \in 1..(n + 1) : w[i] = s[a + i - 1]
        /\ t \in Seq(Nat) /\ Len(t) = n /\ \A i \in 1..n : t[i] = s[(a + 1) + i - 1]
    <3>1. /\ w \in Seq(Nat) /\ Len(w) = n + 1 /\ \A i \in 1..(n + 1) : w[i] = s[a + i - 1]
      BY <1>1, <2>1, SubSeqType
    <3>2. /\ t \in Seq(Nat) /\ Len(t) = IF a + 1 <= q THEN q - (a + 1) + 1 ELSE 0
          /\ \A i \in 1..n : t[i] = s[(a + 1) + i - 1]
      <4>1. a + 1 \in Nat \ {0} /\ q \in Int /\ q <= Len(s) /\ q - (a + 1) + 1 = n
        BY <2>1
      <4> QED BY <1>1, <4>1, SubSeqType
    <3>3. Len(t) = n
      BY <2>1, <3>2
    <3> QED BY <3>1, <3>2, <3>3
  <2>6. w[1] = h /\ \A i \in 1..n : t[i] = w[i + 1]
    <3>1. 1 \in 1..(n + 1) /\ a + 1 - 1 = a
      BY <2>1
    <3>2. w[1] = s[a + 1 - 1]
      BY <2>5, <3>1
    <3>3. ASSUME NEW i \in 1..n PROVE t[i] = w[i + 1]
      <4>1. i + 1 \in 1..(n + 1) /\ (a + 1) + i - 1 = a + (i + 1) - 1
        BY <2>1
      <4> QED BY <2>5, <4>1
    <3> QED BY <3>1, <3>2, <3>3
  <2> HIDE DEF w, t
  <2> DEFINE P == Pow[n]
             F == Fps(w)[n + 1]
             G == Fps(t)[n]
  <2>7. PICK k \in Int : G = F - h * P + k * FpMod
    BY <2>5, <2>6, DropLemma
  <2>8. F \in Int /\ G \in Int /\ P \in Int /\ h \in Int /\ b \in Int
    <3>1. F \in 0..(FpMod - 1)
      <4>1. n + 1 \in 0..Len(w)
        BY <2>1, <2>5
      <4> QED BY <2>5, <4>1, FpsDef
    <3>2. G \in 0..(FpMod - 1)
      <4>1. n \in 0..Len(t)
        BY <2>1, <2>5
      <4> QED BY <2>5, <4>1, FpsDef
    <3>3. P \in Nat
      BY <2>1, PowDef
    <3>4. h \in Nat
      BY <1>1, <2>1
    <3> HIDE DEF F, G, P, h, b
    <3>5. b \in Nat
      BY <1>2 DEF b
    <3> QED BY <3>1, <3>2, <3>3, <3>4, <3>5
  <2>9. Gout(h) = (h * P) % FpMod
    <3>1. ~(WinSz < MinWinSz)
      BY <1>1, RabinAssumption DEF InTable
    <3> QED BY <3>1 DEF Gout, n
  <2>10. FpAt(s, q) = F
    BY <2>2, <2>5 DEF FpAt, Fingerprint
  <2>11. FpAt(s, q + 1) = (G * RAB_P + b) % FpMod
    <3>1. Fingerprint(t) = G
      BY <2>5 DEF Fingerprint
    <3> QED BY <1>2, <2>3, <2>4, <2>5, <3>1, FpsAppend DEF FpAt
  <2> HIDE DEF P, F, G, h
  <2> DEFINE o == Gout(h)
  <2>12. PICK j \in Int : h * P = j * FpMod + o
    <3>1. h * P \in Int
      BY <2>8
    <3> QED BY <2>9, <3>1, ModSplit
  <2>13. o \in Int
    <3>1. h * P \in Int
      BY <2>8
    <3> QED BY <2>9, <3>1, ModType
  <2> HIDE DEF o, b
  <2> DEFINE M == FpMod
             x == (F - o) * RAB_P + b
             l == 3 * (k - j)
  <2>14. G * RAB_P + b = x + l * M
    <3>1. M \in Int
      BY <1>1
    <3> HIDE DEF M
    <3>2. G = F - (j * M + o) + k * M
      BY <2>7, <2>12 DEF M
    <3>3. F - (j * M + o) + k * M = (F - o) + (k - j) * M
      BY <2>8, <2>13, <3>1
    <3>4. ((F - o) + (k - j) * M) * 3 + b = ((F - o) * 3 + b) + (3 * (k - j)) * M
      BY <2>8, <2>13, <3>1
    <3> QED BY <3>2, <3>3, <3>4 DEF RAB_P
  <2>15. x \in Int /\ l \in Int
    BY <2>8, <2>13 DEF RAB_P
  <2> HIDE DEF x, l
  <2>16. FpAt(s, q + 1) = x % FpMod
    BY <2>11, <2>14, <2>15, ModSame
  <2> QED BY <1>4, <2>10, <2>16 DEF x, o, h, b, a
<1> QED BY <1>1, <1>3, <1>4


-----------------------------------------------------------------------------
(* Lists of blocks.                                                        *)
LEMMA EndsOrdered ==
  ASSUME NEW list \in Seq(Block)
  PROVE  \A m, n \in 0..Len(list) : m <= n => EndOf(list)[m] <= EndOf(list)[n]
<1> DEFINE k == Len(list)
           e == EndOf(list)
<1>1. /\ k \in Nat /\ \A n \in 0..k : e[n] \in Nat
      /\ \A n \in 1..k : e[n - 1] <= e[n]
  <2>1. k \in Nat /\ \A n \in 0..k : e[n] \in Nat
    BY LenProperties, EndDef
  <2>2. ASSUME NEW n \in 1..k PROVE e[n - 1] <= e[n]
    <3>1. n - 1 \in 0..k /\ e[n] = e[n - 1] + list[n].len
      BY <2>1, EndDef
    <3>2. list[n] \in Block
      BY ElementOfSeq
    <3>3. list[n].len \in Nat
      BY <3>2 DEF Block
    <3>4. e[n - 1] \in Nat
      BY <2>1, <3>1
    <3> HIDE DEF e
    <3> QED BY <3>1, <3>3, <3>4
  <2> QED BY <2>1, <2>2
<1> HIDE DEF k, e
<1>2. SUFFICES ASSUME NEW m \in 0..k PROVE \A n \in 0..k : m <= n => e[m] <= e[n]
  BY DEF k, e
<1> DEFINE U == {n \in 0..k : m <= n => e[m] <= e[n]}
<1>3. U \in SUBSET (0..k) /\ 0 \in U
  BY <1>1
<1>4. ASSUME NEW n \in U, n < k PROVE n + 1 \in U
  <2>1. n + 1 \in 1..k /\ n + 1 \in 0..k /\ (n + 1) - 1 = n /\ n \in 0..k
    BY <1>1, <1>4
  <2>2. e[n] <= e[n + 1] /\ e[n] \in Nat /\ e[n + 1] \in Nat /\ e[m] \in Nat
    BY <1>1, <2>1
  <2>3. m <= n + 1 => m <= n \/ m = n + 1
    BY <2>1
  <2>4. m <= n => e[m] <= e[n]
    OBVIOUS
  <2>5. m <= n + 1 => e[m] <= e[n + 1]
    BY <2>2, <2>3, <2>4
  <2> QED BY <2>1, <2>5
<1>5. U = 0..k
  <2> HIDE DEF U
  <2> QED BY <1>1, <1>3, <1>4, UpTo
<1> QED BY <1>5

LEMMA EndAppend ==
  ASSUME NEW list \in Seq(Block), NEW b \in Block
  PROVE  /\ \A n \in 0..Len(list) : EndOf(Append(list, b))[n] = EndOf(list)[n]
         /\ LastEnd(Append(list, b)) = LastEnd(list) + b.len
<1> DEFINE k == Len(list)
           long == Append(list, b)
           e == EndOf(list)
           f == EndOf(long)
           U == {n \in 0..k : f[n] = e[n]}
<1>1. /\ k \in Nat /\ long \in Seq(Block) /\ Len(long) = k + 1 /\ long[k + 1] = b
      /\ \A i \in 1..k : long[i] = list[i]
  BY LenProperties, AppendProperties
<1> HIDE DEF long
<1>2. /\ e[0] = 0 /\ f[0] = 0
      /\ \A n \in 1..k : e[n] = e[n-1] + list[n].len
      /\ \A n \in 1..(k + 1) : f[n] = f[n-1] + long[n].len
  BY <1>1, EndDef
<1> HIDE DEF e, f, k
<1>3. U \in SUBSET (0..k) /\ 0 \in U
  BY <1>1, <1>2
<1>4. ASSUME NEW n \in U, n < k PROVE n + 1 \in U
  <2>1. n + 1 \in 1..k /\ n + 1 \in 1..(k + 1) /\ n + 1 \in 0..k /\ (n + 1) - 1 = n
    BY <1>1, <1>4
  <2>2. e[n + 1] = e[n] + list[n + 1].len /\ f[n + 1] = f[n] + long[n + 1].len
    BY <1>2, <2>1
  <2> QED BY <1>1, <2>1, <2>2
<1>5. U = 0..k
  <2> HIDE DEF U
  <2> QED BY <1>1, <1>3, <1>4, UpTo
<1>6. f[k + 1] = e[k] + b.len
  <2>1. k + 1 \in 1..(k + 1) /\ (k + 1) - 1 = k /\ k \in 0..k
    BY <1>1
  <2>2. f[k] = e[k]
    BY <1>5, <2>1
  <2> QED BY <1>1, <1>2, <2>1, <2>2
<1> QED BY <1>1, <1>5, <1>6 DEF LastEnd, e, f, k, long

LEMMA LastEndType ==
  ASSUME NEW list \in Seq(Block)
  PROVE  LastEnd(list) \in Nat /\ Len(list) \in Nat /\ Len(list) \in 0..Len(list)
<1>1. Len(list) \in Nat
  BY LenProperties
<1>2. Len(list) \in 0..Len(list)
  BY <1>1
<1> QED BY <1>1, <1>2, EndDef DEF LastEnd

(* One more block: it ends the bytes seen so far.                          *)
LEMMA CoversAppend ==
  ASSUME NEW s \in Seq(Bytes), NEW q \in Nat, NEW list \in Seq(Block), NEW b \in Block,
         Covers(s, q, list), BlockAt(s, b, LastEnd(list), q + 1)
  PROVE  Covers(s, q + 1, Append(list, b)) /\ LastEnd(Append(list, b)) = q + 1
<1> DEFINE k == Len(list)
           long == Append(list, b)
<1>1. /\ k \in Nat /\ Len(long) = k + 1 /\ long[k + 1] = b
      /\ \A i \in 1..k : long[i] = list[i]
  BY LenProperties, AppendProperties
<1>2. /\ \A n \in 0..k : EndOf(long)[n] = EndOf(list)[n]
      /\ LastEnd(long) = LastEnd(list) + b.len
  BY EndAppend
<1>3. LastEnd(list) \in Nat /\ b.len = (q + 1) - LastEnd(list)
  BY LastEndType DEF BlockAt
<1>4. LastEnd(long) = q + 1
  <2> HIDE DEF long
  <2> QED BY <1>2, <1>3
<1> HIDE DEF long, k
<1>5. ASSUME NEW n \in 1..(k + 1)
      PROVE  BlockAt(s, long[n], EndOf(long)[n-1], EndOf(long)[n])
  <2>1. n - 1 \in 0..k
    BY <1>1
  <2>2. CASE n <= k
    <3>1. n \in 1..k /\ n \in 0..k
      BY <1>1, <2>2
    <3>2. BlockAt(s, list[n], EndOf(list)[n-1], EndOf(list)[n])
      BY <3>1 DEF Covers, k
    <3> QED BY <1>1, <1>2, <2>1, <3>1, <3>2
  <2>3. CASE n = k + 1
    <3>1. n - 1 = k /\ k \in 0..k
      BY <1>1, <2>3
    <3>2. EndOf(long)[n - 1] = LastEnd(list) /\ EndOf(long)[n] = q + 1 /\ long[n] = b
      BY <1>1, <1>2, <1>4, <2>3, <3>1 DEF LastEnd, k
    <3> QED BY <3>2
  <2> QED BY <1>1, <2>2, <2>3
<1>6. Covers(s, q + 1, long)
  <2>1. LastEnd(long) <= q + 1
    BY <1>4
  <2> QED BY <1>1, <1>5, <2>1 DEF Covers
<1> QED BY <1>4, <1>6 DEF long

(* One more byte, whether or not it ends a block.                          *)
LEMMA CutNext ==
  ASSUME InTable, NEW s, NEW q \in Nat, NEW list \in Seq(Block), NEW flushes,
         LastEnd(list) <= q, Cut(s, q, list, flushes),
         ~IsEnd(s, LastEnd(list), q + 1, flushes)
  PROVE  Cut(s, q + 1, list, flushes)
<1> DEFINE k == Len(list)
           e == EndOf(list)
<1>1. k \in Nat /\ \A n \in 0..k : e[n] \in Nat /\ e[n] <= q
  <2>1. k \in Nat /\ k \in 0..k /\ \A n \in 0..k : e[n] \in Nat
    BY LastEndType, EndDef
  <2>2. \A n \in 0..k : n <= k /\ e[n] <= e[k]
    <3>1. \A n \in 0..k : n <= k
      BY <2>1
    <3> QED BY <2>1, <3>1, EndsOrdered
  <2>3. e[k] <= q
    BY DEF LastEnd
  <2> HIDE DEF e, k
  <2> QED BY <2>1, <2>2, <2>3
<1>2. ASSUME NEW n \in 0..k, NEW p \in 1..(q + 1),
             e[n] < p, n < k => p < e[n + 1]
      PROVE  ~IsEnd(s, e[n], p, flushes)
  <2>1. CASE n < k
    <3>1. n + 1 \in 0..k
      BY <1>1, <2>1
    <3>2. p < e[n + 1] /\ e[n + 1] <= q /\ e[n + 1] \in Nat
      BY <1>1, <1>2, <2>1, <3>1
    <3> HIDE DEF e
    <3>3. p \in 1..q
      BY <3>2
    <3> QED BY <1>2, <3>3 DEF Cut, e
  <2>2. CASE n = k /\ p <= q
    <3>1. p \in 1..q
      BY <2>2
    <3> QED BY <1>2, <3>1 DEF Cut
  <2>3. CASE n = k /\ p = q + 1
    BY <2>3 DEF LastEnd
  <2>4. (n < k \/ n = k) /\ (p <= q \/ p = q + 1)
    BY <1>1
  <2> QED BY <2>1, <2>2, <2>3, <2>4
<1>3. \A n \in 1..k : IsEnd(s, e[n-1], e[n], flushes)
  BY DEF Cut
<1> QED BY <1>2, <1>3 DEF Cut

LEMMA CutAppend ==
  ASSUME InTable, NEW s, NEW q \in Nat, NEW list \in Seq(Block), NEW b \in Block, NEW flushes,
         LastEnd(list) <= q, LastEnd(Append(list, b)) = q + 1, Cut(s, q, list, flushes),
         IsEnd(s, LastEnd(list), q + 1, flushes)
  PROVE  Cut(s, q + 1, Append(list, b), flushes)
<1> DEFINE k == Len(list)
           e == EndOf(list)
           long == Append(list, b)
           f == EndOf(long)
<1>1. k \in Nat /\ \A n \in 0..k : e[n] \in Nat /\ e[n] <= q
  <2>1. k \in Nat /\ k \in 0..k /\ \A n \in 0..k : e[n] \in Nat
    BY LastEndType, EndDef
  <2>2. \A n \in 0..k : n <= k /\ e[n] <= e[k]
    <3>1. \A n \in 0..k : n <= k
      BY <2>1
    <3> QED BY <2>1, <3>1, EndsOrdered
  <2>3. e[k] <= q
    BY DEF LastEnd
  <2> HIDE DEF e, k
  <2> QED BY <2>1, <2>2, <2>3
<1>2. /\ Len(long) = k + 1 /\ f[k + 1] = q + 1 /\ e[k] = LastEnd(list)
      /\ \A n \in 0..k : f[n] = e[n]
  <2>1. Len(long) = k + 1
    BY AppendProperties
  <2> QED BY <2>1, EndAppend DEF LastEnd
<1> HIDE DEF long, e, f, k
<1>3. ASSUME NEW n \in 1..(k + 1) PROVE IsEnd(s, f[n-1], f[n], flushes)
  <2>1. n - 1 \in 0..k
    BY <1>1
  <2>2. CASE n <= k
    <3>1. n \in 1..k /\ n \in 0..k
      BY <1>1, <2>2
    <3> QED BY <1>2, <2>1, <3>1 DEF Cut, e, k
  <2>3. CASE n = k + 1
    <3>1. n - 1 = k
      BY <1>1, <2>3
    <3> QED BY <1>2, <2>1, <2>3, <3>1
  <2> QED BY <1>1, <2>2, <2>3
<1>4. ASSUME NEW n \in 0..(k + 1), NEW p \in 1..(q + 1),
             f[n] < p, n < k + 1 => p < f[n + 1]
      PROVE  ~IsEnd(s, f[n], p, flushes)
  <2>1. CASE n < k
    <3>1. n + 1 \in 0..k /\ n \in 0..k /\ n < k + 1
      BY <1>1, <2>1
    <3>2. p < e[n + 1] /\ e[n + 1] <= q /\ e[n + 1] \in Nat /\ e[n] < p /\ f[n] = e[n]
      BY <1>1, <1>2, <1>4, <3>1
    <3>3. p \in 1..q
      BY <3>2
    <3> QED BY <2>1, <3>1, <3>2, <3>3 DEF Cut, e, k
  <2>2. CASE n = k
    <3>1. p < q + 1
      BY <1>1, <1>2, <1>4, <2>2
    <3>2. p \in 1..q /\ k \in 0..k /\ ~(k < k)
      BY <1>1, <3>1
    <3>3. f[n] = e[k]
      BY <1>2, <2>2, <3>2
    <3> QED BY <1>4, <2>2, <3>2, <3>3 DEF Cut, e, k
  <2>3. CASE n = k + 1
    BY <1>2, <1>4, <2>3
  <2> QED BY <1>1, <2>1, <2>2, <2>3
<1> QED BY <1>2, <1>3, <1>4 DEF Cut, f, long

-----------------------------------------------------------------------------
(* A stream and a buffer that follows it.                                  *)
LEMMA SplitSubSeq ==
  ASSUME NEW B, NEW s \in Seq(B), NEW t \in Seq(B), NEW a \in Nat, NEW k \in 0..Len(t),
         a <= Len(s) + k
  PROVE  SubSeq(s, a + 1, Len(s)) \o SubSeq(t, (IF a > Len(s) THEN a - Len(s) ELSE 0) + 1, k)
           = SubSeq(s \o t, a + 1, Len(s) + k)
<1> DEFINE n == Len(s)
           c == IF a > n THEN a - n ELSE 0
           x == SubSeq(s, a + 1, n)
           y == SubSeq(t, c + 1, k)
           u == s \o t
           z == SubSeq(u, a + 1, n + k)
<1>1. /\ n \in Nat /\ a <= n + k /\ (a <= n => c = 0) /\ (a > n => c = a - n)
      /\ c \in Nat /\ c <= k /\ k <= Len(t) /\ k \in Nat /\ Len(t) \in Nat
      /\ u \in Seq(B) /\ Len(u) = n + Len(t)
      /\ \A i \in 1..n : u[i] = s[i]
      /\ \A i \in (n + 1)..(n + Len(t)) : u[i] = t[i - n]
  <2>1. n \in Nat /\ Len(t) \in Nat
    BY LenProperties
  <2>2. /\ c \in Nat /\ c <= k /\ k <= Len(t) /\ k \in Nat
        /\ a <= n + k /\ (a <= n => c = 0) /\ (a > n => c = a - n)
    BY <2>1
  <2>3. /\ u \in Seq(B) /\ Len(u) = n + Len(t)
        /\ \A i \in 1..(n + Len(t)) : u[i] = IF i <= n THEN s[i] ELSE t[i - n]
    BY ConcatProperties
  <2> HIDE DEF u, c
  <2>4. \A i \in 1..n : u[i] = s[i]
    <3>1. \A i \in 1..n : i \in 1..(n + Len(t)) /\ i <= n
      BY <2>1
    <3> QED BY <2>3, <3>1
  <2>5. \A i \in (n + 1)..(n + Len(t)) : u[i] = t[i - n]
    <3>1. \A i \in (n + 1)..(n + Len(t)) : i \in 1..(n + Len(t)) /\ ~(i <= n)
      BY <2>1
    <3> QED BY <2>3, <3>1
  <2> QED BY <2>1, <2>2, <2>3, <2>4, <2>5
<1> HIDE DEF u, n, c
<1>2. /\ x \in Seq(B) /\ Len(x) = (IF a + 1 <= n THEN n - a ELSE 0)
      /\ \A i \in 1..(n - a) : x[i] = s[a + i]
  <2>1. /\ x \in Seq(B) /\ Len(x) = IF a + 1 <= n THEN n - (a + 1) + 1 ELSE 0
        /\ \A i \in 1..(n - (a + 1) + 1) : x[i] = s[(a + 1) + i - 1]
    <3>1. a + 1 \in Nat \ {0} /\ n \in Int /\ n <= Len(s)
      BY <1>1 DEF n
    <3> QED BY <3>1, SubSeqType DEF n
  <2>2. n - (a + 1) + 1 = n - a /\ \A i \in 1..(n - a) : (a + 1) + i - 1 = a + i
    BY <1>1
  <2> HIDE DEF x
  <2> QED BY <2>1, <2>2
<1>3. /\ y \in Seq(B) /\ Len(y) = k - c
      /\ \A i \in 1..(k - c) : y[i] = t[c + i]
  <2>1. /\ y \in Seq(B) /\ Len(y) = IF c + 1 <= k THEN k - (c + 1) + 1 ELSE 0
        /\ \A i \in 1..(k - (c + 1) + 1) : y[i] = t[(c + 1) + i - 1]
    <3>1. c + 1 \in Nat \ {0} /\ k \in Int /\ k <= Len(t)
      BY <1>1
    <3> DEFINE d == c + 1
               w == SubSeq(t, d, k)
    <3>2. d \in Nat \ {0}
      BY <3>1
    <3> HIDE DEF d, y, x, z, w, u, n, c
    <3>3. w \in Seq(B)
      BY <3>1, <3>2, SubSeqType DEF w
    <3>4. Len(w) = IF d <= k THEN k - d + 1 ELSE 0
      BY <3>1, <3>2, SubSeqType DEF w
    <3>5. \A i \in 1..(k - d + 1) : w[i] = t[d + i - 1]
      BY <3>1, <3>2, SubSeqType DEF w
    <3> QED BY <3>3, <3>4, <3>5 DEF d, w, y
  <2>2. k - (c + 1) + 1 = k - c /\ (\A i \in 1..(k - c) : (c + 1) + i - 1 = c + i)
        /\ (~(c + 1 <= k) => k - c = 0)
    <3>1. \A C, K \in Nat : C <= K =>
            /\ K - (C + 1) + 1 = K - C
            /\ \A i \in 1..(K - C) : (C + 1) + i - 1 = C + i
            /\ ~(C + 1 <= K) => K - C = 0
      OBVIOUS
    <3> QED BY <1>1, <3>1
  <2> HIDE DEF y
  <2> QED BY <2>1, <2>2
<1>4. /\ z \in Seq(B) /\ Len(z) = n + k - a
      /\ \A i \in 1..(n + k - a) : z[i] = u[a + i]
  <2>1. /\ z \in Seq(B) /\ Len(z) = IF a + 1 <= n + k THEN (n + k) - (a + 1) + 1 ELSE 0
        /\ \A i \in 1..((n + k) - (a + 1) + 1) : z[i] = u[(a + 1) + i - 1]
    <3>1. a + 1 \in Nat \ {0} /\ n + k \in Int /\ n + k <= Len(u)
      BY <1>1
    <3> QED BY <1>1, <3>1, SubSeqType
  <2>2. (n + k) - (a + 1) + 1 = n + k - a
        /\ (\A i \in 1..(n + k - a) : (a + 1) + i - 1 = a + i)
        /\ (~(a + 1 <= n + k) => n + k - a = 0)
    BY <1>1
  <2> HIDE DEF z
  <2> QED BY <2>1, <2>2
<1> HIDE DEF x, y, z
<1> DEFINE v == x \o y
<1>5. /\ v \in Seq(B) /\ Len(v) = Len(x) + Len(y)
      /\ \A i \in 1..(Len(x) + Len(y)) : v[i] = IF i <= Len(x) THEN x[i] ELSE y[i - Len(x)]
  BY <1>2, <1>3, ConcatProperties
<1> HIDE DEF v
<1>6. v = z
  <2>1. CASE a <= n
    <3>1. c = 0 /\ Len(x) = n - a
      BY <1>1, <1>2, <2>1
    <3>2. Len(v) = n + k - a
      BY <1>1, <1>3, <1>5, <3>1
    <3>3. ASSUME NEW i \in 1..(n + k - a) PROVE v[i] = z[i]
      <4>1. v[i] = IF i <= n - a THEN x[i] ELSE y[i - (n - a)]
        BY <1>5, <3>1, <3>2, <3>3
      <4>2. CASE i <= n - a
        <5>1. i \in 1..(n - a) /\ a + i \in 1..n
          BY <1>1, <4>2
        <5> QED BY <1>1, <1>2, <1>4, <4>1, <4>2, <5>1
      <4>3. CASE ~(i <= n - a)
        <5>1. i - (n - a) \in 1..(k - c) /\ a + i \in (n + 1)..(n + Len(t))
              /\ c + (i - (n - a)) = (a + i) - n
          BY <1>1, <3>1, <4>3
        <5>2. y[i - (n - a)] = t[(a + i) - n]
          BY <1>3, <5>1
        <5>3. u[a + i] = t[(a + i) - n]
          BY <1>1, <5>1
        <5> QED BY <1>4, <4>1, <4>3, <5>2, <5>3
      <4> QED BY <4>2, <4>3
    <3> QED BY <1>4, <1>5, <3>2, <3>3, SeqEqual
  <2>2. CASE a > n
    <3>1. c = a - n /\ Len(x) = 0
      BY <1>1, <1>2, <2>2
    <3>2. Len(v) = n + k - a /\ Len(y) = n + k - a
      BY <1>1, <1>3, <1>5, <3>1
    <3>3. ASSUME NEW i \in 1..(n + k - a) PROVE v[i] = z[i]
      <4>1. v[i] = y[i]
        <5>1. i \in 1..(Len(x) + Len(y)) /\ ~(i <= Len(x)) /\ i - Len(x) = i
          BY <3>1, <3>2
        <5> QED BY <1>5, <5>1
      <4>2. i \in 1..(k - c) /\ a + i \in (n + 1)..(n + Len(t)) /\ c + i = (a + i) - n
        BY <1>1, <2>2, <3>1
      <4>3. y[i] = t[(a + i) - n]
        BY <1>3, <4>2
      <4>4. u[a + i] = t[(a + i) - n]
        BY <1>1, <4>2
      <4> QED BY <1>4, <4>1, <4>3, <4>4
    <3> QED BY <1>4, <1>5, <3>2, <3>3, SeqEqual
  <2> QED BY <1>1, <2>1, <2>2
<1> QED BY <1>6 DEF v, x, y, z, u, n, c

-----------------------------------------------------------------------------
(* The loop over a buffer: the invariant after i bytes of it.              *)
RunType ==
  [idx : Nat, fp : 0..(FpMod - 1), crc : Seq(Bytes), blk_len : Nat, tmp_blk : Seq(Bytes),
   in_buff : Nat, blk_start : Nat, formed : Seq(Block)]
RunInv(run, buff, i) ==
  LET s == stream \o buff
      old == Len(stream)
      list == blocks \o run.formed
      from == LastEnd(list)
  IN /\ run.idx = old + i
     /\ InTable => run.fp = FpAt(s, old + i)
     /\ run.crc = SubSeq(s, from + 1, old + i)
     /\ run.blk_len = (old + i) - from
     /\ run.blk_start = (IF from > old THEN from - old ELSE 0)
     /\ run.in_buff = i - run.blk_start
     /\ run.tmp_blk = SubSeq(s, from + 1, old)
     /\ Covers(s, old + i, list)
     /\ Cut(s, old + i, list, flushed)

LEMMA GoutType ==
  ASSUME NEW b \in Nat
  PROVE  Gout(b) \in Int
<1>1. WinSz \in Nat \ {0} /\ MinWinSz \in Nat /\ FpMod \in Nat \ {0}
  BY RabinAssumption
<1>2. CASE WinSz < MinWinSz
  BY <1>2 DEF Gout
<1>3. CASE ~(WinSz < MinWinSz)
  <2>1. WinSz - 1 \in Nat
    BY <1>1
  <2>2. Pow[WinSz - 1] \in Nat
    BY <2>1, PowDef
  <2>3. b * Pow[WinSz - 1] \in Int
    BY <2>2
  <2>4. (b * Pow[WinSz - 1]) % FpMod \in Int
    BY <2>3, ModType
  <2> QED BY <1>3, <2>4 DEF Gout
<1> QED BY <1>2, <1>3

(* The byte that leaves is the one WinSz before the one that enters.       *)
LEMMA PushedOutIs ==
  ASSUME StreamType, ContextInv, NEW buff \in Seq(Bytes), NEW i \in Nat, i < Len(buff)
  PROVE  /\ PushedOut(buff, i) \in Nat
         /\ Len(stream) + i >= WinSz =>
              PushedOut(buff, i) = (stream \o buff)[(Len(stream) + i) - WinSz + 1]
<1> DEFINE n == Len(stream)
           u == stream \o buff
           j == (n + i) - WinSz + 1
<1>1. /\ n \in Nat /\ Len(buff) \in Nat /\ WinSz \in Nat \ {0} /\ Bytes \subseteq Nat
      /\ ctx.tmp_win \in Seq(Nat) /\ Len(ctx.tmp_win) = WinSz
      /\ \A k \in 1..WinSz : ctx.tmp_win[k] = Past(stream, n - WinSz + k)
  BY RabinAssumption, LenProperties DEF StreamType, ContextType, ContextInv
<1>2. /\ \A k \in 1..n : u[k] = stream[k]
      /\ \A k \in 1..Len(buff) : u[n + k] = buff[k]
  <2>1. \A k \in 1..(n + Len(buff)) : u[k] = IF k <= n THEN stream[k] ELSE buff[k - n]
    BY ConcatProperties DEF StreamType
  <2>2. \A k \in 1..n : k \in 1..(n + Len(buff)) /\ k <= n
    BY <1>1
  <2>3. \A k \in 1..Len(buff) :
          n + k \in 1..(n + Len(buff)) /\ ~(n + k <= n) /\ (n + k) - n = k
    BY <1>1
  <2> HIDE DEF u, n
  <2> QED BY <2>1, <2>2, <2>3
<1> HIDE DEF u, n
<1>3. CASE i < WinSz
  <2>1. i + 1 \in 1..WinSz /\ n - WinSz + (i + 1) = j
    BY <1>1, <1>3
  <2>2. PushedOut(buff, i) = ctx.tmp_win[i + 1]
    BY <1>3 DEF PushedOut
  <2>3. PushedOut(buff, i) \in Nat
    BY <1>1, <2>1, <2>2, ElementOfSeq
  <2>4. PushedOut(buff, i) = Past(stream, j)
    BY <1>1, <2>1, <2>2
  <2>5. ASSUME n + i >= WinSz PROVE PushedOut(buff, i) = u[j]
    <3>1. j >= 1 /\ j \in 1..n
      BY <1>1, <1>3, <2>5
    <3> HIDE DEF j
    <3> QED BY <1>2, <2>4, <3>1 DEF Past
  <2> QED BY <2>3, <2>5 DEF u, n
<1>4. CASE ~(i < WinSz)
  <2>1. i - WinSz + 1 \in 1..Len(buff) /\ n + (i - WinSz + 1) = j
    BY <1>1, <1>4
  <2>2. PushedOut(buff, i) = buff[i - WinSz + 1]
    BY <1>4 DEF PushedOut
  <2>3. PushedOut(buff, i) \in Nat
    BY <1>1, <2>1, <2>2, ElementOfSeq
  <2>4. PushedOut(buff, i) = u[j]
    BY <1>2, <2>1, <2>2
  <2> QED BY <2>3, <2>4 DEF u, n
<1> QED BY <1>3, <1>4

(* RollByte, as far as the fingerprint goes.                               *)
LEMMA RollFp ==
  ASSUME StreamType, ContextInv, NEW buff \in Seq(Bytes), NEW i \in Nat, i < Len(buff),
         NEW run \in RunType, RunInv(run, buff, i)
  PROVE  /\ RollByte(run, buff, i).fp \in 0..(FpMod - 1)
         /\ InTable =>
              RollByte(run, buff, i).fp = FpAt(stream \o buff, Len(stream) + i + 1)
<1> DEFINE s == stream \o buff
           q == Len(stream) + i
           out == PushedOut(buff, i)
           fp == IF q >= WinSz THEN run.fp - Gout(out) ELSE run.fp
           b == buff[i + 1]
<1>1. /\ s \in Seq(Bytes) /\ q \in Nat /\ q < Len(s) /\ b \in Nat /\ s[q + 1] = b
  <2>1. Len(stream) \in Nat /\ Len(buff) \in Nat /\ Bytes \subseteq Nat
    BY LenProperties, RabinAssumption DEF StreamType
  <2>2. /\ s \in Seq(Bytes) /\ Len(s) = Len(stream) + Len(buff)
        /\ \A k \in 1..(Len(stream) + Len(buff)) :
             s[k] = IF k <= Len(stream) THEN stream[k] ELSE buff[k - Len(stream)]
    BY ConcatProperties DEF StreamType
  <2>3. q \in Nat /\ q + 1 \in 1..(Len(stream) + Len(buff)) /\ ~(q + 1 <= Len(stream))
        /\ (q + 1) - Len(stream) = i + 1 /\ i + 1 \in 1..Len(buff)
    BY <2>1
  <2>4. b \in Nat
    BY <2>1, <2>3, ElementOfSeq
  <2> HIDE DEF s
  <2>5. s[q + 1] = b
    BY <2>2, <2>3
  <2>6. q < Len(s)
    BY <2>1, <2>2
  <2> QED BY <2>2, <2>3, <2>4, <2>5, <2>6
<1>2. run.fp \in Int /\ run.idx = q /\ (InTable => run.fp = FpAt(s, q))
  <2>1. run.fp \in 0..(FpMod - 1) /\ FpMod \in Nat
    BY RabinAssumption DEF RunType
  <2> QED BY <2>1 DEF RunInv
<1>3. RollByte(run, buff, i).fp = (fp * RAB_P + b) % FpMod
  BY <1>2 DEF RollByte, RunType
<1>4. out \in Nat /\ (q >= WinSz => out = s[q - WinSz + 1])
  BY PushedOutIs
<1>5. Gout(out) \in Int
  BY <1>4, GoutType
<1> HIDE DEF out, b, s
<1>6. fp * RAB_P + b \in Int
  <2>1. fp \in Int
    BY <1>2, <1>5
  <2> HIDE DEF fp
  <2> QED BY <1>1, <2>1 DEF RAB_P
<1>7. (fp * RAB_P + b) % FpMod \in 0..(FpMod - 1)
  BY <1>6, ModType
<1>8. ASSUME InTable PROVE (fp * RAB_P + b) % FpMod = FpAt(s, q + 1)
  <2>1. FpAt(s, q + 1)
           = ((IF q >= WinSz THEN FpAt(s, q) - Gout(s[q - WinSz + 1]) ELSE FpAt(s, q)) * RAB_P
                + s[q + 1]) % FpMod
    <3> HIDE DEF q
    <3> QED BY <1>1, <1>8, RollLemma
  <2>2. fp = IF q >= WinSz THEN FpAt(s, q) - Gout(s[q - WinSz + 1]) ELSE FpAt(s, q)
    BY <1>2, <1>4, <1>8
  <2> HIDE DEF q, fp
  <2> QED BY <1>1, <2>1, <2>2
<1> QED BY <1>3, <1>7, <1>8 DEF s

(* RollByte, all of it.                                                    *)
RolledTo(s, q, list, from, run, i, rolled) ==
  /\ s \in Seq(Bytes) /\ q \in Nat /\ q < Len(s) /\ Len(stream) \in Nat /\ Len(stream) <= q
  /\ list \in Seq(Block) /\ from \in Nat /\ from <= q
  /\ rolled \in RunType
  /\ rolled.idx = q + 1
  /\ InTable => rolled.fp = FpAt(s, q + 1)
  /\ rolled.crc = SubSeq(s, from + 1, q + 1)
  /\ rolled.blk_len = (q + 1) - from
  /\ rolled.in_buff = (i + 1) - run.blk_start
  /\ rolled.tmp_blk = run.tmp_blk
  /\ rolled.blk_start = run.blk_start
  /\ rolled.formed = run.formed

LEMMA RollByteIs ==
  ASSUME StreamType, ContextInv, NEW buff \in Seq(Bytes), NEW i \in Nat, i < Len(buff),
         NEW run \in RunType, RunInv(run, buff, i)
  PROVE  RolledTo(stream \o buff, Len(stream) + i, blocks \o run.formed,
                  LastEnd(blocks \o run.formed), run, i, RollByte(run, buff, i))
<1> SUFFICES ASSUME NEW s, s = stream \o buff, NEW q, q = Len(stream) + i,
                    NEW list, list = blocks \o run.formed, NEW from, from = LastEnd(list),
                    NEW rolled, rolled = RollByte(run, buff, i)
             PROVE  RolledTo(s, q, list, from, run, i, rolled)
  OBVIOUS
<1> DEFINE old == Len(stream)
           b == buff[i + 1]
<1>1. /\ old \in Nat /\ Len(buff) \in Nat /\ q \in Nat
      /\ s \in Seq(Bytes) /\ Len(s) = old + Len(buff)
      /\ b \in Bytes /\ s[q + 1] = b
  <2>1. old \in Nat /\ Len(buff) \in Nat
    BY LenProperties DEF StreamType
  <2>2. /\ s \in Seq(Bytes) /\ Len(s) = old + Len(buff)
        /\ \A k \in 1..(old + Len(buff)) : s[k] = IF k <= old THEN stream[k] ELSE buff[k - old]
    BY ConcatProperties DEF StreamType
  <2> HIDE DEF old
  <2>3. q \in Nat /\ q + 1 \in 1..(old + Len(buff)) /\ ~(q + 1 <= old)
        /\ (q + 1) - old = i + 1 /\ i + 1 \in 1..Len(buff)
    BY <2>1 DEF old
  <2>4. b \in Bytes
    BY <2>3, ElementOfSeq
  <2> QED BY <2>1, <2>2, <2>3, <2>4
<1>2. q < Len(s) /\ old <= q
  BY <1>1
<1>3. list \in Seq(Block) /\ from \in Nat /\ from <= q
  <2>1. blocks \in Seq(Block) /\ run.formed \in Seq(Block)
    BY DEF StreamType, RunType
  <2>2. list \in Seq(Block)
    BY <2>1, ConcatProperties
  <2>3. from <= q
    BY DEF RunInv, Covers
  <2> QED BY <2>2, <2>3, LastEndType
<1>4. /\ rolled.fp \in 0..(FpMod - 1)
      /\ InTable => rolled.fp = FpAt(s, q + 1)
  BY RollFp
<1>5. /\ run.idx = q /\ run.crc = SubSeq(s, from + 1, q) /\ run.blk_len = q - from
      /\ run.in_buff = i - run.blk_start
  BY DEF RunInv
<1>6. /\ run.blk_len \in Nat /\ run.idx \in Nat /\ run.in_buff \in Nat /\ run.blk_start \in Nat
      /\ run.crc \in Seq(Bytes)
  BY DEF RunType
<1>7. /\ rolled.idx = run.idx + 1 /\ rolled.crc = Append(run.crc, b)
      /\ rolled.blk_len = run.blk_len + 1 /\ rolled.in_buff = run.in_buff + 1
      /\ rolled.tmp_blk = run.tmp_blk /\ rolled.blk_start = run.blk_start
      /\ rolled.formed = run.formed
  BY DEF RollByte, RunType
<1>8. rolled.crc = SubSeq(s, from + 1, q + 1)
  <2>1. from + 1 \in Nat \ {0} /\ from + 1 <= q + 1
    BY <1>1, <1>3
  <2> HIDE DEF b
  <2>2. SubSeq(s, from + 1, q + 1) = Append(SubSeq(s, from + 1, q), s[q + 1])
    BY <1>1, <1>2, <2>1, SubSeqNext
  <2> QED BY <1>1, <1>5, <1>7, <2>2
<1>9. rolled \in RunType
  <2>1. Append(run.crc, b) \in Seq(Bytes)
    BY <1>1, <1>6, AppendProperties
  <2>2. run.idx + 1 \in Nat /\ run.blk_len + 1 \in Nat /\ run.in_buff + 1 \in Nat
    BY <1>6
  <2> DEFINE x == Append(run.crc, b)
             y == rolled.fp
  <2>3. rolled = [run EXCEPT !.fp = y, !.crc = x, !.idx = run.idx + 1,
                             !.blk_len = run.blk_len + 1, !.in_buff = run.in_buff + 1]
    BY DEF RollByte, RunType
  <2>4. x \in Seq(Bytes) /\ y \in 0..(FpMod - 1)
    BY <1>4, <2>1
  <2> HIDE DEF x, y
  <2> QED BY <2>2, <2>3, <2>4 DEF RunType
<1>10. rolled.blk_len = (q + 1) - from /\ rolled.in_buff = (i + 1) - run.blk_start
       /\ rolled.idx = q + 1
  <2> DEFINE g == run.blk_start
  <2>1. q \in Nat /\ from \in Nat /\ i \in Nat /\ g \in Nat
    BY <1>1, <1>3, <1>6
  <2> HIDE DEF g
  <2>2. (q - from) + 1 = (q + 1) - from /\ (i - g) + 1 = (i + 1) - g
    BY <2>1
  <2> QED BY <1>5, <1>7, <2>2 DEF g
<1> QED BY <1>1, <1>2, <1>3, <1>4, <1>7, <1>8, <1>9, <1>10 DEF RolledTo

LEMMA TakeByteInv ==
  ASSUME StreamType, ContextInv, NEW buff \in Seq(Bytes), NEW i \in Nat, i < Len(buff),
         NEW run \in RunType, RunInv(run, buff, i)
  PROVE  TakeByte(run, buff, i) \in RunType /\ RunInv(TakeByte(run, buff, i), buff, i + 1)
<1> DEFINE s == stream \o buff
           old == Len(stream)
           q == Len(stream) + i
           list == blocks \o run.formed
           from == LastEnd(list)
           rolled == RollByte(run, buff, i)
<1>1. /\ s \in Seq(Bytes) /\ q \in Nat /\ q < Len(s) /\ old \in Nat /\ old <= q
      /\ list \in Seq(Block) /\ from \in Nat /\ from <= q
      /\ rolled \in RunType
      /\ rolled.idx = q + 1
      /\ InTable => rolled.fp = FpAt(s, q + 1)
      /\ rolled.crc = SubSeq(s, from + 1, q + 1)
      /\ rolled.blk_len = (q + 1) - from
      /\ rolled.in_buff = (i + 1) - run.blk_start
      /\ rolled.tmp_blk = run.tmp_blk
      /\ rolled.blk_start = run.blk_start
      /\ rolled.formed = run.formed
  <2>1. RolledTo(s, q, list, from, run, i, rolled)
    BY RollByteIs
  <2> HIDE DEF s, q, list, from, rolled
  <2> QED BY <2>1 DEF RolledTo
<1>2. /\ old + (i + 1) = q + 1
      /\ run.blk_start = (IF from > old THEN from - old ELSE 0)
      /\ run.tmp_blk = SubSeq(s, from + 1, old)
      /\ Covers(s, q, list) /\ Cut(s, q, list, flushed)
  <2>1. old + (i + 1) = q + 1
    BY <1>1
  <2> QED BY <2>1 DEF RunInv
<1>3. q + 1 \notin flushed
  <2>1. flushed \in SUBSET (1..old)
    BY DEF StreamType
  <2> HIDE DEF q, old
  <2> QED BY <1>1, <2>1
<1>4. run.blk_start \in Nat /\ run.formed \in Seq(Block) /\ blocks \in Seq(Block)
      /\ stream \in Seq(Bytes)
  BY DEF RunType, StreamType
<1> DEFINE Is(n, l, r) ==
      LET fr == LastEnd(l) IN
      /\ r.idx = n
      /\ InTable => r.fp = FpAt(s, n)
      /\ r.crc = SubSeq(s, fr + 1, n)
      /\ r.blk_len = n - fr
      /\ r.blk_start = (IF fr > old THEN fr - old ELSE 0)
      /\ r.in_buff = (i + 1) - r.blk_start
      /\ r.tmp_blk = SubSeq(s, fr + 1, old)
      /\ Covers(s, n, l)
      /\ Cut(s, n, l, flushed)
<1>5. ASSUME NEW r, NEW l, l = blocks \o r.formed, Is(q + 1, l, r)
      PROVE  RunInv(r, buff, i + 1)
  <2> HIDE DEF q
  <2> QED BY <1>2, <1>5 DEF RunInv
<1>6. IsBoundary(rolled) <=> Boundary((q + 1) - from, rolled.fp)
  <2> HIDE DEF rolled, q, from
  <2> QED BY <1>1 DEF IsBoundary, Boundary
<1>7. CASE ~IsBoundary(rolled)
  <2>1. TakeByte(run, buff, i) = rolled
    BY <1>7 DEF TakeByte
  <2> HIDE DEF rolled, s, list, q, old
  <2>2. Covers(s, q + 1, list)
    <3>1. from <= q + 1
      BY <1>1
    <3> QED BY <1>2, <3>1 DEF Covers
  <2>3. Cut(s, q + 1, list, flushed)
    <3>1. CASE InTable
      <4>1. ~IsEnd(s, LastEnd(list), q + 1, flushed)
        BY <1>1, <1>3, <1>6, <1>7, <3>1 DEF IsEnd
      <4> QED BY <1>1, <1>2, <3>1, <4>1, CutNext
    <3>2. CASE ~InTable
      BY <3>2 DEF Cut
    <3> QED BY <3>1, <3>2
  <2>4. list = blocks \o rolled.formed
    BY <1>1 DEF list
  <2>5. Is(q + 1, list, rolled)
    BY <1>1, <1>2, <2>2, <2>3
  <2> HIDE DEF Is
  <2> QED BY <1>1, <1>5, <2>1, <2>4, <2>5
<1>8. CASE IsBoundary(rolled)
  <2> DEFINE made == TakeByte(run, buff, i)
             data == rolled.tmp_blk \o
                       SubSeq(buff, rolled.blk_start + 1, rolled.blk_start + rolled.in_buff)
             blk == [len |-> rolled.blk_len, fp |-> rolled.fp, crc |-> rolled.crc, data |-> data]
             long == Append(list, blk)
  <2>1. made = FormBlock(rolled, buff, i)
    BY <1>8 DEF TakeByte
  <2>2. data = SubSeq(s, from + 1, q + 1) /\ data \in Seq(Bytes)
    <3>1. rolled.blk_start + rolled.in_buff = i + 1
      BY <1>1, <1>4
    <3>2. rolled.tmp_blk = SubSeq(stream, from + 1, old)
      <4>1. SubSeq(s, from + 1, old) = SubSeq(stream, from + 1, old)
        <5>1. from + 1 \in Nat \ {0} /\ old \in Int /\ old <= Len(stream)
          BY <1>1
        <5> HIDE DEF from, old
        <5> QED BY <1>4, <5>1, SubSeqPrefix
      <4> QED BY <1>1, <1>2, <4>1
    <3>3. i + 1 \in 0..Len(buff) /\ from <= old + (i + 1)
      <4>1. Len(buff) \in Nat
        BY LenProperties
      <4> HIDE DEF q, from, old
      <4> QED BY <1>1, <1>2, <4>1
    <3> DEFINE c == IF from > old THEN from - old ELSE 0
    <3>4. rolled.blk_start = c
      BY <1>1, <1>2
    <3>5. data = SubSeq(stream, from + 1, old) \o SubSeq(buff, c + 1, i + 1)
      <4> HIDE DEF from, old, c, rolled
      <4> QED BY <3>1, <3>2, <3>4
    <3>6. SubSeq(stream, from + 1, old) \o SubSeq(buff, c + 1, i + 1)
            = SubSeq(stream \o buff, from + 1, old + (i + 1))
      <4> HIDE DEF from
      <4> QED BY <1>1, <1>4, <3>3, SplitSubSeq
    <3>7. data = SubSeq(s, from + 1, q + 1)
      BY <1>2, <3>5, <3>6
    <3>8. SubSeq(s, from + 1, q + 1) = rolled.crc
      BY <1>1
    <3>9. rolled.crc \in Seq(Bytes)
      <4> HIDE DEF rolled
      <4> QED BY <1>1 DEF RunType
    <3> HIDE DEF data, rolled
    <3> QED BY <3>7, <3>8, <3>9
  <2>3. rolled.fp \in 0..(FpMod - 1) /\ rolled.crc \in Seq(Bytes) /\ rolled.blk_len \in Nat
    <3> HIDE DEF rolled
    <3> QED BY <1>1 DEF RunType
  <2> HIDE DEF data, rolled, s, list, q, old, from
  <2>4. blk \in Block
    BY <2>2, <2>3 DEF Block
  <2>5. /\ made.idx = rolled.idx /\ made.fp = rolled.fp /\ made.crc = <<>> /\ made.blk_len = 0
        /\ made.tmp_blk = <<>> /\ made.in_buff = 0 /\ made.blk_start = i + 1
        /\ made.formed = Append(rolled.formed, blk)
    <3> HIDE DEF made
    <3> QED BY <1>1, <2>1 DEF FormBlock, RunType, data
  <2>6. made \in RunType
    <3>1. Append(rolled.formed, blk) \in Seq(Block)
      <4> HIDE DEF blk
      <4> QED BY <1>1, <1>4, <2>4, AppendProperties
    <3>2. made = [rolled EXCEPT !.formed = Append(rolled.formed, blk), !.blk_len = 0,
                    !.in_buff = 0, !.blk_start = i + 1, !.crc = <<>>, !.tmp_blk = <<>>]
      <4> HIDE DEF made
      <4> QED BY <1>1, <2>1 DEF FormBlock, RunType, data
    <3> DEFINE f == Append(rolled.formed, blk)
    <3>3. f \in Seq(Block) /\ <<>> \in Seq(Bytes) /\ i + 1 \in Nat /\ 0 \in Nat
      BY <3>1, EmptySeq
    <3>4. made = [rolled EXCEPT !.formed = f, !.blk_len = 0,
                    !.in_buff = 0, !.blk_start = i + 1, !.crc = <<>>, !.tmp_blk = <<>>]
      BY <3>2
    <3> HIDE DEF made, f
    <3> QED BY <1>1, <3>3, <3>4 DEF RunType
  <2> HIDE DEF made
  <2>7. BlockAt(s, blk, from, q + 1)
    <3>1. from < q + 1
      BY <1>1
    <3> QED BY <1>1, <2>2, <3>1 DEF BlockAt
  <2>8. Covers(s, q + 1, long) /\ LastEnd(long) = q + 1
    <3> HIDE DEF blk
    <3> QED BY <1>1, <1>2, <2>4, <2>7, CoversAppend DEF from
  <2>9. Cut(s, q + 1, long, flushed)
    <3>1. CASE InTable
      <4>1. IsEnd(s, LastEnd(list), q + 1, flushed)
        BY <1>1, <1>6, <1>8, <3>1 DEF IsEnd, from
      <4> HIDE DEF blk
      <4> QED BY <1>1, <1>2, <2>4, <2>8, <3>1, <4>1, CutAppend DEF from
    <3>2. CASE ~InTable
      BY <3>2 DEF Cut
    <3> QED BY <3>1, <3>2
  <2>10. long = blocks \o made.formed
    <3> HIDE DEF blk
    <3>1. made.formed = Append(run.formed, blk)
      BY <1>1, <2>5
    <3>2. blocks \o Append(run.formed, blk) = Append(blocks \o run.formed, blk)
      BY <1>4, <2>4, ConcatAppend
    <3> QED BY <3>1, <3>2 DEF list
  <2>11. /\ SubSeq(s, (q + 1) + 1, q + 1) = <<>> /\ SubSeq(s, (q + 1) + 1, old) = <<>>
         /\ q + 1 > old /\ (q + 1) - old = i + 1
    <3>1. (q + 1) + 1 > q + 1 /\ (q + 1) + 1 > old /\ q + 1 > old /\ (q + 1) - old = i + 1
      <4>1. q = old + i
        BY DEF q, old
      <4> QED BY <1>1, <4>1
    <3>2. (q + 1) + 1 \in Int /\ q + 1 \in Int /\ old \in Int
      BY <1>1
    <3> QED BY <3>1, <3>2, SubSeqEmpty
  <2>12. Is(q + 1, long, made)
    <3>1. InTable => made.fp = FpAt(s, q + 1)
      BY <1>1, <2>5
    <3>2. (q + 1) - (q + 1) = 0 /\ (i + 1) - (i + 1) = 0
      BY <1>1
    <3> HIDE DEF long
    <3> QED BY <1>1, <2>5, <2>8, <2>9, <2>11, <3>1, <3>2
  <2> HIDE DEF Is, long
  <2> QED BY <1>5, <2>6, <2>10, <2>12 DEF made
<1> QED BY <1>7, <1>8

(* What is known of a stream stays true when bytes are added to it.        *)
LEMMA FpPrefix ==
  ASSUME NEW s \in Seq(Bytes), NEW t \in Seq(Bytes), NEW p \in Nat, p <= Len(s)
  PROVE  FpAt(s \o t, p) = FpAt(s, p)
<1> DEFINE a == IF p > WinSz THEN p - WinSz + 1 ELSE 1
<1>1. a \in Nat \ {0} /\ p \in Int
  BY RabinAssumption
<1> HIDE DEF a
<1>2. SubSeq(s \o t, a, p) = SubSeq(s, a, p)
  BY <1>1, SubSeqPrefix
<1> QED BY <1>2 DEF FpAt, Window, a

LEMMA CoversPrefix ==
  ASSUME NEW s \in Seq(Bytes), NEW t \in Seq(Bytes), NEW q \in Nat, q <= Len(s),
         NEW list \in Seq(Block), Covers(s, q, list)
  PROVE  Covers(s \o t, q, list)
<1> DEFINE u == s \o t
<1>1. Len(s) \in Nat /\ LastEnd(list) <= q /\ LastEnd(list) \in Nat
  BY LenProperties, LastEndType DEF Covers
<1>2. ASSUME NEW n \in 1..Len(list)
      PROVE  BlockAt(u, list[n], EndOf(list)[n-1], EndOf(list)[n])
  <2> DEFINE from == EndOf(list)[n-1]
             to == EndOf(list)[n]
  <2>1. n - 1 \in 0..Len(list) /\ n \in 0..Len(list) /\ Len(list) \in 0..Len(list) /\ n <= Len(list)
    BY LastEndType
  <2>2. from \in Nat /\ to \in Nat /\ to <= LastEnd(list)
    <3>1. from \in Nat /\ to \in Nat
      BY <2>1, EndDef
    <3>2. to <= EndOf(list)[Len(list)]
      BY <2>1, EndsOrdered
    <3> HIDE DEF from, to
    <3> QED BY <3>1, <3>2 DEF LastEnd
  <2>3. BlockAt(s, list[n], from, to)
    BY DEF Covers
  <2> HIDE DEF from, to, u
  <2>4. from + 1 \in Nat \ {0} /\ to \in Int /\ to <= Len(s)
    BY <1>1, <2>2
  <2>5. SubSeq(u, from + 1, to) = SubSeq(s, from + 1, to)
    BY <2>4, SubSeqPrefix DEF u
  <2>6. FpAt(u, to) = FpAt(s, to)
    BY <2>2, <2>4, FpPrefix DEF u
  <2>7. BlockAt(u, list[n], from, to)
    BY <2>3, <2>5, <2>6 DEF BlockAt
  <2> QED BY <2>7 DEF from, to
<1> HIDE DEF u
<1>3. Covers(u, q, list)
  BY <1>1, <1>2 DEF Covers
<1> QED BY <1>3 DEF u

LEMMA CutPrefix ==
  ASSUME NEW s \in Seq(Bytes), NEW t \in Seq(Bytes), NEW q \in Nat, q <= Len(s),
         NEW list \in Seq(Block), LastEnd(list) <= q, NEW flushes, Cut(s, q, list, flushes)
  PROVE  Cut(s \o t, q, list, flushes)
<1> DEFINE u == s \o t
<1>1. Len(s) \in Nat
  BY LenProperties
<1>2. \A p \in Nat : p <= q => FpAt(u, p) = FpAt(s, p)
  BY <1>1, FpPrefix
<1> HIDE DEF u
<1>3. \A from, p : p \in Nat /\ p <= q => (IsEnd(u, from, p, flushes) <=> IsEnd(s, from, p, flushes))
  BY <1>2 DEF IsEnd
<1>4. ASSUME NEW n \in 1..Len(list)
      PROVE  EndOf(list)[n] \in Nat /\ EndOf(list)[n] <= q
  <2>1. n \in 0..Len(list) /\ Len(list) \in 0..Len(list) /\ n <= Len(list)
    BY LastEndType
  <2>2. EndOf(list)[n] \in Nat /\ EndOf(list)[n] <= LastEnd(list)
    BY <2>1, EndDef, EndsOrdered DEF LastEnd
  <2> DEFINE e == EndOf(list)[n]
  <2> HIDE DEF e
  <2>3. LastEnd(list) \in Nat /\ e \in Nat /\ e <= LastEnd(list)
    BY <2>2, LastEndType DEF e
  <2>4. e <= q
    BY <2>3
  <2> QED BY <2>3, <2>4 DEF e
<1>5. ASSUME InTable, NEW n \in 1..Len(list)
      PROVE  IsEnd(u, EndOf(list)[n-1], EndOf(list)[n], flushes)
  BY <1>3, <1>4, <1>5 DEF Cut
<1>6. ASSUME InTable, NEW n \in 0..Len(list), NEW p \in 1..q,
             EndOf(list)[n] < p, n < Len(list) => p < EndOf(list)[n+1]
      PROVE  ~IsEnd(u, EndOf(list)[n], p, flushes)
  <2>1. p \in Nat /\ p <= q
    OBVIOUS
  <2>2. ~IsEnd(s, EndOf(list)[n], p, flushes)
    BY <1>6 DEF Cut
  <2> QED BY <1>3, <2>1, <2>2
<1>7. Cut(u, q, list, flushes)
  BY <1>5, <1>6 DEF Cut
<1> QED BY <1>7 DEF u

LEMMA PastConcat ==
  ASSUME NEW s \in Seq(Bytes), NEW t \in Seq(Bytes), NEW k \in Int, k <= Len(s) + Len(t)
  PROVE  Past(s \o t, k) = IF k <= Len(s) THEN Past(s, k) ELSE t[k - Len(s)]
<1> DEFINE n == Len(s)
           u == s \o t
<1>1. n \in Nat /\ Len(t) \in Nat
  BY LenProperties
<1>2. \A j \in 1..(n + Len(t)) : u[j] = IF j <= n THEN s[j] ELSE t[j - n]
  BY ConcatProperties
<1> HIDE DEF u
<1>3. CASE k >= 1
  <2>1. k \in 1..(n + Len(t))
    BY <1>1, <1>3
  <2>2. u[k] = IF k <= n THEN s[k] ELSE t[k - n]
    BY <1>2, <2>1
  <2> QED BY <1>3, <2>2 DEF Past, u
<1>4. CASE ~(k >= 1)
  <2>1. k <= n
    BY <1>1, <1>4
  <2> QED BY <1>4, <2>1 DEF Past, u
<1> QED BY <1>3, <1>4

(* The window holds the last WinSz bytes.                                  *)
LEMMA NewWindowIs ==
  ASSUME StreamType, ContextInv, NEW buff \in Seq(Bytes)
  PROVE  /\ NewWindow(buff) \in Seq(Nat) /\ Len(NewWindow(buff)) = WinSz
         /\ \A i \in 1..WinSz :
              NewWindow(buff)[i]
                = Past(stream \o buff, (Len(stream) + Len(buff)) - WinSz + i)
<1> DEFINE n == Len(stream)
           m == Len(buff)
           W == WinSz
           u == stream \o buff
           win == ctx.tmp_win
           new == NewWindow(buff)
<1>1. /\ n \in Nat /\ m \in Nat /\ W \in Nat \ {0} /\ stream \in Seq(Bytes)
      /\ win \in Seq(Nat) /\ Len(win) = W /\ buff \in Seq(Nat)
      /\ \A i \in 1..W : win[i] = Past(stream, n - W + i)
  <2>1. n \in Nat /\ m \in Nat /\ stream \in Seq(Bytes)
    BY LenProperties DEF StreamType
  <2>2. buff \in Seq(Nat)
    BY RabinAssumption, SeqMonotonic
  <2> QED BY <2>1, <2>2, RabinAssumption DEF StreamType, ContextType, ContextInv
<1>2. \A k \in Int : k <= n + m => Past(u, k) = IF k <= n THEN Past(stream, k) ELSE buff[k - n]
  BY <1>1, PastConcat
<1> HIDE DEF n, u, win
<1>3. CASE m < W
  <2> DEFINE x == SubSeq(win, m + 1, W)
             d == W - m
  <2>1. new = x \o buff
    BY <1>3 DEF NewWindow, win
  <2>2. x \in Seq(Nat) /\ Len(x) = d /\ \A i \in 1..d : x[i] = win[m + i]
    <3>1. m + 1 \in Nat \ {0} /\ W \in Int /\ W <= Len(win) /\ m + 1 <= W
          /\ W - (m + 1) + 1 = d /\ \A i \in 1..d : (m + 1) + i - 1 = m + i
      BY <1>1, <1>3
    <3> DEFINE a == m + 1
    <3>3. a \in Nat \ {0} /\ W \in Int /\ W <= Len(win) /\ win \in Seq(Nat)
      BY <1>1, <3>1
    <3> HIDE DEF a, x, W, m
    <3>2. /\ SubSeq(win, a, W) \in Seq(Nat)
          /\ Len(SubSeq(win, a, W)) = IF a <= W THEN W - a + 1 ELSE 0
          /\ \A i \in 1..(W - a + 1) : SubSeq(win, a, W)[i] = win[a + i - 1]
      BY <3>3, SubSeqType
    <3> QED BY <3>1, <3>2 DEF a, x
  <2> HIDE DEF x, new
  <2>3. /\ new \in Seq(Nat) /\ Len(new) = Len(x) + m
        /\ \A i \in 1..(Len(x) + m) : new[i] = IF i <= Len(x) THEN x[i] ELSE buff[i - Len(x)]
    BY <1>1, <2>1, <2>2, ConcatProperties
  <2> HIDE DEF m
  <2>4. d + m = W /\ d \in Nat
    BY <1>1, <1>3
  <2>5. ASSUME NEW i \in 1..W PROVE new[i] = Past(u, (n + m) - W + i)
    <3> DEFINE k == (n + m) - W + i
    <3>1. k \in Int /\ k <= n + m
      BY <1>1
    <3>2. new[i] = IF i <= d THEN x[i] ELSE buff[i - d]
      BY <2>2, <2>3, <2>4
    <3>3. CASE i <= d
      <4>1. i \in 1..d /\ m + i \in 1..W /\ k <= n /\ n - W + (m + i) = k
        BY <1>1, <3>3
      <4> HIDE DEF k, d
      <4> QED BY <1>1, <1>2, <2>2, <3>1, <3>2, <3>3, <4>1 DEF k
    <3>4. CASE ~(i <= d)
      <4>1. ~(k <= n) /\ k - n = i - d
        BY <1>1, <3>4
      <4> HIDE DEF k, d
      <4> QED BY <1>2, <3>1, <3>2, <3>4, <4>1 DEF k
    <3> QED BY <3>3, <3>4
  <2> QED BY <2>2, <2>3, <2>4, <2>5 DEF new, m, u, n
<1>4. CASE ~(m < W)
  <2> DEFINE a == m - W + 1
  <2>1. new = SubSeq(buff, a, m)
    BY <1>4 DEF NewWindow
  <2>2. a \in Nat \ {0} /\ m \in Int /\ m <= Len(buff) /\ a <= m /\ m - a + 1 = W
        /\ \A i \in 1..W : a + i - 1 = m - W + i
    BY <1>1, <1>4
  <2> HIDE DEF a, new
  <2>3. /\ new \in Seq(Nat) /\ Len(new) = W /\ \A i \in 1..W : new[i] = buff[m - W + i]
    <3>2. buff \in Seq(Nat) /\ a \in Nat \ {0} /\ m \in Int /\ m <= Len(buff)
      BY <1>1, <2>2
    <3> HIDE DEF W, m
    <3>1. /\ new \in Seq(Nat) /\ Len(new) = IF a <= m THEN m - a + 1 ELSE 0
          /\ \A i \in 1..(m - a + 1) : new[i] = buff[a + i - 1]
      BY <2>1, <3>2, SubSeqType
    <3> QED BY <2>2, <3>1
  <2> HIDE DEF m
  <2>4. ASSUME NEW i \in 1..W PROVE new[i] = Past(u, (n + m) - W + i)
    <3> DEFINE k == (n + m) - W + i
    <3>1. k \in Int /\ k <= n + m /\ ~(k <= n) /\ k - n = m - W + i
      BY <1>1, <1>4
    <3> HIDE DEF k
    <3> QED BY <1>2, <2>3, <3>1 DEF k
  <2> QED BY <2>3, <2>4 DEF new, m, u, n
<1> QED BY <1>3, <1>4

-----------------------------------------------------------------------------
(* The invariant.                                                          *)
LEMMA ScanInv ==
  ASSUME RabinInv, NEW buff \in Seq(Bytes)
  PROVE  /\ Scan(buff)[Len(buff)] \in RunType
         /\ RunInv(Scan(buff)[Len(buff)], buff, Len(buff))
<1> DEFINE m == Len(buff)
           start == [idx |-> ctx.idx, fp |-> ctx.fp, crc |-> ctx.crc, blk_len |-> ctx.blk_len,
                     tmp_blk |-> ctx.tmp_blk, in_buff |-> 0, blk_start |-> 0, formed |-> <<>>]
           T == [n \in 0..m |-> {run \in RunType : RunInv(run, buff, n)}]
           step == [p \in (1..m) \X RunType |-> TakeByte(p[2], buff, p[1] - 1)]
           Body(f) == [n \in 0..m |-> IF n = 0 THEN start ELSE TakeByte(f[n-1], buff, n - 1)]
<1>1. m \in Nat /\ StreamType /\ ContextInv
  BY LenProperties DEF RabinInv
<1>2. start \in RunType /\ RunInv(start, buff, 0)
  <2> DEFINE n == Len(stream)
             from == LastEnd(blocks)
             u == stream \o buff
  <2>1. /\ stream \in Seq(Bytes) /\ blocks \in Seq(Block) /\ n \in Nat /\ from \in Nat /\ from <= n
        /\ n <= Len(stream)
        /\ ctx \in ContextType
    BY LenProperties, LastEndType DEF RabinInv, StreamType, Covers
  <2>2. start \in RunType
    <3>1. <<>> \in Seq(Block)
      BY EmptySeq
    <3> QED BY <2>1, <3>1 DEF RunType, ContextType
  <2>3. blocks \o start.formed = blocks
    BY <2>1, ConcatEmptySeq
  <2>4. Covers(u, n, blocks) /\ Cut(u, n, blocks, flushed)
    <3>1. Covers(stream, n, blocks) /\ Cut(stream, n, blocks, flushed) /\ from <= n
      BY DEF RabinInv, Covers
    <3> HIDE DEF n
    <3> QED BY <2>1, <3>1, CoversPrefix, CutPrefix
  <2>5. SubSeq(u, from + 1, n) = SubSeq(stream, from + 1, n)
    <3>1. from + 1 \in Nat \ {0} /\ n \in Int /\ n <= Len(stream)
      BY <2>1
    <3> HIDE DEF from, n
    <3> QED BY <2>1, <3>1, SubSeqPrefix
  <2>6. FpAt(u, n) = FpAt(stream, n)
    <3> HIDE DEF n
    <3> QED BY <2>1, FpPrefix
  <2>7. /\ ctx.idx = n /\ (InTable => ctx.fp = FpAt(u, n))
        /\ ctx.tmp_blk = SubSeq(u, from + 1, n) /\ ctx.crc = SubSeq(u, from + 1, n)
        /\ ctx.blk_len = n - from
    <3>1. Len(SubSeq(stream, from + 1, n)) = n - from
      <4>1. from + 1 \in Nat \ {0} /\ n \in Int /\ n <= Len(stream)
            /\ (from + 1 <= n => n - (from + 1) + 1 = n - from)
            /\ (~(from + 1 <= n) => n - from = 0)
        BY <2>1
      <4> HIDE DEF from, n
      <4> QED BY <2>1, <4>1, SubSeqType
    <3> QED BY <2>5, <2>6, <3>1 DEF RabinInv, ContextInv
  <2>8. n + 0 = n /\ 0 - 0 = 0 /\ ~(from > n)
    BY <2>1
  <2> HIDE DEF u, n, from
  <2>9. RunInv(start, buff, 0)
    BY <2>3, <2>4, <2>7, <2>8 DEF RunInv, u, n, from
  <2> QED BY <2>2, <2>9
<1> HIDE DEF start
<1>3. Carries(T, step, m) /\ start \in T[0]
  <2>1. start \in T[0]
    BY <1>1, <1>2
  <2>2. ASSUME NEW n \in 1..m, NEW x \in T[n-1] PROVE step[<<n, x>>] \in T[n]
    <3>1. n - 1 \in 0..m /\ n \in 0..m /\ n - 1 \in Nat /\ n - 1 < m /\ (n - 1) + 1 = n
      BY <1>1
    <3>2. x \in RunType /\ RunInv(x, buff, n - 1)
      BY <3>1
    <3>3. step[<<n, x>>] = TakeByte(x, buff, n - 1)
      BY <3>2
    <3>4. TakeByte(x, buff, n - 1) \in RunType /\ RunInv(TakeByte(x, buff, n - 1), buff, (n - 1) + 1)
      BY <1>1, <3>1, <3>2, TakeByteInv
    <3> DEFINE y == TakeByte(x, buff, n - 1)
    <3> HIDE DEF y, step
    <3>5. y \in RunType /\ RunInv(y, buff, n) /\ step[<<n, x>>] = y
      BY <3>1, <3>3, <3>4 DEF y
    <3> QED BY <3>1, <3>5
  <2> QED BY <2>1, <2>2 DEF Carries
<1>4. PICK f : Recurs(f, m, start, step) /\ \A n \in 0..m : f[n] \in T[n]
  <2> HIDE DEF m, T, step
  <2> QED BY <1>1, <1>3, Recurrence
<1>5. f = Body(f)
  <2>1. ASSUME NEW n \in 0..m, n # 0 PROVE step[<<n, f[n-1]>>] = TakeByte(f[n-1], buff, n - 1)
    <3>1. n \in 1..m /\ n - 1 \in 0..m
      BY <1>1, <2>1
    <3>2. f[n-1] \in RunType
      BY <3>1, <1>4
    <3> QED BY <3>1, <3>2
  <2> HIDE DEF step
  <2> QED BY <2>1, <1>4 DEF Recurs
<1> DEFINE h == Scan(buff)
<1>6. h = Body(h)
  BY <1>5 DEF Scan, start
<1> HIDE DEF h
<1>7. h[0] = start /\ \A n \in 1..m : h[n] = TakeByte(h[n-1], buff, n - 1)
  <2>1. 0 \in 0..m /\ \A n \in 1..m : n \in 0..m /\ n # 0
    BY <1>1
  <2> HIDE DEF m
  <2> QED BY <2>1, <1>6
<1>8. \A n \in 0..m : h[n] \in T[n]
  <2>1. ASSUME NEW n \in 1..m, h[n-1] \in T[n-1] PROVE h[n] = step[<<n, h[n-1]>>]
    <3>1. n - 1 \in 0..m
      BY <1>1
    <3>2. h[n-1] \in RunType
      BY <2>1, <3>1
    <3> QED BY <3>2, <1>7
  <2>2. h[0] \in T[0]
    <3> HIDE DEF T
    <3> QED BY <1>3, <1>7
  <2> HIDE DEF m, T, step
  <2> QED BY <1>1, <1>3, <2>1, <2>2, RecurrenceType
<1>9. h[m] \in T[m] /\ m \in 0..m
  BY <1>1, <1>8
<1>10. h[m] \in RunType /\ RunInv(h[m], buff, m)
  <2> DEFINE y == h[m]
  <2>1. y \in {run \in RunType : RunInv(run, buff, m)}
    <3> HIDE DEF m, h
    <3> QED BY <1>9
  <2> HIDE DEF y
  <2>2. y \in RunType /\ RunInv(y, buff, m)
    BY <2>1
  <2> QED BY <2>2 DEF y
<1> QED BY <1>10 DEF h

LEMMA CompressBufferInv ==
  ASSUME RabinInv, NEW buff \in Seq(Bytes), CompressBuffer(buff)
  PROVE  RabinInv'
<1> DEFINE run == Scan(buff)[Len(buff)]
           m == Len(buff)
           n == Len(stream)
           s == stream \o buff
           list == blocks \o run.formed
           from == LastEnd(list)
           tmp == run.tmp_blk \o SubSeq(buff, run.blk_start + 1, m)
<1>1. /\ StreamType /\ ContextInv /\ stream \in Seq(Bytes) /\ blocks \in Seq(Block)
      /\ n \in Nat /\ m \in Nat /\ flushed \in SUBSET (1..n)
  BY LenProperties DEF RabinInv, StreamType
<1>2. run \in RunType /\ RunInv(run, buff, m)
  BY ScanInv
<1>3. /\ ctx' = [idx |-> run.idx, fp |-> run.fp, crc |-> run.crc, blk_len |-> run.blk_len,
                 tmp_blk |-> tmp, tmp_win |-> NewWindow(buff)]
      /\ blocks' = list /\ stream' = s /\ flushed' = flushed
  BY DEF CompressBuffer
<1> HIDE DEF run
<1>4. /\ s \in Seq(Bytes) /\ Len(s) = n + m /\ list \in Seq(Block) /\ from \in Nat /\ from <= n + m
  <2>1. s \in Seq(Bytes) /\ Len(s) = n + m
    BY <1>1, ConcatProperties
  <2>2. list \in Seq(Block)
    BY <1>1, <1>2, ConcatProperties DEF RunType
  <2>3. from <= n + m
    BY <1>2 DEF RunInv, Covers
  <2> QED BY <2>1, <2>2, <2>3, LastEndType
<1> HIDE DEF tmp
<1>5. /\ run.idx = n + m /\ (InTable => run.fp = FpAt(s, n + m))
      /\ run.crc = SubSeq(s, from + 1, n + m) /\ run.blk_len = (n + m) - from
      /\ run.blk_start = (IF from > n THEN from - n ELSE 0)
      /\ run.tmp_blk = SubSeq(s, from + 1, n)
      /\ Covers(s, n + m, list) /\ Cut(s, n + m, list, flushed)
  BY <1>2 DEF RunInv
<1>6. tmp = SubSeq(s, from + 1, n + m)
  <2>1. SubSeq(s, from + 1, n) = SubSeq(stream, from + 1, n)
    <3>1. from + 1 \in Nat \ {0} /\ n \in Int /\ n <= Len(stream)
      BY <1>1, <1>4
    <3> HIDE DEF from, n
    <3> QED BY <1>1, <3>1, SubSeqPrefix
  <2> DEFINE c == IF from > n THEN from - n ELSE 0
  <2>2. tmp = SubSeq(stream, from + 1, n) \o SubSeq(buff, c + 1, m)
    <3>1. run.blk_start = c
      BY <1>5
    <3> HIDE DEF c, n, from
    <3> QED BY <1>5, <2>1, <3>1 DEF tmp
  <2>3. m \in 0..Len(buff) /\ from <= n + m
    BY <1>1, <1>4
  <2>4. SubSeq(stream, from + 1, n) \o SubSeq(buff, c + 1, m) = SubSeq(s, from + 1, n + m)
    <3> HIDE DEF from
    <3> QED BY <1>1, <1>4, <2>3, SplitSubSeq
  <2> QED BY <2>2, <2>4
<1>7. Len(tmp) = (n + m) - from
  <2> DEFINE e == n + m
             a == from + 1
  <2>1. a \in Nat \ {0} /\ e \in Int /\ e <= Len(s)
        /\ (a <= e => e - a + 1 = e - from)
        /\ (~(a <= e) => e - from = 0)
    BY <1>1, <1>4
  <2>2. Len(SubSeq(s, a, e)) = IF a <= e THEN e - a + 1 ELSE 0
    <3> HIDE DEF a, e, s
    <3> QED BY <1>4, <2>1, SubSeqType
  <2> HIDE DEF a
  <2>3. Len(SubSeq(s, a, e)) = e - from
    BY <2>1, <2>2
  <2> QED BY <1>6, <2>3 DEF a
<1>8. tmp \in Seq(Bytes)
  BY <1>2, <1>5, <1>6 DEF RunType
<1>9. /\ NewWindow(buff) \in Seq(Nat) /\ Len(NewWindow(buff)) = WinSz
      /\ \A i \in 1..WinSz : NewWindow(buff)[i] = Past(s, (n + m) - WinSz + i)
  BY <1>1, NewWindowIs
<1> HIDE DEF from, list, s
<1>10. /\ ctx'.idx = n + m /\ ctx'.fp = run.fp /\ ctx'.crc = tmp /\ ctx'.blk_len = Len(tmp)
       /\ ctx'.tmp_blk = tmp /\ ctx'.tmp_win = NewWindow(buff)
  BY <1>3, <1>5, <1>6, <1>7
<1>11. StreamType'
  <2>1. ctx' \in ContextType
    <3> DEFINE w == NewWindow(buff)
    <3>1. w \in Seq(Nat)
      BY <1>9
    <3>2. ctx' = [idx |-> run.idx, fp |-> run.fp, crc |-> run.crc, blk_len |-> run.blk_len,
                  tmp_blk |-> tmp, tmp_win |-> w]
      BY <1>3
    <3> HIDE DEF w
    <3> QED BY <1>2, <1>8, <3>1, <3>2 DEF RunType, ContextType
  <2>2. flushed' \in SUBSET (1..Len(stream'))
    <3>1. 1..n \subseteq 1..(n + m)
      BY <1>1
    <3> QED BY <1>1, <1>3, <1>4, <3>1
  <2>3. Len(ctx'.tmp_win) = WinSz
    BY <1>9, <1>10
  <2> QED BY <1>3, <1>4, <2>1, <2>2, <2>3 DEF StreamType
<1>12. ContextInv'
  <2>1. Len(stream') = n + m /\ LastEnd(blocks') = from
    BY <1>3, <1>4 DEF from
  <2>2. InTable => ctx'.fp = FpAt(stream', Len(stream'))
    BY <1>3, <1>5, <1>10, <2>1
  <2>3. ctx'.tmp_blk = SubSeq(stream', LastEnd(blocks') + 1, Len(stream'))
    BY <1>3, <1>6, <1>10, <2>1
  <2>4. \A i \in 1..WinSz : ctx'.tmp_win[i] = Past(stream', Len(stream') - WinSz + i)
    BY <1>3, <1>9, <1>10, <2>1
  <2> HIDE DEF n, m
  <2> QED BY <1>10, <2>1, <2>2, <2>3, <2>4 DEF ContextInv
<1>13. Covers(stream', Len(stream'), blocks') /\ Cut(stream', Len(stream'), blocks', flushed')
  BY <1>3, <1>4, <1>5
<1> QED BY <1>11, <1>12, <1>13 DEF RabinInv

(* A flush ends the last block at the byte seen last.                      *)
LEMMA CutFlush ==
  ASSUME InTable, NEW s, NEW q \in Nat, NEW list \in Seq(Block), NEW flushes,
         LastEnd(list) < q, Cut(s, q, list, flushes)
  PROVE  Cut(s, q - 1, list, flushes \cup {q})
<1> DEFINE more == flushes \cup {q}
<1>1. \A from, p : p # q => (IsEnd(s, from, p, more) <=> IsEnd(s, from, p, flushes))
  BY DEF IsEnd
<1>2. \A from, p : IsEnd(s, from, p, flushes) => IsEnd(s, from, p, more)
  BY DEF IsEnd
<1> HIDE DEF more
<1>3. ASSUME NEW n \in 1..Len(list)
      PROVE  IsEnd(s, EndOf(list)[n-1], EndOf(list)[n], more)
  BY <1>2 DEF Cut
<1>4. ASSUME NEW n \in 0..Len(list), NEW p \in 1..(q - 1),
             EndOf(list)[n] < p, n < Len(list) => p < EndOf(list)[n+1]
      PROVE  ~IsEnd(s, EndOf(list)[n], p, more)
  <2>1. p \in 1..q /\ p # q
    OBVIOUS
  <2> QED BY <1>1, <1>4, <2>1 DEF Cut
<1> QED BY <1>3, <1>4 DEF Cut, more

LEMMA FlushInv ==
  ASSUME RabinInv, Flush
  PROVE  RabinInv'
<1> DEFINE q == Len(stream)
           r == q - 1
           from == LastEnd(blocks)
           blk == [len |-> Len(ctx.tmp_blk), fp |-> ctx.fp, crc |-> ctx.crc, data |-> ctx.tmp_blk]
           long == Append(blocks, blk)
<1>1. /\ StreamType /\ ContextInv /\ stream \in Seq(Bytes) /\ blocks \in Seq(Block)
      /\ q \in Nat /\ flushed \in SUBSET (1..q) /\ ctx \in ContextType
      /\ from \in Nat /\ from <= q
      /\ Covers(stream, q, blocks) /\ Cut(stream, q, blocks, flushed)
  BY LenProperties, LastEndType DEF RabinInv, StreamType, Covers
<1>2. /\ ctx.tmp_blk # <<>>
      /\ ctx' = [ctx EXCEPT !.tmp_blk = <<>>, !.crc = <<>>, !.blk_len = 0]
      /\ blocks' = long /\ stream' = stream /\ flushed' = flushed \cup {q}
  BY DEF Flush
<1>3. /\ ctx.idx = q /\ (InTable => ctx.fp = FpAt(stream, q))
      /\ ctx.tmp_blk = SubSeq(stream, from + 1, q) /\ ctx.crc = ctx.tmp_blk
  BY <1>1 DEF ContextInv
<1>4. /\ ctx.tmp_blk \in Seq(Bytes) /\ ctx.fp \in 0..(FpMod - 1) /\ ctx.crc \in Seq(Bytes)
  BY <1>1 DEF ContextType
<1>5. from < q /\ Len(ctx.tmp_blk) = q - from
  <2> DEFINE a == from + 1
  <2>1. a \in Nat \ {0} /\ q \in Int /\ q <= Len(stream) /\ (a <= q => q - a + 1 = q - from)
    BY <1>1
  <2>2. Len(SubSeq(stream, a, q)) = IF a <= q THEN q - a + 1 ELSE 0
    <3> HIDE DEF a, q
    <3> QED BY <1>1, <2>1, SubSeqType
  <2>3. CASE a <= q
    <3>1. from < q
      BY <1>1, <2>3
    <3> HIDE DEF a
    <3> QED BY <1>3, <2>1, <2>2, <2>3, <3>1 DEF a
  <2>4. CASE ~(a <= q)
    <3>1. Len(ctx.tmp_blk) = 0
      <4> HIDE DEF a
      <4> QED BY <1>3, <2>2, <2>4 DEF a
    <3>2. ctx.tmp_blk = <<>>
      BY <1>4, <3>1, EmptySeq
    <3> QED BY <1>2, <3>2
  <2> QED BY <2>3, <2>4
<1>6. r \in Nat /\ r + 1 = q /\ from <= r
  BY <1>1, <1>5
<1> HIDE DEF q, r, from
<1>7. blk \in Block
  <2>1. Len(ctx.tmp_blk) \in Nat
    BY <1>4, LenProperties
  <2> QED BY <1>4, <2>1 DEF Block
<1>8. BlockAt(stream, blk, from, r + 1)
  BY <1>3, <1>5, <1>6 DEF BlockAt
<1> HIDE DEF blk
<1>9. Covers(stream, r, blocks)
  BY <1>1, <1>6 DEF Covers, from
<1>10. Covers(stream, r + 1, long) /\ LastEnd(long) = r + 1
  BY <1>1, <1>6, <1>7, <1>8, <1>9, CoversAppend DEF from
<1>11. Cut(stream, r + 1, long, flushed')
  <2>1. CASE InTable
    <3>1. Cut(stream, r, blocks, flushed')
      <4>1. Cut(stream, q - 1, blocks, flushed \cup {q})
        BY <1>1, <1>5, <2>1, CutFlush DEF from
      <4> QED BY <1>2, <4>1 DEF r
    <3>2. IsEnd(stream, LastEnd(blocks), r + 1, flushed')
      BY <1>2, <1>6 DEF IsEnd
    <3>3. LastEnd(blocks) <= r
      BY <1>6 DEF from
    <3> HIDE DEF long
    <3> QED BY <1>1, <1>6, <1>7, <1>10, <2>1, <3>1, <3>2, <3>3, CutAppend DEF long
  <2>2. CASE ~InTable
    BY <2>2 DEF Cut
  <2> QED BY <2>1, <2>2
<1>12. long \in Seq(Block)
  BY <1>1, <1>7, AppendProperties
<1> HIDE DEF long
<1>13. /\ ctx'.idx = ctx.idx /\ ctx'.fp = ctx.fp /\ ctx'.crc = <<>> /\ ctx'.blk_len = 0
       /\ ctx'.tmp_blk = <<>> /\ ctx'.tmp_win = ctx.tmp_win
  BY <1>1, <1>2 DEF ContextType
<1>14. StreamType'
  <2>1. <<>> \in Seq(Bytes)
    BY EmptySeq
  <2>2. ctx' \in ContextType
    BY <1>1, <1>2, <2>1 DEF ContextType
  <2>3. flushed' \in SUBSET (1..q)
    <3>1. q \in 1..q
      BY <1>6
    <3> QED BY <1>1, <1>2, <3>1
  <2> QED BY <1>1, <1>2, <1>12, <1>13, <2>2, <2>3 DEF StreamType, q
<1>15. ContextInv'
  <2>1. Len(stream') = q /\ stream' = stream /\ LastEnd(blocks') = q
    BY <1>2, <1>6, <1>10 DEF q
  <2>2. SubSeq(stream, q + 1, q) = <<>>
    <3>1. q + 1 \in Int /\ q \in Int /\ q + 1 > q
      BY <1>1
    <3> QED BY <3>1, SubSeqEmpty
  <2>3. \A i \in 1..WinSz : ctx.tmp_win[i] = Past(stream, q - WinSz + i)
    BY <1>1 DEF ContextInv, q
  <2>4. Len(<<>>) = 0
    BY EmptySeq
  <2> QED BY <1>3, <1>13, <2>1, <2>2, <2>3, <2>4 DEF ContextInv
<1>16. Covers(stream', Len(stream'), blocks') /\ Cut(stream', Len(stream'), blocks', flushed')
  <2>1. Len(stream') = r + 1
    BY <1>2, <1>6 DEF q
  <2> QED BY <1>2, <1>10, <1>11, <2>1
<1> QED BY <1>14, <1>15, <1>16 DEF RabinInv

LEMMA InitInv ==
  ASSUME Init
  PROVE  RabinInv
<1> DEFINE win == [i \in 1..WinSz |-> 0]
<1>1. /\ stream = <<>> /\ blocks = <<>> /\ flushed = {}
      /\ ctx = [idx |-> 0, fp |-> 0, crc |-> <<>>, blk_len |-> 0, tmp_blk |-> <<>>, tmp_win |-> win]
  BY DEF Init
<1>2. /\ <<>> \in Seq(Bytes) /\ <<>> \in Seq(Block) /\ Len(<<>>) = 0
      /\ 0 \in 0..(FpMod - 1) /\ WinSz \in Nat \ {0}
  BY EmptySeq, RabinAssumption
<1>3. win \in Seq(Nat) /\ Len(win) = WinSz /\ \A i \in 1..WinSz : win[i] = 0
  BY <1>2
<1> HIDE DEF win
<1>4. LastEnd(blocks) = 0
  BY <1>1, <1>2, EndDef DEF LastEnd
<1>5. StreamType
  <2>1. ctx \in ContextType
    BY <1>1, <1>2, <1>3 DEF ContextType
  <2> QED BY <1>1, <1>2, <1>3, <2>1 DEF StreamType
<1>6. ContextInv
  <2>1. FpAt(<<>>, 0) = 0
    <3>1. Window(<<>>, 0) = <<>>
      <4>1. ~(0 > WinSz)
        BY <1>2
      <4>2. SubSeq(<<>>, 1, 0) = <<>>
        BY SubSeqEmpty
      <4> QED BY <4>1, <4>2 DEF Window
    <3>2. <<>> \in Seq(Nat)
      BY EmptySeq
    <3> QED BY <1>2, <3>1, <3>2, FpsDef DEF FpAt, Fingerprint
  <2>2. SubSeq(<<>>, 0 + 1, 0) = <<>>
    BY SubSeqEmpty
  <2>3. ASSUME NEW i \in 1..WinSz PROVE Past(<<>>, 0 - WinSz + i) = 0
    <3>1. CASE 0 - WinSz + i >= 1
      BY <1>2, <3>1
    <3>2. CASE ~(0 - WinSz + i >= 1)
      BY <3>2 DEF Past
    <3> QED BY <3>1, <3>2
  <2> QED BY <1>1, <1>2, <1>3, <1>4, <2>1, <2>2, <2>3 DEF ContextInv
<1>7. Covers(stream, Len(stream), blocks)
  <2>1. \A n \in 1..Len(blocks) : FALSE
    BY <1>1, <1>2
  <2> QED BY <1>1, <1>2, <1>4, <2>1 DEF Covers
<1>8. Cut(stream, Len(stream), blocks, flushed)
  <2>1. (\A n \in 1..Len(blocks) : FALSE) /\ (\A p \in 1..Len(stream) : FALSE)
    BY <1>1, <1>2
  <2> QED BY <2>1 DEF Cut
<1> QED BY <1>5, <1>6, <1>7, <1>8 DEF RabinInv

(* The state of the stream is, after every buffer and every flush, what    *)
(* the bytes and the flushes so far make it: the context holds the last    *)
(* window, its fingerprint and the bytes of the unfinished block, and the  *)
(* blocks formed by rabin_compress_buffer and rabin_flush follow one       *)
(* another in the stream, cut where it meets the condition and only there. *)
THEOREM RabinInvariance == Spec => []RabinInv
<1>1. Init => RabinInv
  BY InitInv
<1>2. RabinInv /\ [Next]_vars => RabinInv'
  <2> SUFFICES ASSUME RabinInv, [Next]_vars PROVE RabinInv'
    OBVIOUS
  <2>1. ASSUME NEW n \in 0..BuffMax, NEW buff \in [1..n -> Bytes], CompressBuffer(buff)
        PROVE  RabinInv'
    <3>1. buff \in Seq(Bytes)
      <4>1. n \in Nat
        BY RabinAssumption
      <4> QED BY <4>1
    <3> QED BY <2>1, <3>1, CompressBufferInv
  <2>2. CASE Flush
    BY <2>2, FlushInv
  <2>3. CASE UNCHANGED vars
    BY <2>3 DEF vars, RabinInv, StreamType, ContextInv
  <2> QED BY <2>1, <2>2, <2>3 DEF Next
<1> QED BY <1>1, <1>2, PTL DEF Spec

-----------------------------------------------------------------------------
(* The rolling fingerprint of rabin_compress_buffer is that of the last    *)
(* WinSz bytes, whatever the buffers were, if the table has the window.    *)
THEOREM AlwaysFpIsWindow == InTable => (Spec => []FpIsWindow)
<1> SUFFICES ASSUME InTable PROVE Spec => []FpIsWindow
  OBVIOUS
<1>1. RabinInv => FpIsWindow
  BY DEF RabinInv, ContextInv, FpIsWindow, WindowFp, FpAt
<1> QED BY <1>1, RabinInvariance, PTL

(* The blocks of rabin_compress_buffer and rabin_flush, one after the      *)
(* other, with the bytes in tmp_blk, are the stream: for any window, any   *)
(* limits and any buffers.                                                 *)
THEOREM AlwaysNothingLost == Spec => []NothingLost
<1>1. ASSUME RabinInv PROVE NothingLost
  <2> DEFINE q == Len(stream)
             m == Len(blocks)
             e == EndOf(blocks)
             d == Joined(blocks)
             U == {n \in 0..m : d[n] = SubSeq(stream, 1, e[n])}
  <2>1. /\ stream \in Seq(Bytes) /\ blocks \in Seq(Block) /\ q \in Nat /\ m \in Nat
        /\ e[m] \in Nat /\ e[m] <= q
        /\ ctx.tmp_blk = SubSeq(stream, e[m] + 1, q)
    BY <1>1, LenProperties, LastEndType DEF RabinInv, StreamType, ContextInv, Covers, LastEnd
  <2>2. /\ e[0] = 0 /\ \A n \in 0..m : e[n] \in Nat
        /\ d[0] = <<>> /\ \A n \in 1..m : d[n] = d[n-1] \o blocks[n].data
    BY <2>1, EndDef, JoinedDef
  <2>3. \A n \in 0..m : e[n] <= e[m]
    <3>1. m \in 0..m /\ \A n \in 0..m : n <= m
      BY <2>1
    <3> QED BY <2>1, <3>1, EndsOrdered
  <2>4. \A n \in 1..m : e[n-1] < e[n] /\ blocks[n].data = SubSeq(stream, e[n-1] + 1, e[n])
    BY <1>1 DEF RabinInv, Covers, BlockAt
  <2> HIDE DEF e, d, m, q
  <2>5. U \in SUBSET (0..m) /\ 0 \in U
    <3>1. SubSeq(stream, 1, 0) = <<>>
      BY SubSeqEmpty
    <3>2. d[0] = SubSeq(stream, 1, e[0])
      BY <2>2, <3>1
    <3>3. 0 \in 0..m
      BY <2>1
    <3> QED BY <3>2, <3>3
  <2>6. ASSUME NEW n \in U, n < m PROVE n + 1 \in U
    <3>1. n + 1 \in 1..m /\ n + 1 \in 0..m /\ (n + 1) - 1 = n /\ n \in 0..m
      BY <2>1, <2>6
    <3>2. d[n] = SubSeq(stream, 1, e[n])
      OBVIOUS
    <3>3. d[n + 1] = d[n] \o SubSeq(stream, e[n] + 1, e[n + 1]) /\ e[n] < e[n + 1]
      BY <2>2, <2>4, <3>1
    <3> DEFINE k == e[n]
               j == e[n + 1]
    <3>4. k \in Nat /\ j \in Nat /\ j <= e[m]
      BY <2>2, <2>3, <3>1
    <3>5. k < j /\ d[n + 1] = SubSeq(stream, 1, k) \o SubSeq(stream, k + 1, j)
      BY <3>2, <3>3
    <3> HIDE DEF k, j
    <3>6. k \in (1 - 1)..q /\ j \in k..q /\ 1 \in 1..(q + 1)
      BY <2>1, <3>4, <3>5
    <3>7. SubSeq(stream, 1, k) \o SubSeq(stream, k + 1, j) = SubSeq(stream, 1, j)
      BY <2>1, <3>6, ConcatAdjacentSubSeq DEF q
    <3> QED BY <3>1, <3>5, <3>7 DEF j
  <2>7. U = 0..m
    <3> HIDE DEF U
    <3> QED BY <2>1, <2>5, <2>6, UpTo
  <2>8. d[m] = SubSeq(stream, 1, e[m])
    <3>1. m \in 0..m
      BY <2>1
    <3> QED BY <2>7, <3>1
  <2>9. SubSeq(stream, 1, e[m]) \o SubSeq(stream, e[m] + 1, q) = stream
    <3> DEFINE k == e[m]
    <3>1. k \in (1 - 1)..q /\ q \in k..q /\ 1 \in 1..(q + 1)
      BY <2>1
    <3> HIDE DEF k
    <3>2. SubSeq(stream, 1, k) \o SubSeq(stream, k + 1, q) = SubSeq(stream, 1, q)
      BY <2>1, <3>1, ConcatAdjacentSubSeq DEF q
    <3>3. SubSeq(stream, 1, q) = stream
      BY <2>1, SubSeqFull DEF q
    <3> QED BY <3>2, <3>3 DEF k
  <2> QED BY <2>1, <2>8, <2>9 DEF NothingLost, d, m
<1> QED BY <1>1, RabinInvariance, PTL

(* A block at from..to of a stream has as many bytes as it says.           *)
LEMMA BlockLength ==
  ASSUME NEW s \in Seq(Bytes), NEW b, NEW from \in Nat, NEW to \in Nat, to <= Len(s),
         BlockAt(s, b, from, to)
  PROVE  /\ b.len = Len(b.data) /\ b.data \in Seq(Bytes) /\ b.len = to - from /\ from < to
         /\ from + 1 \in 1..Len(s) /\ to \in 1..Len(s) /\ b.data = SubSeq(s, from + 1, to)
<1>1. from < to /\ b.data = SubSeq(s, from + 1, to) /\ b.len = to - from /\ Len(s) \in Nat
  BY LenProperties DEF BlockAt
<1> DEFINE a == from + 1
<1>2. a \in Nat \ {0} /\ to \in Int /\ a <= to /\ to - a + 1 = to - from
      /\ a \in 1..Len(s) /\ to \in 1..Len(s)
  BY <1>1
<1> HIDE DEF a
<1>3. SubSeq(s, a, to) \in Seq(Bytes) /\ Len(SubSeq(s, a, to)) = IF a <= to THEN to - a + 1 ELSE 0
  BY <1>2, SubSeqType
<1> QED BY <1>1, <1>2, <1>3 DEF a

(* The n-th block, and where it is.                                        *)
LEMMA BlockOf ==
  ASSUME RabinInv, NEW n \in 1..Len(blocks)
  PROVE  /\ stream \in Seq(Bytes)
         /\ EndOf(blocks)[n-1] \in Nat /\ EndOf(blocks)[n] \in Nat
         /\ EndOf(blocks)[n] <= Len(stream)
         /\ BlockAt(stream, blocks[n], EndOf(blocks)[n-1], EndOf(blocks)[n])
<1> DEFINE e == EndOf(blocks)
           m == Len(blocks)
<1>1. /\ stream \in Seq(Bytes) /\ blocks \in Seq(Block) /\ m \in Nat
      /\ e[m] \in Nat /\ e[m] <= Len(stream) /\ Len(stream) \in Nat
  BY LenProperties, LastEndType DEF RabinInv, StreamType, Covers, LastEnd
<1>2. n - 1 \in 0..m /\ n \in 0..m /\ m \in 0..m /\ n <= m
  BY <1>1
<1>3. e[n-1] \in Nat /\ e[n] \in Nat /\ e[n] <= e[m]
  BY <1>1, <1>2, EndDef, EndsOrdered
<1>4. BlockAt(stream, blocks[n], e[n-1], e[n])
  BY DEF RabinInv, Covers
<1> HIDE DEF e
<1>5. e[n] <= Len(stream)
  BY <1>1, <1>3
<1> QED BY <1>1, <1>3, <1>4, <1>5 DEF e

(* The length and the crc under which a block is looked up, and those of   *)
(* the unfinished one, are those of its bytes.                             *)
THEOREM AlwaysDescribesData == Spec => []DescribesData
<1>1. ASSUME RabinInv PROVE DescribesData
  <2>1. ASSUME NEW n \in 1..Len(blocks)
        PROVE  blocks[n].len = Len(blocks[n].data) /\ blocks[n].crc = blocks[n].data
    BY <1>1, BlockOf, BlockLength DEF BlockAt
  <2>2. ctx.blk_len = Len(ctx.tmp_blk) /\ ctx.crc = ctx.tmp_blk
    BY <1>1 DEF RabinInv, ContextInv
  <2> QED BY <2>1, <2>2 DEF DescribesData
<1> QED BY <1>1, RabinInvariance, PTL

(* The last WinSz bytes of a block that long are the window at its end.    *)
LEMMA BlockFp ==
  ASSUME InTable, NEW s \in Seq(Bytes), NEW b, NEW from \in Nat, NEW to \in Nat, to <= Len(s),
         BlockAt(s, b, from, to), b.len >= WinSz
  PROVE  b.fp = Fingerprint(SubSeq(b.data, b.len - WinSz + 1, b.len))
<1> DEFINE l == to - from
           m == l - WinSz + 1
           a == from + 1
<1>1. /\ b.data \in Seq(Bytes) /\ b.len = l /\ l >= WinSz /\ from < to
      /\ a \in 1..Len(s) /\ to \in 1..Len(s) /\ b.data = SubSeq(s, a, to)
      /\ b.fp = Fingerprint(Window(s, to))
      /\ WinSz \in Nat \ {0}
  BY BlockLength, RabinAssumption DEF BlockAt, FpAt
<1>2. /\ m \in 1..(to - a + 1) /\ l \in 1..(to - a + 1)
      /\ a + m - 1 = to - WinSz + 1 /\ a + l - 1 = to
  <2>1. m >= 1 /\ m <= l /\ to - a + 1 = l /\ m \in Int /\ l \in Int /\ l >= 1
    BY <1>1
  <2>2. a + m - 1 = to - WinSz + 1 /\ a + l - 1 = to
    BY <1>1
  <2> HIDE DEF m, l, a
  <2> QED BY <2>1, <2>2
<1>3. Window(s, to) = SubSeq(s, to - WinSz + 1, to)
  <2>1. CASE to > WinSz
    BY <2>1 DEF Window
  <2>2. CASE ~(to > WinSz)
    <3>1. to - WinSz + 1 = 1
      BY <1>1, <2>2
    <3> QED BY <2>2, <3>1 DEF Window
  <2> QED BY <2>1, <2>2
<1> HIDE DEF m, l, a
<1>4. SubSeq(SubSeq(s, a, to), m, l) = SubSeq(s, a + m - 1, a + l - 1)
  BY <1>1, <1>2, SubSeqOfSubSeq
<1> QED BY <1>1, <1>2, <1>3, <1>4 DEF m

(* Two blocks with the same bytes are filed under the same fingerprint:    *)
(* the fingerprint of a block no shorter than the window is a function of  *)
(* its bytes.                                                              *)
THEOREM AlwaysRepeatsFound == InTable => (Spec => []RepeatsFound)
<1> SUFFICES ASSUME InTable PROVE Spec => []RepeatsFound
  OBVIOUS
<1>1. ASSUME RabinInv PROVE RepeatsFound
  <2> SUFFICES ASSUME NEW i \in 1..Len(blocks), NEW j \in 1..Len(blocks),
                      blocks[i].data = blocks[j].data, blocks[i].len >= WinSz
               PROVE  blocks[i].fp = blocks[j].fp
    BY DEF RepeatsFound
  <2>1. blocks[i].len = Len(blocks[i].data) /\ blocks[j].len = Len(blocks[j].data)
    BY <1>1, BlockOf, BlockLength
  <2>2. blocks[i].fp = Fingerprint(SubSeq(blocks[i].data, blocks[i].len - WinSz + 1, blocks[i].len))
    BY <1>1, BlockOf, BlockFp
  <2>3. blocks[j].fp = Fingerprint(SubSeq(blocks[j].data, blocks[j].len - WinSz + 1, blocks[j].len))
    BY <1>1, <2>1, BlockOf, BlockFp
  <2> QED BY <2>1, <2>2, <2>3
<1> QED BY <1>1, RabinInvariance, PTL

(* Every byte lies between two ends of blocks, or after the last.          *)
LEMMA EndBefore ==
  ASSUME NEW list \in Seq(Block), NEW p \in Nat \ {0}
  PROVE  \E n \in 0..Len(list) :
           /\ EndOf(list)[n] < p
           /\ n < Len(list) => p <= EndOf(list)[n+1]
<1> DEFINE m == Len(list)
           e == EndOf(list)
           T == {k \in 0..m : p <= e[k]}
<1>1. m \in Nat /\ e[0] = 0 /\ \A n \in 0..m : e[n] \in Nat
  BY LenProperties, EndDef
<1> HIDE DEF m, e
<1>2. CASE T = {}
  <2>1. m \in 0..m /\ ~(m < m)
    BY <1>1
  <2>2. ~(p <= e[m]) /\ e[m] \in Nat
    BY <1>1, <1>2, <2>1
  <2>3. e[m] < p
    BY <2>2
  <2> QED BY <2>1, <2>3 DEF m, e
<1>3. CASE T # {}
  <2>1. T \in SUBSET Nat
    BY <1>1
  <2>2. PICK k \in T : \A j \in T : k <= j
    <3> HIDE DEF T
    <3> QED BY <1>3, <2>1, LeastElement
  <2>3. k \in 0..m /\ p <= e[k] /\ k # 0
    BY <1>1
  <2>4. k - 1 \in 0..m /\ (k - 1) + 1 = k /\ ~(k <= k - 1)
    BY <1>1, <2>3
  <2>5. ~(p <= e[k - 1]) /\ e[k - 1] \in Nat
    BY <1>1, <2>2, <2>4
  <2>6. e[k - 1] < p
    BY <2>5
  <2> QED BY <2>3, <2>4, <2>6 DEF m, e
<1> QED BY <1>2, <1>3

(* Where rabin_compress_buffer ends a block depends on the bytes since the *)
(* last end and on the flushes, and not on how the stream was split into   *)
(* buffers.                                                                *)
THEOREM AlwaysContentDefined == InTable => (Spec => []ContentDefined)
<1> SUFFICES ASSUME InTable PROVE Spec => []ContentDefined
  OBVIOUS
<1>1. ASSUME RabinInv PROVE ContentDefined
  <2> SUFFICES ASSUME NEW p \in 1..Len(stream)
               PROVE  LET last == {q \in Ends \cup {0} : q < p}
                          len == p - Max(last)
                      IN p \in Ends <=> \/ p \in flushed
                                        \/ /\ len >= MinBlkSz
                                           /\ \/ WindowFp(p) % AvgMod = 0
                                              \/ MaxBlkSz > 0 /\ len >= MaxBlkSz
    BY DEF ContentDefined
  <2> DEFINE m == Len(blocks)
             e == EndOf(blocks)
             last == {q \in Ends \cup {0} : q < p}
  <2>1. /\ blocks \in Seq(Block) /\ m \in Nat /\ p \in Nat \ {0}
        /\ e[0] = 0 /\ \A n \in 0..m : e[n] \in Nat
    BY <1>1, LenProperties, EndDef DEF RabinInv, StreamType
  <2>2. \A j, k \in 0..m : j <= k => e[j] <= e[k]
    BY <2>1, EndsOrdered
  <2>3. PICK n \in 0..m : e[n] < p /\ (n < m => p <= e[n+1])
    BY <2>1, EndBefore
  <2>4. Ends = {e[k] : k \in 1..m}
    BY DEF Ends
  <2>5. /\ n < m => IsEnd(stream, e[n], e[n+1], flushed)
        /\ (n < m => p < e[n+1]) => ~IsEnd(stream, e[n], p, flushed)
    <3>1. n < m => n + 1 \in 1..m /\ (n + 1) - 1 = n
      BY <2>1
    <3>2. Cut(stream, Len(stream), blocks, flushed)
      BY <1>1 DEF RabinInv
    <3> QED BY <2>3, <3>1, <3>2 DEF Cut
  <2> HIDE DEF m, e
  <2>6. ASSUME NEW k \in 0..m, e[k] < p PROVE e[k] <= e[n]
    <3>1. CASE k <= n
      BY <2>2, <3>1
    <3>2. CASE ~(k <= n)
      <4>1. n < m /\ n + 1 \in 0..m /\ n + 1 <= k
        BY <2>1, <3>2
      <4>2. p <= e[n+1] /\ e[n+1] <= e[k] /\ e[n+1] \in Nat /\ e[k] \in Nat
        BY <2>1, <2>2, <2>3, <4>1
      <4>3. FALSE
        BY <2>1, <2>6, <4>2
      <4> QED BY <4>3
    <3> QED BY <3>1, <3>2
  <2>7. Max(last) = e[n]
    <3>1. e[n] \in last
      <4>1. CASE n = 0
        BY <2>1, <2>3, <4>1
      <4>2. CASE n # 0
        <5>1. n \in 1..m
          BY <2>1, <4>2
        <5> QED BY <2>3, <2>4, <5>1
      <4> QED BY <4>1, <4>2
    <3>2. ASSUME NEW q \in last PROVE q \in Nat /\ q <= e[n]
      <4>1. q < p /\ (q = 0 \/ \E k \in 1..m : q = e[k])
        BY <2>4
      <4>2. \E k \in 0..m : q = e[k]
        <5>1. 0 \in 0..m /\ \A k \in 1..m : k \in 0..m
          BY <2>1
        <5> QED BY <2>1, <4>1, <5>1
      <4> QED BY <2>1, <2>6, <4>1, <4>2
    <3> HIDE DEF last
    <3>3. \A q \in last : e[n] >= q
      BY <2>1, <3>2
    <3> DEFINE x == Max(last)
    <3>4. x \in last /\ \A q \in last : x >= q
      <4>1. \E y \in last : \A q \in last : y >= q
        BY <3>1, <3>3
      <4> QED BY <4>1 DEF Max
    <3> HIDE DEF x
    <3>5. x >= e[n] /\ x <= e[n] /\ x \in Nat /\ e[n] \in Nat
      BY <2>1, <3>1, <3>2, <3>4
    <3>6. x = e[n]
      BY <3>5
    <3> QED BY <3>6 DEF x
  <2>8. p \in Ends <=> n < m /\ p = e[n+1]
    <3>1. ASSUME n < m, p = e[n+1] PROVE p \in Ends
      <4>1. n + 1 \in 1..m
        BY <2>1, <3>1
      <4> QED BY <2>4, <3>1, <4>1
    <3>2. ASSUME p \in Ends PROVE n < m /\ p = e[n+1]
      <4>1. PICK k \in 1..m : p = e[k]
        BY <2>4, <3>2
      <4>2. k \in 0..m
        BY <2>1
      <4>3. ~(k <= n)
        <5>1. ASSUME k <= n PROVE FALSE
          <6>1. e[k] <= e[n] /\ e[k] \in Nat /\ e[n] \in Nat
            BY <2>1, <2>2, <4>2, <5>1
          <6> QED BY <2>3, <4>1, <6>1
        <5> QED BY <5>1
      <4>4. n < m /\ n + 1 \in 0..m /\ n + 1 <= k
        BY <2>1, <4>2, <4>3
      <4>5. e[n+1] <= p /\ p <= e[n+1] /\ e[n+1] \in Nat
        BY <2>1, <2>2, <2>3, <4>1, <4>2, <4>4
      <4>6. p = e[n+1]
        BY <2>1, <4>5
      <4> QED BY <4>4, <4>6
    <3> QED BY <3>1, <3>2
  <2>9. p \in Ends <=> IsEnd(stream, e[n], p, flushed)
    <3>1. CASE n < m /\ p = e[n+1]
      BY <2>5, <2>8, <3>1
    <3>2. CASE ~(n < m /\ p = e[n+1])
      <4>1. n < m => p < e[n+1]
        <5>1. n < m => e[n+1] \in Nat
          BY <2>1
        <5> QED BY <2>1, <2>3, <3>2, <5>1
      <4> QED BY <2>5, <2>8, <3>2, <4>1
    <3> QED BY <3>1, <3>2
  <2> HIDE DEF last
  <2>10. IsEnd(stream, e[n], p, flushed)
           <=> \/ p \in flushed
               \/ /\ p - Max(last) >= MinBlkSz
                  /\ \/ WindowFp(p) % AvgMod = 0
                     \/ MaxBlkSz > 0 /\ p - Max(last) >= MaxBlkSz
    BY <2>7 DEF IsEnd, Boundary, WindowFp, FpAt
  <2> QED BY <2>9, <2>10 DEF last
<1> QED BY <1>1, RabinInvariance, PTL
=============================================================================
