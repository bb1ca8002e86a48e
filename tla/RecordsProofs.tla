---------------------------- MODULE RecordsProofs ---------------------------
(* Proofs about Records, for every width of the fields, every length of    *)
(* the blocks and of the fragments, and any number of records.             *)
EXTENDS Records, Induction, SequenceTheorems

Fields == {"flag", "offset", "len", "data"}
Record == [compressed : {0, 1}, len : Lens]
Byte == Nat \X Fields \X Nat
Out == Nat \X Nat

(* The fields of a record e, how far from its start each one begins, and   *)
(* how long it is.                                                         *)
FieldsOf(e) == IF e.compressed = 1 THEN {"flag", "offset", "len"} ELSE {"flag", "len", "data"}
FieldAt(e, f) ==
  IF f = "flag" THEN 0
  ELSE IF f = "offset" THEN 1
  ELSE IF f = "data" THEN 1 + LenSz
  ELSE IF e.compressed = 1 THEN 1 + OffsetSz ELSE 1
RecordSz(e) == IF e.compressed = 1 THEN 1 + OffsetSz + LenSz ELSE 1 + LenSz + e.len

(* Where in the file each record of a list ends, and where byte m of field *)
(* f of record r goes.                                                     *)
EndOf(list) ==
  LET d[n \in 0..Len(list)] == IF n = 0 THEN 0 ELSE d[n - 1] + RecordSz(list[n])
  IN d
StartIn(list, r, f) == EndOf(list)[r - 1] + FieldAt(list[r], f)
FieldStart(r, f) == StartIn(sent, r, f)
Ends == EndOf(sent)[Len(sent)]

(* The first n blocks, one after the other; here, those put out.           *)
Joined(list) ==
  LET d[n \in 0..Len(list)] == IF n = 0 THEN <<>> ELSE d[n - 1] \o list[n]
  IN d
Blocks == [r \in 1..Len(sent) |-> IF r \in Complete THEN Block(r) ELSE <<>>]
Part(r, n) == [m \in 1..n |-> <<r, m>>]

FileType ==
  /\ file \in Seq(Byte)
  /\ sent \in Seq(Record)
  /\ writing \in Fields \cup {"next", "ended"}

(* compress.c has written every byte where it goes, and is at the end.     *)
OnFile ==
  \A p \in 1..Len(file) :
    \E r \in 1..Len(sent) : \E f \in FieldsOf(sent[r]) : \E m \in 1..Width(f, sent[r].len) :
      p = FieldStart(r, f) + m /\ file[p] = <<r, f, m>>
WriterInv ==
  /\ writing = "next" => Len(file) = Ends
  /\ writing \in Fields =>
       /\ sent # <<>> /\ writing \in FieldsOf(sent[Len(sent)])
       /\ Len(file) = FieldStart(Len(sent), writing)
  /\ Len(file) <= Ends

(* decompress.c has put out the blocks of the records before r, all of     *)
(* them complete, and is at the start of r, ...                            *)
Before(r) ==
  /\ r \in 1..(Len(sent) + 1)
  /\ EndOf(sent)[r - 1] <= Len(file)
AtRecord(r) == Before(r) /\ out = Joined(Blocks)[r - 1] /\ pos = EndOf(sent)[r - 1]

(* ... or at a field of it, of which it has read the ones before, ...      *)
AtField(r) ==
  /\ Before(r) /\ r <= Len(sent)
  /\ out = Joined(Blocks)[r - 1]
  /\ reading \in FieldsOf(sent[r]) /\ reading # "flag" /\ pos = FieldStart(r, reading)
  /\ compressed = sent[r].compressed
  /\ reading = "len" /\ compressed = 1 => offset = r
  /\ reading = "data" => len = sent[r].len

(* ... or has read it and put out i bytes of its block, ...                *)
AtBlock(r) ==
  /\ Before(r) /\ r <= Len(sent)
  /\ pos = EndOf(sent)[r] /\ pos <= Len(file)
  /\ compressed = sent[r].compressed /\ len = sent[r].len
  /\ compressed = 1 => offset = r /\ out = Joined(Blocks)[r - 1]
  /\ compressed = 0 =>
       /\ buff = Field(r, "data")
       /\ i \in 0..len
       /\ out = Joined(Blocks)[r - 1] \o Part(r, i)

(* ... or has ended.                                                       *)
ReaderInv ==
  /\ reading \in Fields \cup {"put", "done"}
  /\ writing # "ended" => reading = "flag" /\ pos = 0 /\ out = <<>>
  /\ reading = "flag" => \E r \in Nat : AtRecord(r)
  /\ reading \in {"offset", "len", "data"} => \E r \in Nat : AtField(r)
  /\ reading = "put" => \E r \in Nat : AtBlock(r)
  /\ reading = "done" => \E r \in Nat : Before(r) /\ out = Joined(Blocks)[r - 1]

RecordsInv == FileType /\ OnFile /\ WriterInv /\ ReaderInv

-----------------------------------------------------------------------------
(* Beginnings of sequences.                                                *)
LEMMA PrefixElements ==
  ASSUME NEW S, NEW s \in Seq(S), NEW t \in Seq(S), IsPrefix(s, t)
  PROVE  \A n \in 1..Len(s) : s[n] = t[n]
<1> DEFINE a == SubSeq(s, 1, Len(s))
           b == SubSeq(t, 1, Len(s))
<1>1. Len(s) \in Nat /\ Len(t) \in Nat /\ Len(s) <= Len(t) /\ a = b
  BY LenProperties DEF IsPrefix
<1>2. \A n \in 1..Len(s) : a[n] = s[n] /\ b[n] = t[n]
  BY <1>1
<1> HIDE DEF a, b
<1> QED BY <1>1, <1>2

LEMMA PrefixByElements ==
  ASSUME NEW S, NEW s \in Seq(S), NEW t \in Seq(S), Len(s) <= Len(t),
         \A n \in 1..Len(s) : s[n] = t[n]
  PROVE  IsPrefix(s, t)
<1> DEFINE a == SubSeq(s, 1, Len(s))
           b == SubSeq(t, 1, Len(s))
<1>1. Len(s) \in Nat /\ Len(t) \in Nat
  BY LenProperties
<1>2. \A n \in 1..Len(s) : a[n] = b[n]
  BY <1>1
<1>3. /\ a = [n \in 1..Len(s) |-> a[n]]
      /\ b = [n \in 1..Len(s) |-> b[n]]
  BY <1>1
<1> HIDE DEF a, b
<1>4. a = b
  BY <1>2, <1>3
<1> QED BY <1>4 DEF IsPrefix, a, b

LEMMA ConcatPrefix ==
  ASSUME NEW S, NEW s \in Seq(S), NEW t \in Seq(S)
  PROVE  IsPrefix(s, s \o t)
<1> DEFINE u == s \o t
<1>1. u \in Seq(S)
  BY ConcatProperties
<1>2. Len(s) \in Nat /\ Len(t) \in Nat
  BY LenProperties
<1>3. Len(u) = Len(s) + Len(t)
  BY ConcatProperties
<1>4. \A p \in 1..(Len(s) + Len(t)) : u[p] = IF p <= Len(s) THEN s[p] ELSE t[p - Len(s)]
  BY ConcatProperties
<1> HIDE DEF u
<1>5. \A p \in 1..Len(s) : s[p] = u[p]
  BY <1>2, <1>4
<1>6. IsPrefix(s, u)
  BY <1>1, <1>2, <1>3, <1>5, PrefixByElements
<1> QED BY <1>6 DEF u

LEMMA SubSeqIs ==
  ASSUME NEW S, NEW s \in Seq(S), NEW a \in Nat, NEW n \in Nat, a + n <= Len(s)
  PROVE  SubSeq(s, a + 1, a + n) = [m \in 1..n |-> s[a + m]]
<1> DEFINE t == SubSeq(s, a + 1, a + n)
<1>1. Len(s) \in Nat
  BY LenProperties
<1>2. \A m \in (a + 1)..(a + n) : s[m] \in S
  BY <1>1, ElementOfSeq
<1>3. t \in Seq(S)
  BY <1>2, SubSeqProperties
<1>4. Len(t) = n
  BY <1>1
<1>5. \A m \in 1..n : t[m] = s[a + m]
  BY <1>1
<1> HIDE DEF t
<1>6. t = [m \in 1..n |-> t[m]]
  BY <1>3, <1>4
<1>7. t = [m \in 1..n |-> s[a + m]]
  BY <1>5, <1>6
<1> QED BY <1>7 DEF t

-----------------------------------------------------------------------------
(* The two recursive functions.                                            *)
LEMMA SizeType ==
  ASSUME NEW e \in Record
  PROVE  /\ RecordSz(e) \in Nat \ {0}
         /\ e.compressed \in {0, 1} /\ e.len \in Nat \ {0}
<1>1. e.compressed \in {0, 1} /\ e.len \in Nat \ {0}
  BY RecordsAssumption DEF Record
<1>2. OffsetSz \in Nat \ {0} /\ LenSz \in Nat \ {0}
  BY RecordsAssumption
<1>3. RecordSz(e) \in Nat \ {0}
  BY <1>1, <1>2 DEF RecordSz
<1> QED BY <1>1, <1>3

LEMMA EndDef ==
  ASSUME NEW list \in Seq(Record)
  PROVE  /\ EndOf(list)[0] = 0
         /\ \A n \in 0..Len(list) : EndOf(list)[n] \in Nat
         /\ \A n \in 1..Len(list) : EndOf(list)[n] = EndOf(list)[n-1] + RecordSz(list[n])
<1> DEFINE m == Len(list)
           T == [n \in 0..m |-> Nat]
           step == [p \in (1..m) \X Nat |-> p[2] + RecordSz(list[p[1]])]
           Body(f) == [n \in 0..m |-> IF n = 0 THEN 0 ELSE f[n-1] + RecordSz(list[n])]
<1>1. m \in Nat /\ \A n \in 1..m : list[n] \in Record
  BY LenProperties
<1>2. \A n \in 1..m : RecordSz(list[n]) \in Nat
  BY <1>1, SizeType
<1>3. Carries(T, step, m) /\ 0 \in T[0]
  <2>1. 0 \in T[0]
    BY <1>1
  <2>2. ASSUME NEW n \in 1..m, NEW x \in T[n-1] PROVE step[<<n, x>>] \in T[n]
    <3>1. n - 1 \in 0..m /\ n \in 0..m
      BY <1>1
    <3>2. x \in Nat /\ T[n] = Nat
      BY <3>1
    <3>3. step[<<n, x>>] = x + RecordSz(list[n])
      BY <3>2
    <3> HIDE DEF step, T
    <3> QED BY <3>2, <3>3, <1>2
  <2> QED BY <2>1, <2>2 DEF Carries
<1>4. PICK f : Recurs(f, m, 0, step) /\ \A n \in 0..m : f[n] \in T[n]
  <2> HIDE DEF m, T, step
  <2> QED BY <1>1, <1>3, Recurrence
<1>5. f = Body(f)
  <2>1. ASSUME NEW n \in 0..m, n # 0 PROVE step[<<n, f[n-1]>>] = f[n-1] + RecordSz(list[n])
    <3>1. n \in 1..m /\ n - 1 \in 0..m
      BY <1>1, <2>1
    <3>2. f[n-1] \in Nat
      BY <3>1, <1>4
    <3> QED BY <3>1, <3>2
  <2> HIDE DEF step
  <2> QED BY <2>1, <1>4 DEF Recurs
<1> DEFINE h == EndOf(list)
<1>6. h = Body(h)
  BY <1>5 DEF EndOf
<1> HIDE DEF h
<1>7. h[0] = 0 /\ \A n \in 1..m : h[n] = h[n-1] + RecordSz(list[n])
  <2>1. 0 \in 0..m /\ \A n \in 1..m : n \in 0..m /\ n # 0
    BY <1>1
  <2> QED BY <1>6, <2>1
<1>8. \A n \in 0..m : h[n] \in T[n]
  <2>1. ASSUME NEW n \in 1..m, h[n-1] \in T[n-1] PROVE h[n] = step[<<n, h[n-1]>>]
    <3>1. n - 1 \in 0..m
      BY <1>1
    <3>2. h[n-1] \in Nat
      BY <3>1, <2>1
    <3> QED BY <3>2, <1>7
  <2>2. h[0] \in T[0]
    BY <1>3, <1>7
  <2> HIDE DEF m, T, step
  <2> QED BY <1>1, <1>3, <2>1, <2>2, RecurrenceType
<1>9. \A n \in 0..m : h[n] \in Nat
  BY <1>8
<1> QED BY <1>7, <1>9 DEF h

(* One more record leaves the ends of those before it.                     *)
LEMMA EndAppend ==
  ASSUME NEW list \in Seq(Record), NEW e \in Record
  PROVE  \A n \in 0..Len(list) : EndOf(Append(list, e))[n] = EndOf(list)[n]
<1> DEFINE m == Len(list)
           u == Append(list, e)
           f == EndOf(list)
           g == EndOf(u)
           U == {n \in 0..m : g[n] = f[n]}
<1>1. m \in Nat /\ u \in Seq(Record) /\ Len(u) = m + 1 /\ \A n \in 1..m : u[n] = list[n]
  BY LenProperties, AppendProperties
<1>2. f[0] = 0 /\ \A n \in 1..m : f[n] = f[n-1] + RecordSz(list[n])
  BY EndDef
<1>3. g[0] = 0 /\ \A n \in 1..(m + 1) : g[n] = g[n-1] + RecordSz(u[n])
  BY <1>1, EndDef
<1> HIDE DEF u, f, g
<1>4. U \in SUBSET (0..m) /\ 0 \in U
  BY <1>1, <1>2, <1>3
<1>5. ASSUME NEW n \in U, n < m PROVE n + 1 \in U
  <2>1. n + 1 \in 1..m /\ n + 1 \in 1..(m + 1) /\ (n + 1) - 1 = n /\ n + 1 \in 0..m
    BY <1>1, <1>5
  <2> QED BY <2>1, <1>1, <1>2, <1>3
<1>6. U = 0..m
  <2> HIDE DEF U
  <2> QED BY <1>1, <1>4, <1>5, UpTo
<1> QED BY <1>6 DEF u, f, g

(* A record ends after those before it.                                    *)
LEMMA EndMonotone ==
  ASSUME NEW list \in Seq(Record), NEW r \in 0..Len(list), NEW s \in 0..Len(list), r <= s
  PROVE  EndOf(list)[r] <= EndOf(list)[s]
<1> DEFINE m == Len(list)
           f == EndOf(list)
           U == {n \in 0..m : r <= n => f[r] <= f[n]}
<1>1. m \in Nat /\ \A n \in 1..m : RecordSz(list[n]) \in Nat
  BY LenProperties, SizeType
<1>2. (\A n \in 0..m : f[n] \in Nat) /\ \A n \in 1..m : f[n] = f[n-1] + RecordSz(list[n])
  BY EndDef
<1> HIDE DEF f
<1>3. U \in SUBSET (0..m) /\ 0 \in U
  BY <1>1, <1>2
<1>4. ASSUME NEW n \in U, n < m PROVE n + 1 \in U
  <2>1. n + 1 \in 1..m /\ (n + 1) - 1 = n /\ n + 1 \in 0..m /\ n \in 0..m
    BY <1>1, <1>4
  <2>2. f[n + 1] = f[n] + RecordSz(list[n + 1]) /\ f[n] \in Nat /\ RecordSz(list[n + 1]) \in Nat
    BY <2>1, <1>1, <1>2
  <2>3. r <= n + 1 => r = n + 1 \/ r <= n
    BY <2>1
  <2>4. f[r] \in Nat /\ f[n + 1] \in Nat /\ f[n] <= f[n + 1]
    BY <1>2, <2>1, <2>2
  <2> QED BY <2>1, <2>2, <2>3, <2>4
<1>5. U = 0..m
  <2> HIDE DEF U
  <2> QED BY <1>1, <1>3, <1>4, UpTo
<1> QED BY <1>5 DEF f

LEMMA JoinedDef ==
  ASSUME NEW S, NEW list \in Seq(Seq(S))
  PROVE  /\ Joined(list)[0] = <<>>
         /\ \A n \in 0..Len(list) : Joined(list)[n] \in Seq(S)
         /\ \A n \in 1..Len(list) : Joined(list)[n] = Joined(list)[n-1] \o list[n]
<1> DEFINE m == Len(list)
           Q == Seq(S)
           T == [n \in 0..m |-> Q]
           step == [p \in (1..m) \X Q |-> p[2] \o list[p[1]]]
           Body(f) == [n \in 0..m |-> IF n = 0 THEN <<>> ELSE f[n-1] \o list[n]]
<1>1. m \in Nat /\ \A n \in 1..m : list[n] \in Q
  BY LenProperties
<1>2. \A n \in 1..m : \A x \in Q : x \o list[n] \in Q
  BY <1>1, ConcatProperties
<1>0. <<>> \in Q
  OBVIOUS
<1> HIDE DEF Q
<1>3. Carries(T, step, m) /\ <<>> \in T[0]
  <2>1. <<>> \in T[0]
    BY <1>1, <1>0
  <2>2. ASSUME NEW n \in 1..m, NEW x \in T[n-1] PROVE step[<<n, x>>] \in T[n]
    <3>1. n - 1 \in 0..m /\ n \in 0..m
      BY <1>1
    <3>2. x \in Q /\ T[n] = Q
      BY <3>1
    <3>3. step[<<n, x>>] = x \o list[n]
      BY <3>2
    <3> HIDE DEF step, T
    <3> QED BY <3>2, <3>3, <1>2
  <2> QED BY <2>1, <2>2 DEF Carries
<1>4. PICK f : Recurs(f, m, <<>>, step) /\ \A n \in 0..m : f[n] \in T[n]
  <2> HIDE DEF m, T, step
  <2> QED BY <1>1, <1>3, Recurrence
<1>5. f = Body(f)
  <2>1. ASSUME NEW n \in 0..m, n # 0 PROVE step[<<n, f[n-1]>>] = f[n-1] \o list[n]
    <3>1. n \in 1..m /\ n - 1 \in 0..m
      BY <1>1, <2>1
    <3>2. f[n-1] \in Q
      BY <3>1, <1>4
    <3> QED BY <3>1, <3>2
  <2> HIDE DEF step
  <2> QED BY <2>1, <1>4 DEF Recurs
<1> DEFINE h == Joined(list)
<1>6. h = Body(h)
  BY <1>5 DEF Joined
<1> HIDE DEF h
<1>7. h[0] = <<>> /\ \A n \in 1..m : h[n] = h[n-1] \o list[n]
  <2>1. 0 \in 0..m /\ \A n \in 1..m : n \in 0..m /\ n # 0
    BY <1>1
  <2> QED BY <1>6, <2>1
<1>8. \A n \in 0..m : h[n] \in T[n]
  <2>1. ASSUME NEW n \in 1..m, h[n-1] \in T[n-1] PROVE h[n] = step[<<n, h[n-1]>>]
    <3>1. n - 1 \in 0..m
      BY <1>1
    <3>2. h[n-1] \in Q
      BY <3>1, <2>1
    <3> QED BY <3>2, <1>7
  <2>2. h[0] \in T[0]
    BY <1>3, <1>7
  <2> HIDE DEF m, T, step
  <2> QED BY <1>1, <1>3, <2>1, <2>2, RecurrenceType
<1>9. \A n \in 0..m : h[n] \in Q
  BY <1>8
<1> QED BY <1>7, <1>9 DEF h, Q

(* FlattenSeq joins them all.                                              *)
LEMMA FlattenLemma ==
  ASSUME NEW S, NEW list \in Seq(Seq(S))
  PROVE  FlattenSeq(list) = Joined(list)[Len(list)]
<1> DEFINE m == Len(list)
           j == Joined(list)
           Body(f) == [n \in 1..m |-> IF n = 1 THEN list[n] ELSE f[n-1] \o list[n]]
           g == CHOOSE f : f = Body(f)
           k == [n \in 1..m |-> j[n]]
           U == {n \in 0..m : n = 0 \/ g[n] = j[n]}
<1>1. m \in Nat /\ \A n \in 1..m : list[n] \in Seq(S)
  BY LenProperties
<1>2. j[0] = <<>> /\ \A n \in 1..m : j[n] = j[n-1] \o list[n]
  BY JoinedDef
<1> HIDE DEF j
<1>3. 1 \in 1..m => j[1] = list[1]
  <2>1. 1 \in 1..m => j[1] = j[1-1] \o list[1]
    BY <1>2
  <2>2. 1 - 1 = 0
    OBVIOUS
  <2>3. 1 \in 1..m => j[1] = <<>> \o list[1]
    BY <2>1, <2>2, <1>2
  <2> QED BY <2>3, <1>1, ConcatEmptySeq
<1>4. k = Body(k)
  <2>1. ASSUME NEW n \in 1..m, n # 1 PROVE k[n] = k[n-1] \o list[n]
    <3>1. n - 1 \in 1..m
      BY <1>1, <2>1
    <3> QED BY <3>1, <1>2
  <2> QED BY <2>1, <1>3
<1>5. g = Body(g)
  <2> HIDE DEF k
  <2> QED BY <1>4
<1> HIDE DEF g
<1>6. U \in SUBSET (0..m) /\ 0 \in U
  BY <1>1
<1>7. ASSUME NEW n \in U, n < m PROVE n + 1 \in U
  <2>0. n \in 0..m
    BY <1>7
  <2>1. n + 1 \in 1..m /\ (n + 1) - 1 = n /\ n + 1 \in 0..m
    BY <2>0, <1>1, <1>7
  <2>2. CASE n = 0
    <3>1. n + 1 = 1 /\ 1 \in 1..m
      BY <2>1, <2>2
    <3>2. g[1] = list[1]
      BY <1>5, <3>1
    <3> QED BY <2>1, <3>1, <3>2, <1>3
  <2>3. CASE n # 0
    <3>1. n + 1 # 1 /\ g[n] = j[n]
      BY <2>3
    <3>2. g[n + 1] = g[n] \o list[n + 1] /\ j[n + 1] = j[n] \o list[n + 1]
      BY <1>5, <1>2, <3>1, <2>1
    <3> QED BY <2>1, <3>1, <3>2
  <2> QED BY <2>2, <2>3
<1>8. U = 0..m
  <2> HIDE DEF U
  <2> QED BY <1>1, <1>6, <1>7, UpTo
<1>9. FlattenSeq(list) = IF m = 0 THEN list ELSE g[m]
  BY DEF FlattenSeq, g
<1>10. CASE m = 0
  <2>1. list = <<>>
    BY <1>10
  <2> QED BY <1>10, <2>1, <1>2, <1>9 DEF j
<1>11. CASE m # 0
  <2>1. g[m] = j[m]
    BY <1>1, <1>8, <1>11
  <2> QED BY <1>11, <2>1, <1>9 DEF j
<1> QED BY <1>10, <1>11

(* What the first blocks make is the beginning of what all make.           *)
LEMMA PrefixTransitive ==
  ASSUME NEW S, NEW s \in Seq(S), NEW t \in Seq(S), NEW u \in Seq(S),
         IsPrefix(s, t), IsPrefix(t, u)
  PROVE  IsPrefix(s, u)
<1>1. /\ Len(s) \in Nat /\ Len(t) \in Nat /\ Len(u) \in Nat
      /\ Len(s) <= Len(t) /\ Len(t) <= Len(u)
  BY LenProperties DEF IsPrefix
<1>2. \A n \in 1..Len(s) : s[n] = t[n]
  BY PrefixElements
<1>3. \A n \in 1..Len(t) : t[n] = u[n]
  BY PrefixElements
<1>4. \A n \in 1..Len(s) : s[n] = u[n]
  BY <1>1, <1>2, <1>3
<1> QED BY <1>1, <1>4, PrefixByElements

(* The first blocks, joined, begin all of them joined.                     *)
LEMMA JoinedMonotone ==
  ASSUME NEW S, NEW list \in Seq(Seq(S)),
         NEW r \in 0..Len(list), NEW s \in 0..Len(list), r <= s
  PROVE  IsPrefix(Joined(list)[r], Joined(list)[s])
<1> DEFINE m == Len(list)
           j == Joined(list)
           U == {n \in 0..m : r <= n => IsPrefix(j[r], j[n])}
<1>1. m \in Nat /\ \A n \in 1..m : list[n] \in Seq(S)
  BY LenProperties
<1>2. /\ \A n \in 0..m : j[n] \in Seq(S)
      /\ \A n \in 1..m : j[n] = j[n-1] \o list[n]
  BY JoinedDef
<1> HIDE DEF j
<1>3. ASSUME NEW n \in 0..m PROVE IsPrefix(j[n], j[n])
  <2>1. j[n] \in Seq(S) /\ Len(j[n]) \in Nat
    BY <1>2, LenProperties
  <2> QED BY <2>1, PrefixByElements
<1>4. U \in SUBSET (0..m) /\ 0 \in U
  <2>1. 0 \in 0..m /\ (r <= 0 => r = 0)
    BY <1>1
  <2> QED BY <2>1, <1>3
<1>5. ASSUME NEW n \in U, n < m PROVE n + 1 \in U
  <2>0. n \in 0..m
    BY <1>5
  <2>1. n + 1 \in 1..m /\ (n + 1) - 1 = n /\ n + 1 \in 0..m
    BY <2>0, <1>1, <1>5
  <2>2. j[n + 1] = j[n] \o list[n + 1] /\ j[n] \in Seq(S) /\ list[n + 1] \in Seq(S)
    BY <2>0, <2>1, <1>1, <1>2
  <2>3. IsPrefix(j[n], j[n + 1])
    <3>1. IsPrefix(j[n], j[n] \o list[n + 1])
      BY <2>2, ConcatPrefix
    <3> QED BY <2>2, <3>1
  <2>4. r <= n + 1 => r = n + 1 \/ r <= n
    BY <2>0
  <2>5. r <= n => IsPrefix(j[r], j[n])
    BY <1>5
  <2>6. r <= n => IsPrefix(j[r], j[n + 1])
    <3>1. j[r] \in Seq(S) /\ j[n + 1] \in Seq(S)
      BY <1>2, <2>1
    <3> QED BY <2>2, <2>3, <2>5, <3>1, PrefixTransitive
  <2>7. IsPrefix(j[n + 1], j[n + 1])
    BY <2>1, <1>3
  <2> QED BY <2>1, <2>4, <2>6, <2>7
<1>6. U = 0..m
  <2> HIDE DEF U
  <2> QED BY <1>1, <1>4, <1>5, UpTo
<1>7. IsPrefix(j[r], j[s])
  BY <1>6
<1> QED BY <1>7 DEF j

-----------------------------------------------------------------------------
(* The fields of a record follow each other and fill it.                   *)
LEMMA FieldStep ==
  ASSUME NEW e \in Record, NEW f \in FieldsOf(e)
  PROVE  /\ f \in Fields
         /\ Width(f, e.len) \in Nat \ {0}
         /\ FieldAt(e, f) \in Nat
         /\ FieldAt(e, f) + Width(f, e.len) <= RecordSz(e)
         /\ After(f, e.compressed) = "put" =>
              FieldAt(e, f) + Width(f, e.len) = RecordSz(e)
         /\ After(f, e.compressed) # "put" =>
              /\ After(f, e.compressed) \in FieldsOf(e)
              /\ After(f, e.compressed) # "flag"
              /\ FieldAt(e, After(f, e.compressed)) = FieldAt(e, f) + Width(f, e.len)
<1>1. e.compressed \in {0, 1} /\ e.len \in Nat \ {0}
  BY RecordsAssumption DEF Record
<1>2. OffsetSz \in Nat \ {0} /\ LenSz \in Nat \ {0}
  BY RecordsAssumption
<1>3. CASE e.compressed = 1
  <2>1. f \in {"flag", "offset", "len"}
    BY <1>3 DEF FieldsOf
  <2>2. CASE f = "flag"
    BY <1>1, <1>2, <1>3, <2>2 DEF FieldsOf, Fields, Width, FieldAt, RecordSz, After
  <2>3. CASE f = "offset"
    BY <1>1, <1>2, <1>3, <2>3 DEF FieldsOf, Fields, Width, FieldAt, RecordSz, After
  <2>4. CASE f = "len"
    BY <1>1, <1>2, <1>3, <2>4 DEF FieldsOf, Fields, Width, FieldAt, RecordSz, After
  <2> QED BY <2>1, <2>2, <2>3, <2>4
<1>4. CASE e.compressed = 0
  <2>1. f \in {"flag", "len", "data"}
    BY <1>4 DEF FieldsOf
  <2>2. CASE f = "flag"
    BY <1>1, <1>2, <1>4, <2>2 DEF FieldsOf, Fields, Width, FieldAt, RecordSz, After
  <2>3. CASE f = "len"
    BY <1>1, <1>2, <1>4, <2>3 DEF FieldsOf, Fields, Width, FieldAt, RecordSz, After
  <2>4. CASE f = "data"
    BY <1>1, <1>2, <1>4, <2>4 DEF FieldsOf, Fields, Width, FieldAt, RecordSz, After
  <2> QED BY <2>1, <2>2, <2>3, <2>4
<1> QED BY <1>1, <1>3, <1>4

LEMMA FieldsApart ==
  ASSUME NEW e \in Record, NEW f \in FieldsOf(e), NEW g \in FieldsOf(e), f # g
  PROVE  \/ FieldAt(e, f) + Width(f, e.len) <= FieldAt(e, g)
         \/ FieldAt(e, g) + Width(g, e.len) <= FieldAt(e, f)
<1>1. e.compressed \in {0, 1} /\ e.len \in Nat \ {0}
  BY RecordsAssumption DEF Record
<1>2. OffsetSz \in Nat \ {0} /\ LenSz \in Nat \ {0}
  BY RecordsAssumption
<1> DEFINE Apart(a, b) == \/ FieldAt(e, a) + Width(a, e.len) <= FieldAt(e, b)
                          \/ FieldAt(e, b) + Width(b, e.len) <= FieldAt(e, a)
<1>3. CASE e.compressed = 1
  <2>1. Apart("flag", "offset") /\ Apart("flag", "len") /\ Apart("offset", "len")
    BY <1>1, <1>2, <1>3 DEF Width, FieldAt
  <2>2. f \in {"flag", "offset", "len"} /\ g \in {"flag", "offset", "len"}
    BY <1>3 DEF FieldsOf
  <2>3. \A a, b : Apart(a, b) => Apart(b, a)
    OBVIOUS
  <2> HIDE DEF Apart
  <2>4. Apart(f, g)
    BY <2>1, <2>2, <2>3
  <2> QED BY <2>4 DEF Apart
<1>4. CASE e.compressed = 0
  <2>1. Apart("flag", "len") /\ Apart("flag", "data") /\ Apart("len", "data")
    BY <1>1, <1>2, <1>4 DEF Width, FieldAt
  <2>2. f \in {"flag", "len", "data"} /\ g \in {"flag", "len", "data"}
    BY <1>4 DEF FieldsOf
  <2>3. \A a, b : Apart(a, b) => Apart(b, a)
    OBVIOUS
  <2> HIDE DEF Apart
  <2>4. Apart(f, g)
    BY <2>1, <2>2, <2>3
  <2> QED BY <2>4 DEF Apart
<1> QED BY <1>1, <1>3, <1>4

(* Byte m of field f of record r goes within the record, and no other byte *)
(* goes there.                                                             *)
IsByte(r, f, m) ==
  r \in 1..Len(sent) /\ f \in FieldsOf(sent[r]) /\ m \in 1..Width(f, sent[r].len)

LEMMA PlaceBounds ==
  ASSUME sent \in Seq(Record), NEW r, NEW f, NEW m, IsByte(r, f, m)
  PROVE  /\ r - 1 \in 0..Len(sent) /\ r \in 0..Len(sent) /\ sent[r] \in Record
         /\ m \in Nat /\ FieldStart(r, f) \in Nat
         /\ EndOf(sent)[r - 1] < FieldStart(r, f) + m
         /\ FieldStart(r, f) + m <= EndOf(sent)[r]
<1>1. Len(sent) \in Nat /\ r \in 1..Len(sent) /\ sent[r] \in Record
  BY LenProperties DEF IsByte
<1>2. r - 1 \in 0..Len(sent) /\ r \in 0..Len(sent)
  BY <1>1
<1>3. /\ Width(f, sent[r].len) \in Nat \ {0}
      /\ FieldAt(sent[r], f) \in Nat
      /\ FieldAt(sent[r], f) + Width(f, sent[r].len) <= RecordSz(sent[r])
  BY <1>1, FieldStep DEF IsByte
<1>4. m \in 1..Width(f, sent[r].len)
  BY DEF IsByte
<1>5. EndOf(sent)[r - 1] \in Nat /\ EndOf(sent)[r] = EndOf(sent)[r - 1] + RecordSz(sent[r])
  BY <1>1, <1>2, EndDef
<1>6. RecordSz(sent[r]) \in Nat
  BY <1>1, SizeType
<1>7. FieldStart(r, f) = EndOf(sent)[r - 1] + FieldAt(sent[r], f)
  BY DEF FieldStart, StartIn
<1> DEFINE a == EndOf(sent)[r - 1]
           b == FieldAt(sent[r], f)
           w == Width(f, sent[r].len)
           z == RecordSz(sent[r])
<1>8. /\ a + b \in Nat /\ m \in Nat
      /\ a < (a + b) + m /\ (a + b) + m <= a + z
  <2>1. a \in Nat /\ b \in Nat /\ w \in Nat /\ z \in Nat /\ b + w <= z /\ m \in 1..w
    BY <1>3, <1>4, <1>5, <1>6
  <2> HIDE DEF a, b, w, z
  <2> QED BY <2>1
<1> QED BY <1>1, <1>2, <1>5, <1>7, <1>8

LEMMA PlaceInjective ==
  ASSUME sent \in Seq(Record), NEW r, NEW f, NEW m, NEW s, NEW g, NEW n,
         IsByte(r, f, m), IsByte(s, g, n), FieldStart(r, f) + m = FieldStart(s, g) + n
  PROVE  r = s /\ f = g /\ m = n
<1> DEFINE d == EndOf(sent)
<1>1. /\ r - 1 \in 0..Len(sent) /\ r \in 0..Len(sent) /\ sent[r] \in Record
      /\ m \in Nat /\ FieldStart(r, f) \in Nat
      /\ d[r - 1] < FieldStart(r, f) + m /\ FieldStart(r, f) + m <= d[r]
  BY PlaceBounds
<1>2. /\ s - 1 \in 0..Len(sent) /\ s \in 0..Len(sent) /\ sent[s] \in Record
      /\ n \in Nat /\ FieldStart(s, g) \in Nat
      /\ d[s - 1] < FieldStart(s, g) + n /\ FieldStart(s, g) + n <= d[s]
  BY PlaceBounds
<1>3. \A p \in 0..Len(sent) : d[p] \in Nat
  BY EndDef
<1>4. \A p, q \in 0..Len(sent) : p <= q => d[p] <= d[q]
  BY EndMonotone
<1> HIDE DEF d
<1>0. Len(sent) \in Nat
  BY LenProperties
<1>5. r = s
  <2>1. ~(r < s)
    <3>1. SUFFICES ASSUME r < s PROVE FALSE
      OBVIOUS
    <3>2. r <= s - 1
      BY <3>1, <1>1, <1>2, <1>0
    <3>3. d[r] <= d[s - 1]
      BY <3>2, <1>1, <1>2, <1>4
    <3>4. d[r] \in Nat /\ d[s - 1] \in Nat
      BY <1>1, <1>2, <1>3
    <3> QED BY <3>3, <3>4, <1>1, <1>2
  <2>2. ~(s < r)
    <3>1. SUFFICES ASSUME s < r PROVE FALSE
      OBVIOUS
    <3>2. s <= r - 1
      BY <3>1, <1>1, <1>2, <1>0
    <3>3. d[s] <= d[r - 1]
      BY <3>2, <1>1, <1>2, <1>4
    <3>4. d[s] \in Nat /\ d[r - 1] \in Nat
      BY <1>1, <1>2, <1>3
    <3> QED BY <3>3, <3>4, <1>1, <1>2
  <2> QED BY <2>1, <2>2, <1>1, <1>2, <1>0
<1>6. f \in FieldsOf(sent[r]) /\ g \in FieldsOf(sent[r])
  BY <1>5 DEF IsByte
<1>7. /\ m \in 1..Width(f, sent[r].len) /\ n \in 1..Width(g, sent[r].len)
      /\ FieldAt(sent[r], f) + m = FieldAt(sent[r], g) + n
  <2>1. FieldAt(sent[r], f) \in Nat /\ FieldAt(sent[r], g) \in Nat /\ d[r - 1] \in Nat
    BY <1>1, <1>3, <1>6, FieldStep
  <2>2. (d[r - 1] + FieldAt(sent[r], f)) + m = (d[r - 1] + FieldAt(sent[r], g)) + n
    <3>1. FieldStart(r, f) + m = FieldStart(r, g) + n
      BY <1>5
    <3> QED BY <3>1 DEF FieldStart, StartIn, d
  <2>3. m \in 1..Width(f, sent[r].len) /\ n \in 1..Width(g, sent[r].len)
    BY <1>5 DEF IsByte
  <2> DEFINE x == d[r - 1]
             y == FieldAt(sent[r], f)
             z == FieldAt(sent[r], g)
  <2>4. x \in Nat /\ y \in Nat /\ z \in Nat /\ m \in Nat /\ n \in Nat
        /\ (x + y) + m = (x + z) + n
    BY <2>1, <2>2, <1>1, <1>2
  <2> HIDE DEF x, y, z
  <2>5. y + m = z + n
    BY <2>4
  <2> QED BY <2>3, <2>5 DEF y, z
<1>8. /\ Width(f, sent[r].len) \in Nat /\ FieldAt(sent[r], f) \in Nat
      /\ Width(g, sent[r].len) \in Nat /\ FieldAt(sent[r], g) \in Nat
  BY <1>1, <1>6, FieldStep
<1>9. f = g
  <2>1. SUFFICES ASSUME f # g PROVE FALSE
    OBVIOUS
  <2>2. \/ FieldAt(sent[r], f) + Width(f, sent[r].len) <= FieldAt(sent[r], g)
        \/ FieldAt(sent[r], g) + Width(g, sent[r].len) <= FieldAt(sent[r], f)
    BY <2>1, <1>1, <1>6, FieldsApart
  <2> QED BY <2>2, <1>7, <1>8
<1> QED BY <1>5, <1>7, <1>8, <1>9

-----------------------------------------------------------------------------
(* The bytes of the file that are there are where they go.                 *)
LEMMA OnFileAt ==
  ASSUME FileType, OnFile, NEW r, NEW f, NEW m, IsByte(r, f, m),
         FieldStart(r, f) + m <= Len(file)
  PROVE  file[FieldStart(r, f) + m] = <<r, f, m>>
<1> DEFINE p == FieldStart(r, f) + m
<1>0. sent \in Seq(Record) /\ Len(file) \in Nat
  BY LenProperties DEF FileType
<1>1. p \in 1..Len(file)
  <2>1. FieldStart(r, f) \in Nat /\ m \in Nat /\ m >= 1
    <3>1. FieldStart(r, f) \in Nat /\ m \in Nat
      BY <1>0, PlaceBounds
    <3>2. m \in 1..Width(f, sent[r].len)
      BY DEF IsByte
    <3> QED BY <3>1, <3>2
  <2> QED BY <2>1, <1>0
<1>2. PICK s \in 1..Len(sent) : \E g \in FieldsOf(sent[s]) : \E n \in 1..Width(g, sent[s].len) :
        p = FieldStart(s, g) + n /\ file[p] = <<s, g, n>>
  <2> HIDE DEF p
  <2> QED BY <1>1 DEF OnFile
<1>3. PICK g \in FieldsOf(sent[s]) : \E n \in 1..Width(g, sent[s].len) :
        p = FieldStart(s, g) + n /\ file[p] = <<s, g, n>>
  BY <1>2
<1>4. PICK n \in 1..Width(g, sent[s].len) : p = FieldStart(s, g) + n /\ file[p] = <<s, g, n>>
  BY <1>3
<1>5. IsByte(s, g, n)
  BY DEF IsByte
<1>6. r = s /\ f = g /\ m = n
  BY <1>0, <1>4, <1>5, PlaceInjective
<1> QED BY <1>4, <1>6

LEMMA FileAtOn ==
  ASSUME FileType, OnFile, NEW p \in 1..Len(file), NEW r, NEW f, NEW m, file[p] = <<r, f, m>>
  PROVE  p = FieldStart(r, f) + m /\ IsByte(r, f, m)
<1>1. PICK s \in 1..Len(sent) : \E g \in FieldsOf(sent[s]) : \E n \in 1..Width(g, sent[s].len) :
        p = FieldStart(s, g) + n /\ file[p] = <<s, g, n>>
  BY DEF OnFile
<1>2. PICK g \in FieldsOf(sent[s]) : \E n \in 1..Width(g, sent[s].len) :
        p = FieldStart(s, g) + n /\ file[p] = <<s, g, n>>
  BY <1>1
<1>3. PICK n \in 1..Width(g, sent[s].len) : p = FieldStart(s, g) + n /\ file[p] = <<s, g, n>>
  BY <1>2
<1>4. r = s /\ f = g /\ m = n
  BY <1>3
<1> QED BY <1>3, <1>4 DEF IsByte

(* A record is complete if the file reaches to its end.                    *)
LEMMA CompleteIs ==
  ASSUME FileType, OnFile, NEW r \in 1..Len(sent)
  PROVE  r \in Complete <=> EndOf(sent)[r] <= Len(file)
<1> DEFINE f == IF sent[r].compressed = 1 THEN "len" ELSE "data"
           m == Width(f, sent[r].len)
<1>1. sent \in Seq(Record) /\ Len(file) \in Nat /\ Len(sent) \in Nat
      /\ DOMAIN sent = 1..Len(sent) /\ sent[r] \in Record
  BY LenProperties DEF FileType
<1>2. f \in FieldsOf(sent[r]) /\ After(f, sent[r].compressed) = "put"
  <2>1. sent[r].compressed \in {0, 1}
    BY <1>1 DEF Record
  <2> QED BY <2>1 DEF FieldsOf, After
<1> HIDE DEF f
<1>3. m \in Nat \ {0} /\ FieldAt(sent[r], f) \in Nat
      /\ FieldAt(sent[r], f) + m = RecordSz(sent[r])
  BY <1>1, <1>2, FieldStep
<1>4. IsByte(r, f, m)
  BY <1>2, <1>3 DEF IsByte
<1>5. FieldStart(r, f) + m = EndOf(sent)[r]
  <2>1. EndOf(sent)[r] = EndOf(sent)[r-1] + RecordSz(sent[r]) /\ EndOf(sent)[r-1] \in Nat
    BY <1>1, EndDef
  <2> DEFINE x == EndOf(sent)[r-1]
             y == FieldAt(sent[r], f)
  <2>2. x \in Nat /\ y \in Nat /\ m \in Nat
    BY <1>3, <2>1
  <2>3. EndOf(sent)[r] = x + (y + m) /\ FieldStart(r, f) = x + y
    BY <2>1, <1>3 DEF FieldStart, StartIn
  <2> HIDE DEF x, y, m
  <2> QED BY <2>2, <2>3
<1>6. r \in Complete <=> \E p \in 1..Len(file) : file[p] = <<r, f, m>>
  BY <1>1 DEF Complete, Contains, f
<1> HIDE DEF m
<1>7. ASSUME r \in Complete PROVE EndOf(sent)[r] <= Len(file)
  <2>1. PICK p \in 1..Len(file) : file[p] = <<r, f, m>>
    BY <1>6, <1>7
  <2>2. p = FieldStart(r, f) + m
    BY <2>1, FileAtOn
  <2> QED BY <2>2, <1>5
<1>8. ASSUME EndOf(sent)[r] <= Len(file) PROVE r \in Complete
  <2>1. file[EndOf(sent)[r]] = <<r, f, m>>
    BY <1>4, <1>5, <1>8, OnFileAt
  <2>2. EndOf(sent)[r] \in 1..Len(file)
    <3>1. EndOf(sent)[r] \in Nat
      BY <1>1, EndDef
    <3>2. EndOf(sent)[r-1] < EndOf(sent)[r] /\ EndOf(sent)[r-1] \in Nat
      <4>1. EndOf(sent)[r-1] < FieldStart(r, f) + m
        BY <1>1, <1>4, PlaceBounds
      <4> QED BY <4>1, <1>1, <1>5, EndDef
    <3> QED BY <3>1, <3>2, <1>1, <1>8
  <2> QED BY <1>6, <2>1, <2>2
<1> QED BY <1>7, <1>8

(* What is put out of them.                                                *)
LEMMA PartType ==
  ASSUME NEW r \in Nat, NEW n \in Nat
  PROVE  Part(r, n) \in Seq(Out) /\ Len(Part(r, n)) = n
<1>1. Part(r, n) \in [1..n -> Out]
  BY DEF Part, Out
<1> QED BY <1>1

BlocksOf(list, C) ==
  [r \in 1..Len(list) |-> IF r \in C THEN [n \in 1..list[r].len |-> <<r, n>>] ELSE <<>>]

LEMMA BlocksOfType ==
  ASSUME NEW list \in Seq(Record), NEW C
  PROVE  BlocksOf(list, C) \in Seq(Seq(Out)) /\ Len(BlocksOf(list, C)) = Len(list)
<1>1. ASSUME NEW r \in 1..Len(list)
      PROVE  (IF r \in C THEN [n \in 1..list[r].len |-> <<r, n>>] ELSE <<>>) \in Seq(Out)
  <2>1. list[r] \in Record
    BY LenProperties
  <2>2. list[r].len \in Nat /\ r \in Nat
    <3>1. list[r].len \in Nat \ {0}
      BY <2>1, SizeType
    <3> QED BY <3>1
  <2>3. Part(r, list[r].len) \in Seq(Out)
    BY <2>2, PartType
  <2> QED BY <2>3 DEF Part
<1> DEFINE Q == Seq(Out)
           h == BlocksOf(list, C)
<1>2. h \in [1..Len(list) -> Q]
  BY <1>1 DEF BlocksOf
<1>3. Len(list) \in Nat
  BY LenProperties
<1> HIDE DEF Q, h
<1>4. h \in Seq(Q) /\ Len(h) = Len(list)
  BY <1>2, <1>3
<1> QED BY <1>4 DEF Q, h

LEMMA BlocksLemma ==
  ASSUME FileType, OnFile
  PROVE  /\ Blocks \in Seq(Seq(Out)) /\ Len(Blocks) = Len(sent)
         /\ \A r \in 1..Len(sent) :
              Blocks[r] = IF EndOf(sent)[r] <= Len(file) THEN Part(r, sent[r].len) ELSE <<>>
<1>1. Blocks = BlocksOf(sent, Complete)
  BY DEF Blocks, BlocksOf, Block
<1>2. Blocks \in Seq(Seq(Out)) /\ Len(Blocks) = Len(sent)
  BY <1>1, BlocksOfType DEF FileType
<1>3. ASSUME NEW r \in 1..Len(sent)
      PROVE  Blocks[r] = IF EndOf(sent)[r] <= Len(file) THEN Part(r, sent[r].len) ELSE <<>>
  BY CompleteIs DEF Blocks, Block, Part
<1> QED BY <1>2, <1>3

(* The blocks of the records before r begin what the whole file makes, and *)
(* a part of the block of r follows if the file reaches to the end of it.  *)
LEMMA WholeLemma ==
  ASSUME FileType, OnFile
  PROVE  /\ Whole \in Seq(Out)
         /\ \A r \in 0..Len(sent) :
              /\ Joined(Blocks)[r] \in Seq(Out)
              /\ IsPrefix(Joined(Blocks)[r], Whole)
         /\ \A r \in 1..Len(sent) : EndOf(sent)[r] <= Len(file) =>
              Joined(Blocks)[r] = Joined(Blocks)[r - 1] \o Part(r, sent[r].len)
<1> DEFINE j == Joined(Blocks)
<1>1. Blocks \in Seq(Seq(Out)) /\ Len(Blocks) = Len(sent) /\ Len(sent) \in Nat
  BY BlocksLemma, LenProperties DEF FileType
<1>2. /\ \A r \in 0..Len(sent) : j[r] \in Seq(Out)
      /\ \A r \in 1..Len(sent) : j[r] = j[r-1] \o Blocks[r]
  BY <1>1, JoinedDef
<1>3. Whole = j[Len(sent)]
  <2>1. Whole = FlattenSeq(Blocks)
    BY DEF Whole, Blocks
  <2> QED BY <2>1, <1>1, FlattenLemma
<1>4. ASSUME NEW r \in 0..Len(sent) PROVE IsPrefix(j[r], Whole)
  <2>1. r <= Len(sent) /\ Len(sent) \in 0..Len(sent)
    BY <1>1
  <2> QED BY <2>1, <1>1, <1>3, JoinedMonotone
<1>5. ASSUME NEW r \in 1..Len(sent), EndOf(sent)[r] <= Len(file)
      PROVE  j[r] = j[r - 1] \o Part(r, sent[r].len)
  <2>1. Blocks[r] = Part(r, sent[r].len)
    BY <1>5, BlocksLemma
  <2> HIDE DEF j
  <2> QED BY <2>1, <1>2
<1>6. Whole \in Seq(Out)
  BY <1>1, <1>2, <1>3
<1> QED BY <1>2, <1>4, <1>5, <1>6

-----------------------------------------------------------------------------
(* Reading.  A read that is not short, at the start of a field, gives that *)
(* field.                                                                  *)
LEMMA GotLength ==
  ASSUME file \in Seq(Byte), pos \in Nat, NEW w \in Nat \ {0}
  PROVE  /\ Len(Got(w)) = w <=> pos + w <= Len(file)
         /\ Got(w) = <<>> <=> Len(file) <= pos
         /\ pos + w <= Len(file) => Got(w) = [m \in 1..w |-> file[pos + m]]
<1>1. Len(file) \in Nat
  BY LenProperties
<1>2. CASE pos + w < Len(file)
  <2>1. Got(w) = SubSeq(file, pos + 1, pos + w)
    BY <1>2 DEF Got
  <2>2. Got(w) = [m \in 1..w |-> file[pos + m]]
    BY <1>1, <2>1
  <2>3. Len(Got(w)) = w /\ Got(w) # <<>>
    BY <2>2
  <2> QED BY <1>1, <1>2, <2>2, <2>3
<1>3. CASE pos + w >= Len(file)
  <2>1. Got(w) = SubSeq(file, pos + 1, Len(file))
    BY <1>1, <1>3 DEF Got
  <2>2. CASE pos < Len(file)
    <3> DEFINE n == Len(file) - pos
    <3>1. n \in Nat \ {0} /\ n <= w
      BY <1>1, <1>3, <2>2
    <3>2. Got(w) = [m \in 1..n |-> file[pos + m]]
      <4>1. Len(file) = pos + n
        BY <1>1
      <4> HIDE DEF n
      <4>2. Got(w) = SubSeq(file, pos + 1, pos + n)
        BY <2>1, <4>1
      <4>3. n \in Nat /\ pos + n <= Len(file)
        BY <1>1, <3>1, <4>1
      <4>4. SubSeq(file, pos + 1, pos + n) = [m \in 1..n |-> file[pos + m]]
        BY <4>3, SubSeqIs
      <4> QED BY <4>2, <4>4
    <3>3. Len(Got(w)) = n /\ Got(w) # <<>>
      <4> HIDE DEF n
      <4> QED BY <3>1, <3>2
    <3>4. n = w <=> pos + w <= Len(file)
      BY <1>1, <1>3
    <3>5. ~(Len(file) <= pos)
      BY <1>1, <2>2
    <3> HIDE DEF n
    <3> QED BY <3>2, <3>3, <3>4, <3>5
  <2>3. CASE pos >= Len(file)
    <3>1. Got(w) = <<>>
      BY <1>1, <2>1, <2>3
    <3>2. Len(Got(w)) = 0
      BY <3>1
    <3> QED BY <1>1, <2>3, <3>1, <3>2
  <2> QED BY <1>1, <2>2, <2>3
<1> QED BY <1>1, <1>2, <1>3

LEMMA GotField ==
  ASSUME FileType, OnFile, NEW r \in 1..Len(sent), NEW f \in FieldsOf(sent[r]),
         NEW w, w = Width(f, sent[r].len), pos = FieldStart(r, f), pos + w <= Len(file)
  PROVE  /\ Got(w) = Field(r, f) /\ Got(w) # <<>> /\ Len(Got(w)) = w
         /\ IsField(Got(w), f) /\ RecordOf(Got(w)) = r
<1>1. sent \in Seq(Record) /\ file \in Seq(Byte) /\ sent[r] \in Record /\ Len(file) \in Nat
  BY LenProperties DEF FileType
<1>2. w \in Nat \ {0}
  BY <1>1, FieldStep
<1>3. \A m \in 1..w : IsByte(r, f, m)
  BY DEF IsByte
<1>4. pos \in Nat
  <2>1. 1 \in 1..w
    BY <1>2
  <2>2. IsByte(r, f, 1)
    BY <2>1, <1>3
  <2> QED BY <1>1, <2>2, PlaceBounds
<1>5. Got(w) = [m \in 1..w |-> file[pos + m]] /\ Len(Got(w)) = w
  BY <1>1, <1>2, <1>4, GotLength
<1>6. ASSUME NEW m \in 1..w PROVE file[pos + m] = <<r, f, m>>
  <2>1. pos + m <= Len(file)
    BY <1>1, <1>2, <1>4
  <2>2. FieldStart(r, f) + m <= Len(file)
    BY <2>1
  <2>3. file[FieldStart(r, f) + m] = <<r, f, m>>
    BY <2>2, <1>3, OnFileAt
  <2> QED BY <2>3
<1>7. Got(w) = [m \in 1..w |-> <<r, f, m>>]
  BY <1>5, <1>6
<1>8. Got(w) = Field(r, f)
  BY <1>7 DEF Field
<1> HIDE DEF Field
<1>9. Got(w)[1] = <<r, f, 1>> /\ Got(w) # <<>>
  BY <1>2, <1>5, <1>7
<1>10. RecordOf(Got(w)) = r
  BY <1>9 DEF RecordOf
<1>11. IsField(Got(w), f)
  <2> DEFINE g == Got(w)
  <2>0. Got(w)[1][1] = r
    BY <1>9
  <2>1. g = [m \in 1..w |-> <<r, f, m>>] /\ Len(g) = w /\ g # <<>> /\ g[1][1] = r
    BY <1>5, <1>7, <1>9, <2>0
  <2> HIDE DEF g
  <2>2. g = [n \in 1..Len(g) |-> <<g[1][1], f, n>>]
    BY <2>1
  <2>3. IsField(g, f)
    BY <2>1, <2>2 DEF IsField
  <2> QED BY <2>3 DEF g
<1> QED BY <1>5, <1>8, <1>9, <1>10, <1>11

(* Fragments of a block put together.                                      *)
LEMMA FragmentBytes ==
  ASSUME NEW r \in Nat, NEW from \in Nat, NEW n \in Nat \ {0},
         buff = Field(r, "data"), from + n <= sent[r].len, sent[r].len \in Nat
  PROVE  BytesAt(from, n) = [m \in 1..n |-> <<r, from + m>>]
<1> DEFINE z == sent[r].len
<1>1. buff = [m \in 1..z |-> <<r, "data", m>>]
  BY DEF Field, Width
<1>2. z \in Nat /\ 1 \in 1..z
  OBVIOUS
<1>3. DOMAIN buff = 1..z /\ RecordOf(buff) = r
  BY <1>1, <1>2 DEF RecordOf
<1>4. ASSUME NEW m \in 1..n PROVE from + m \in DOMAIN buff /\ buff[from + m][3] = from + m
  <2>1. from + m \in 1..z
    OBVIOUS
  <2> QED BY <2>1, <1>1, <1>3
<1> QED BY <1>3, <1>4 DEF BytesAt

LEMMA FragmentLemma ==
  ASSUME NEW r \in Nat, NEW from \in Nat, NEW n \in Nat \ {0},
         buff = Field(r, "data"), from + n <= sent[r].len, sent[r].len \in Nat
  PROVE  Part(r, from) \o BytesAt(from, n) = Part(r, from + n)
<1> DEFINE a == Part(r, from)
           b == [m \in 1..n |-> <<r, from + m>>]
           c == Part(r, from + n)
<1>5. BytesAt(from, n) = b
  BY FragmentBytes
<1>6. a \in Seq(Out) /\ Len(a) = from /\ c \in Seq(Out) /\ Len(c) = from + n
  <2>1. from + n \in Nat
    OBVIOUS
  <2>2. c \in Seq(Out) /\ Len(c) = from + n
    BY <2>1, PartType
  <2> QED BY <2>2, PartType
<1>7. b \in Seq(Out) /\ Len(b) = n
  <2>1. b \in [1..n -> Out]
    BY DEF Out
  <2> HIDE DEF b
  <2> QED BY <2>1
<1>8. a \o b = c
  <2> DEFINE d == a \o b
  <2>1. d \in Seq(Out)
    <3> HIDE DEF a, b
    <3> QED BY <1>6, <1>7, ConcatProperties
  <2>2. Len(d) = from + n
    <3> HIDE DEF a, b
    <3>1. Len(d) = Len(a) + Len(b)
      BY <1>6, <1>7, ConcatProperties
    <3> QED BY <3>1, <1>6, <1>7
  <2>3. \A m \in 1..(from + n) : d[m] = IF m <= from THEN a[m] ELSE b[m - from]
    <3> HIDE DEF a, b
    <3> QED BY <1>6, <1>7, ConcatProperties
  <2>4. ASSUME NEW m \in 1..(from + n) PROVE d[m] = c[m]
    <3>1. c[m] = <<r, m>>
      BY DEF Part
    <3>2. CASE m <= from
      <4>1. a[m] = <<r, m>>
        BY <3>2 DEF Part
      <4> HIDE DEF a, b, c, d
      <4> QED BY <2>3, <3>1, <3>2, <4>1
    <3>3. CASE m > from
      <4>1. m - from \in 1..n /\ from + (m - from) = m
        BY <3>3
      <4>2. b[m - from] = <<r, m>>
        BY <4>1
      <4> HIDE DEF a, b, c, d
      <4>3. ~(m <= from)
        BY <3>3
      <4>4. d[m] = b[m - from]
        BY <2>3, <4>3
      <4> QED BY <3>1, <4>2, <4>4
    <3> HIDE DEF a, b, c, d
    <3> QED BY <3>2, <3>3
  <2> HIDE DEF a, b, c, d
  <2>5. d = c
    BY <1>6, <2>1, <2>2, <2>4, SeqEqual
  <2> QED BY <2>5 DEF d
<1> HIDE DEF a, b, c
<1>9. Part(r, from) \o b = Part(r, from + n)
  BY <1>8 DEF a, c
<1> QED BY <1>5, <1>9

LEMMA OutAssociative ==
  ASSUME NEW s \in Seq(Out), NEW a \in Seq(Out), NEW b \in Seq(Out)
  PROVE  (s \o a) \o b = s \o (a \o b)
BY ConcatAssociative

LEMMA FragmentPut ==
  ASSUME NEW r \in Nat, NEW from \in Nat, NEW n \in Nat \ {0}, NEW s \in Seq(Out),
         buff = Field(r, "data"), from + n <= sent[r].len, sent[r].len \in Nat
  PROVE  (s \o Part(r, from)) \o BytesAt(from, n) = s \o Part(r, from + n)
<1>1. Part(r, from) \o BytesAt(from, n) = Part(r, from + n)
  BY FragmentLemma
<1>2. BytesAt(from, n) \in Seq(Out)
  <2>1. BytesAt(from, n) = [m \in 1..n |-> <<r, from + m>>]
    BY FragmentBytes
  <2> DEFINE b == [m \in 1..n |-> <<r, from + m>>]
  <2>2. b \in [1..n -> Out]
    BY DEF Out
  <2> HIDE DEF b
  <2>3. b \in Seq(Out)
    BY <2>2
  <2> QED BY <2>1, <2>3 DEF b
<1>3. Part(r, from) \in Seq(Out)
  BY PartType
<1>4. (s \o Part(r, from)) \o BytesAt(from, n) = s \o (Part(r, from) \o BytesAt(from, n))
  BY <1>2, <1>3, OutAssociative
<1> QED BY <1>1, <1>4

(* A part of a block is a beginning of it.                                 *)
LEMMA PartPrefix ==
  ASSUME NEW r \in Nat, NEW n \in Nat, NEW m \in 0..n, NEW s \in Seq(Out)
  PROVE  IsPrefix(s \o Part(r, m), s \o Part(r, n))
<1> DEFINE a == Part(r, m)
           b == Part(r, n)
           c == s \o a
           d == s \o b
<1>1. a \in Seq(Out) /\ Len(a) = m /\ b \in Seq(Out) /\ Len(b) = n /\ m \in Nat /\ m <= n
  BY PartType
<1>2. Len(s) \in Nat
  BY LenProperties
<1>3. \A p \in 1..m : a[p] = b[p]
  BY DEF Part
<1> HIDE DEF a, b
<1>4. c \in Seq(Out) /\ d \in Seq(Out)
  BY <1>1, ConcatProperties
<1>5. Len(c) = Len(s) + m
  BY <1>1, ConcatProperties
<1>6. Len(d) = Len(s) + n
  BY <1>1, ConcatProperties
<1>7. \A p \in 1..(Len(s) + m) : c[p] = IF p <= Len(s) THEN s[p] ELSE a[p - Len(s)]
  BY <1>1, ConcatProperties
<1>8. \A p \in 1..(Len(s) + n) : d[p] = IF p <= Len(s) THEN s[p] ELSE b[p - Len(s)]
  BY <1>1, ConcatProperties
<1> HIDE DEF c, d
<1>9. ASSUME NEW p \in 1..(Len(s) + m) PROVE c[p] = d[p]
  <2>1. p \in 1..(Len(s) + n)
    BY <1>1, <1>2
  <2>2. CASE p <= Len(s)
    BY <1>7, <1>8, <2>1, <2>2
  <2>3. CASE ~(p <= Len(s))
    <3>1. p - Len(s) \in 1..m
      BY <1>1, <1>2, <2>3
    <3> QED BY <1>3, <1>7, <1>8, <2>1, <2>3, <3>1
  <2> QED BY <2>2, <2>3
<1>10. IsPrefix(c, d)
  <2>1. Len(c) <= Len(d)
    BY <1>1, <1>2, <1>5, <1>6
  <2> QED BY <1>4, <1>5, <1>9, <2>1, PrefixByElements
<1> QED BY <1>10 DEF a, b, c, d

-----------------------------------------------------------------------------
(* The invariant holds of the empty file.                                  *)
LEMMA NothingJoined ==
  ASSUME NEW list \in Seq(Record), NEW C
  PROVE  Joined(BlocksOf(list, C))[0] = <<>>
BY BlocksOfType, JoinedDef

LEMMA AtStart ==
  ASSUME sent \in Seq(Record), file \in Seq(Byte), out = <<>>, pos = 0
  PROVE  AtRecord(1)
<1>1. Joined(Blocks)[0] = <<>>
  <2>1. Blocks = BlocksOf(sent, Complete)
    BY DEF Blocks, BlocksOf, Block
  <2> QED BY <2>1, NothingJoined
<1>2. EndOf(sent)[0] = 0
  BY EndDef
<1>3. Len(sent) \in Nat /\ Len(file) \in Nat /\ 1 - 1 = 0
  BY LenProperties
<1> QED BY <1>1, <1>2, <1>3 DEF AtRecord, Before

LEMMA RecordsInit == Init => RecordsInv
<1> SUFFICES ASSUME Init PROVE RecordsInv
  OBVIOUS
<1>1. /\ file = <<>> /\ sent = <<>> /\ writing = "next"
      /\ reading = "flag" /\ pos = 0 /\ out = <<>>
  BY DEF Init
<1>2. FileType
  BY <1>1 DEF FileType
<1>3. OnFile
  BY <1>1 DEF OnFile
<1>4. Len(sent) = 0 /\ Len(file) = 0
  BY <1>1
<1>5. EndOf(sent)[0] = 0
  BY <1>2, EndDef DEF FileType
<1>6. WriterInv
  BY <1>1, <1>4, <1>5 DEF WriterInv, Ends, Fields
<1>7. AtRecord(1)
  BY <1>1, <1>2, AtStart DEF FileType
<1>8. ReaderInv
  BY <1>1, <1>7 DEF ReaderInv, Fields
<1> QED BY <1>2, <1>3, <1>6, <1>8 DEF RecordsInv

(* Before compress.c has ended decompress.c has not begun.                 *)
LEMMA NotBegun ==
  ASSUME RecordsInv, writing # "ended", UNCHANGED decVars, FileType'
  PROVE  ReaderInv'
<1>1. reading = "flag" /\ pos = 0 /\ out = <<>>
  BY DEF RecordsInv, ReaderInv
<1>2. reading' = "flag" /\ pos' = 0 /\ out' = <<>>
  BY <1>1 DEF decVars
<1>3. AtRecord(1)'
  <2>1. Joined(Blocks')[0] = <<>>
    <3>1. Blocks' = BlocksOf(sent', Complete')
      BY DEF Blocks, BlocksOf, Block
    <3>2. sent' \in Seq(Record)
      BY DEF FileType
    <3> QED BY <3>1, <3>2, NothingJoined
  <2>2. EndOf(sent')[0] = 0
    BY EndDef DEF FileType
  <2>3. Len(sent') \in Nat /\ Len(file') \in Nat /\ 1 - 1 = 0
    BY LenProperties DEF FileType
  <2> QED BY <1>2, <2>1, <2>2, <2>3 DEF AtRecord, Before
<1> QED BY <1>2, <1>3 DEF ReaderInv, Fields

LEMMA NewRecordStep ==
  ASSUME RecordsInv, NEW c \in {0, 1}, NEW n \in Lens, NewRecord(c, n)
  PROVE  RecordsInv'
<1> DEFINE e == [compressed |-> c, len |-> n]
           k == Len(sent)
<1>1. /\ writing = "next" /\ sent' = Append(sent, e) /\ writing' = "flag"
      /\ file' = file /\ UNCHANGED decVars
  BY DEF NewRecord
<1>2. sent \in Seq(Record) /\ file \in Seq(Byte) /\ e \in Record
      /\ k \in Nat /\ Len(file) \in Nat
  BY LenProperties DEF RecordsInv, FileType, Record
<1> HIDE DEF e
<1>3. /\ sent' \in Seq(Record) /\ Len(sent') = k + 1 /\ sent' # <<>>
      /\ sent'[k + 1] = e /\ \A r \in 1..k : sent'[r] = sent[r]
  BY <1>1, <1>2, AppendProperties
<1>4. FileType'
  BY <1>1, <1>2, <1>3 DEF FileType, Fields
<1>5. \A r \in 0..k : EndOf(sent')[r] = EndOf(sent)[r]
  BY <1>1, <1>2, EndAppend
<1>6. \A r \in 1..k : \A f : StartIn(sent', r, f) = StartIn(sent, r, f)
  <2>1. \A r \in 1..k : r - 1 \in 0..k
    BY <1>2
  <2> QED BY <2>1, <1>3, <1>5 DEF StartIn
<1>7. OnFile'
  <2>1. SUFFICES ASSUME NEW p \in 1..Len(file)
                 PROVE  \E r \in 1..(k + 1) : \E f \in FieldsOf(sent'[r]) :
                          \E m \in 1..Width(f, sent'[r].len) :
                            p = StartIn(sent', r, f) + m /\ file[p] = <<r, f, m>>
    BY <1>1, <1>3 DEF OnFile, FieldStart
  <2>2. PICK r \in 1..k : \E f \in FieldsOf(sent[r]) : \E m \in 1..Width(f, sent[r].len) :
          p = FieldStart(r, f) + m /\ file[p] = <<r, f, m>>
    BY DEF RecordsInv, OnFile
  <2>3. PICK f \in FieldsOf(sent[r]) : \E m \in 1..Width(f, sent[r].len) :
          p = FieldStart(r, f) + m /\ file[p] = <<r, f, m>>
    BY <2>2
  <2>4. PICK m \in 1..Width(f, sent[r].len) : p = FieldStart(r, f) + m /\ file[p] = <<r, f, m>>
    BY <2>3
  <2>5. r \in 1..(k + 1) /\ sent'[r] = sent[r] /\ StartIn(sent', r, f) = FieldStart(r, f)
    BY <1>2, <1>3, <1>6 DEF FieldStart
  <2> QED BY <2>4, <2>5
<1>8. Len(file) = EndOf(sent)[k] /\ EndOf(sent)[k] \in Nat /\ k \in 0..k
  <2>1. k \in 0..k
    BY <1>2
  <2> QED BY <2>1, <1>1, <1>2, EndDef DEF RecordsInv, WriterInv, Ends
<1>9. WriterInv'
  <2>1. StartIn(sent', k + 1, "flag") = Len(file)
    <3>1. (k + 1) - 1 = k
      BY <1>2
    <3>2. StartIn(sent', k + 1, "flag") = EndOf(sent')[k] + 0
      BY <3>1 DEF StartIn, FieldAt
    <3> QED BY <3>2, <1>5, <1>8
  <2>2. Len(file) <= Ends'
    <3>1. k \in 0..Len(sent') /\ k + 1 \in 0..Len(sent') /\ k <= k + 1
      BY <1>2, <1>3
    <3>2. EndOf(sent')[k] <= EndOf(sent')[k + 1]
      BY <3>1, <1>3, EndMonotone
    <3>3. Ends' = EndOf(sent')[k + 1]
      BY <1>3 DEF Ends
    <3> QED BY <3>2, <3>3, <1>5, <1>8
  <2>3. "flag" \in FieldsOf(sent'[k + 1])
    BY DEF FieldsOf
  <2>4. Len(sent') = k + 1 /\ Len(file') = Len(file)
    BY <1>1, <1>3
  <2> HIDE DEF k
  <2> QED BY <1>1, <1>3, <2>1, <2>2, <2>3, <2>4 DEF WriterInv, FieldStart
<1>10. ReaderInv'
  BY <1>1, <1>4, NotBegun
<1> QED BY <1>4, <1>7, <1>9, <1>10 DEF RecordsInv

LEMMA WriteFieldStep ==
  ASSUME RecordsInv, WriteField
  PROVE  RecordsInv'
<1> DEFINE k == Len(sent)
           w == Width(writing, sent[k].len)
           bytes == Field(k, writing)
           next == After(writing, sent[k].compressed)
<1>1. /\ writing \notin {"next", "ended"} /\ sent' = sent /\ UNCHANGED decVars
      /\ \E n \in 0..Len(bytes) :
           /\ file' = file \o SubSeq(bytes, 1, n)
           /\ writing' = IF n < Len(bytes) THEN "ended" ELSE IF next = "put" THEN "next" ELSE next
  BY DEF WriteField
<1>2. /\ sent \in Seq(Record) /\ file \in Seq(Byte) /\ k \in Nat /\ Len(file) \in Nat
      /\ writing \in Fields
  BY <1>1, LenProperties DEF RecordsInv, FileType
<1>3. /\ sent # <<>> /\ writing \in FieldsOf(sent[k])
      /\ Len(file) = FieldStart(k, writing)
  BY <1>2 DEF RecordsInv, WriterInv
<1>4. k \in 1..k /\ sent[k] \in Record
  <2>1. k # 0
    BY <1>2, <1>3, EmptySeq
  <2>2. k \in 1..k
    BY <1>2, <2>1
  <2> QED BY <1>2, <2>2, LenProperties
<1>5. /\ w \in Nat \ {0} /\ FieldAt(sent[k], writing) \in Nat
      /\ FieldAt(sent[k], writing) + w <= RecordSz(sent[k])
      /\ next = "put" => FieldAt(sent[k], writing) + w = RecordSz(sent[k])
      /\ next # "put" => /\ next \in FieldsOf(sent[k]) /\ next # "flag"
                         /\ FieldAt(sent[k], next) = FieldAt(sent[k], writing) + w
  BY <1>3, <1>4, FieldStep
<1>6. next # "put" => next \in Fields
  BY <1>4, <1>5, FieldStep
<1> HIDE DEF next, k, w
<1>7. bytes = [m \in 1..w |-> <<k, writing, m>>] /\ Len(bytes) = w
  <2>1. bytes = [m \in 1..w |-> <<k, writing, m>>]
    BY DEF Field, w, k
  <2> QED BY <1>5, <2>1
<1> HIDE DEF bytes
<1>8. PICK n \in 0..w :
        /\ file' = file \o SubSeq(bytes, 1, n)
        /\ writing' = IF n < w THEN "ended" ELSE IF next = "put" THEN "next" ELSE next
  BY <1>1, <1>7
<1> DEFINE piece == SubSeq(bytes, 1, n)
<1>9. piece = [m \in 1..n |-> <<k, writing, m>>] /\ n \in Nat
  BY <1>5, <1>7
<1>10. piece \in Seq(Byte) /\ Len(piece) = n
  <2>1. piece \in [1..n -> Byte]
    <3>1. \A m \in 1..n : <<k, writing, m>> \in Byte
      BY <1>2, <1>9 DEF Byte
    <3> HIDE DEF piece
    <3> QED BY <3>1, <1>9
  <2> HIDE DEF piece
  <2> QED BY <2>1, <1>9
<1> HIDE DEF piece
<1>11. file' = file \o piece
  BY <1>8 DEF piece
<1>12. file' \in Seq(Byte)
  BY <1>2, <1>10, <1>11, ConcatProperties
<1>13. Len(file') = Len(file) + n
  <2>1. Len(file') = Len(file) + Len(piece)
    BY <1>2, <1>10, <1>11, ConcatProperties
  <2> QED BY <2>1, <1>10
<1>14. \A p \in 1..(Len(file) + n) :
         file'[p] = IF p <= Len(file) THEN file[p] ELSE <<k, writing, p - Len(file)>>
  <2>1. \A p \in 1..(Len(file) + Len(piece)) :
          file'[p] = IF p <= Len(file) THEN file[p] ELSE piece[p - Len(file)]
    BY <1>2, <1>10, <1>11, ConcatProperties
  <2>2. ASSUME NEW p \in 1..(Len(file) + n), ~(p <= Len(file))
        PROVE  piece[p - Len(file)] = <<k, writing, p - Len(file)>>
    <3>1. p - Len(file) \in 1..n
      BY <1>2, <1>9, <2>2
    <3> QED BY <3>1, <1>9
  <2> QED BY <2>1, <2>2, <1>10
<1>15. FileType'
  <2>1. writing' \in Fields \cup {"next", "ended"}
    BY <1>6, <1>8
  <2> QED BY <2>1, <1>1, <1>2, <1>12 DEF FileType
<1>16. \A r, f : StartIn(sent', r, f) = FieldStart(r, f)
  BY <1>1 DEF FieldStart
<1>17. OnFile'
  <2>1. SUFFICES ASSUME NEW p \in 1..(Len(file) + n)
                 PROVE  \E r \in 1..Len(sent) : \E f \in FieldsOf(sent[r]) :
                          \E m \in 1..Width(f, sent[r].len) :
                            p = FieldStart(r, f) + m /\ file'[p] = <<r, f, m>>
    <3>1. sent' = sent
      BY <1>1
    <3> QED BY <3>1, <1>13 DEF OnFile, FieldStart
  <2>2. CASE p <= Len(file)
    <3>1. p \in 1..Len(file) /\ file'[p] = file[p]
      <4>1. p \in 1..Len(file)
        BY <1>2, <1>9, <2>2
      <4>2. file'[p] = file[p]
        BY <1>14, <2>2
      <4> QED BY <4>1, <4>2
    <3> QED BY <3>1 DEF RecordsInv, OnFile
  <2>3. CASE ~(p <= Len(file))
    <3> DEFINE m == p - Len(file)
    <3>1. m \in 1..w /\ p = Len(file) + m
      BY <1>2, <1>5, <1>8, <2>3
    <3>2. file'[p] = <<k, writing, m>>
      BY <1>14, <2>3
    <3> HIDE DEF m
    <3>3. p = FieldStart(k, writing) + m
      BY <1>3, <3>1
    <3> QED BY <1>3, <1>4, <3>1, <3>2, <3>3 DEF k, w
  <2> QED BY <2>2, <2>3
<1>18. /\ EndOf(sent)[k-1] \in Nat
       /\ Ends = EndOf(sent)[k-1] + RecordSz(sent[k])
       /\ Len(file) = EndOf(sent)[k-1] + FieldAt(sent[k], writing)
       /\ next # "put" => FieldStart(k, next) = EndOf(sent)[k-1] + FieldAt(sent[k], next)
       /\ RecordSz(sent[k]) \in Nat
  <2>1. k - 1 \in 0..Len(sent) /\ k \in 1..Len(sent) /\ Ends = EndOf(sent)[k]
    BY <1>2, <1>4 DEF Ends, k
  <2>2. EndOf(sent)[k-1] \in Nat /\ EndOf(sent)[k] = EndOf(sent)[k-1] + RecordSz(sent[k])
    BY <1>2, <2>1, EndDef
  <2>3. RecordSz(sent[k]) \in Nat
    BY <1>4, SizeType
  <2> QED BY <1>3, <2>1, <2>2, <2>3 DEF FieldStart, StartIn
<1>19. /\ Len(file') <= Ends
       /\ n = w => IF next = "put" THEN Len(file') = Ends ELSE Len(file') = FieldStart(k, next)
  <2> DEFINE a == EndOf(sent)[k-1]
             b == FieldAt(sent[k], writing)
             z == RecordSz(sent[k])
             q == FieldAt(sent[k], next)
             s == FieldStart(k, next)
             l == Len(file')
  <2>1. /\ a \in Nat /\ b \in Nat /\ z \in Nat /\ w \in Nat /\ n \in 0..w
        /\ b + w <= z /\ l = (a + b) + n /\ Ends = a + z
        /\ next = "put" => b + w = z
        /\ next # "put" => s = a + q /\ q = b + w
    BY <1>5, <1>13, <1>18
  <2> HIDE DEF a, b, z, q, s, l
  <2>2. l <= Ends /\ (n = w => IF next = "put" THEN l = Ends ELSE l = s)
    BY <2>1
  <2> QED BY <2>2 DEF l, s
<1>20. WriterInv'
  <2>1. Ends' = Ends /\ Len(sent') = k
    BY <1>1 DEF Ends, k
  <2>2. CASE n < w
    <3>1. writing' = "ended"
      BY <1>8, <2>2
    <3> QED BY <3>1, <2>1, <1>19 DEF WriterInv, Fields
  <2>3. CASE ~(n < w)
    <3>1. n = w
      BY <1>5, <1>8, <2>3
    <3>2. CASE next = "put"
      <4>1. writing' = "next"
        BY <1>8, <2>3, <3>2
      <4> QED BY <4>1, <3>1, <3>2, <2>1, <1>19 DEF WriterInv, Fields
    <3>3. CASE next # "put"
      <4>1. writing' = next /\ next \in Fields /\ next \in FieldsOf(sent[k])
        BY <1>5, <1>6, <1>8, <2>3, <3>3
      <4>2. next # "next"
        BY <4>1 DEF Fields
      <4>3. Len(file') = StartIn(sent', k, next)
        BY <3>1, <3>3, <1>16, <1>19
      <4>4. writing' \in FieldsOf(sent'[k]) /\ sent' # <<>> /\ writing' # "next"
        BY <4>1, <4>2, <1>1, <1>3
      <4> QED BY <4>1, <4>3, <4>4, <2>1, <1>19 DEF WriterInv, FieldStart
    <3> QED BY <3>2, <3>3
  <2> QED BY <2>2, <2>3
<1>21. ReaderInv'
  BY <1>1, <1>15, NotBegun
<1> QED BY <1>15, <1>17, <1>20, <1>21 DEF RecordsInv

LEMMA EndWritingStep ==
  ASSUME RecordsInv, EndWriting
  PROVE  RecordsInv'
<1>1. /\ writing = "next" /\ writing' = "ended" /\ file' = file /\ sent' = sent
      /\ UNCHANGED decVars
  BY DEF EndWriting
<1>2. FileType'
  BY <1>1 DEF RecordsInv, FileType
<1>3. OnFile'
  BY <1>1 DEF RecordsInv, OnFile, FieldStart
<1>4. WriterInv'
  BY <1>1 DEF RecordsInv, WriterInv, Ends, Fields
<1>5. ReaderInv'
  BY <1>1, <1>2, NotBegun
<1> QED BY <1>2, <1>3, <1>4, <1>5 DEF RecordsInv

(* A step of decompress.c leaves the file.                                 *)
LEMMA FileStays ==
  ASSUME RecordsInv, UNCHANGED compVars
  PROVE  FileType' /\ OnFile' /\ WriterInv' /\ Blocks' = Blocks
<1>1. file' = file /\ sent' = sent /\ writing' = writing
  BY DEF compVars
<1>2. FileType'
  BY <1>1 DEF RecordsInv, FileType
<1>3. OnFile'
  BY <1>1 DEF RecordsInv, OnFile, FieldStart
<1>4. WriterInv'
  BY <1>1 DEF RecordsInv, WriterInv, Ends, FieldStart
<1>5. Blocks' = Blocks
  BY <1>1 DEF Blocks, Block, Complete
<1> QED BY <1>2, <1>3, <1>4, <1>5

(* What it has put out once it is past the records before r.               *)
PutBefore(r, o) == Before(r) /\ o = Joined(Blocks)[r - 1]

LEMMA DoneStep ==
  ASSUME RecordsInv, writing = "ended", UNCHANGED compVars, reading' = "done",
         NEW r \in Nat, PutBefore(r, out')
  PROVE  RecordsInv'
<1>1. FileType' /\ OnFile' /\ WriterInv' /\ Blocks' = Blocks /\ writing' = "ended"
      /\ file' = file /\ sent' = sent
  BY FileStays DEF compVars
<1>2. Before(r)' /\ out' = Joined(Blocks')[r - 1]
  BY <1>1 DEF PutBefore, Before
<1>3. ReaderInv'
  BY <1>1, <1>2 DEF ReaderInv
<1> QED BY <1>1, <1>3 DEF RecordsInv

LEMMA FlagStep ==
  ASSUME RecordsInv, writing = "ended", UNCHANGED compVars, reading' = "flag",
         NEW r \in Nat, PutBefore(r, out'), pos' = EndOf(sent)[r - 1]
  PROVE  RecordsInv'
<1>1. FileType' /\ OnFile' /\ WriterInv' /\ Blocks' = Blocks /\ writing' = "ended"
      /\ file' = file /\ sent' = sent
  BY FileStays DEF compVars
<1>2. AtRecord(r)'
  BY <1>1 DEF PutBefore, Before, AtRecord
<1>3. ReaderInv'
  BY <1>1, <1>2 DEF ReaderInv, Fields
<1> QED BY <1>1, <1>3 DEF RecordsInv

LEMMA FieldStepIn ==
  ASSUME RecordsInv, writing = "ended", UNCHANGED compVars, reading' \in Fields \ {"flag"},
         NEW r \in 1..Len(sent), PutBefore(r, out'),
         reading' \in FieldsOf(sent[r]), pos' = StartIn(sent, r, reading'),
         compressed' = sent[r].compressed,
         reading' = "len" /\ compressed' = 1 => offset' = r,
         reading' = "data" => len' = sent[r].len
  PROVE  RecordsInv'
<1>1. FileType' /\ OnFile' /\ WriterInv' /\ Blocks' = Blocks /\ writing' = "ended"
      /\ file' = file /\ sent' = sent
  BY FileStays DEF compVars
<1>2. AtField(r)'
  BY <1>1 DEF PutBefore, Before, AtField, FieldStart, Fields
<1>3. r \in Nat /\ reading' \in Fields \cup {"put", "done"}
      /\ reading' \in {"offset", "len", "data"}
  BY DEF Fields
<1>4. ReaderInv'
  BY <1>1, <1>2, <1>3 DEF ReaderInv
<1> QED BY <1>1, <1>4 DEF RecordsInv

LEMMA BlockStep ==
  ASSUME RecordsInv, writing = "ended", UNCHANGED compVars, reading' = "put",
         NEW r \in 1..Len(sent), Before(r), pos' = EndOf(sent)[r], pos' <= Len(file),
         compressed' = sent[r].compressed, len' = sent[r].len,
         compressed' = 1 => offset' = r /\ out' = Joined(Blocks)[r - 1],
         compressed' = 0 =>
           /\ buff' = Field(r, "data")
           /\ i' \in 0..len'
           /\ out' = Joined(Blocks)[r - 1] \o Part(r, i')
  PROVE  RecordsInv'
<1>1. FileType' /\ OnFile' /\ WriterInv' /\ Blocks' = Blocks /\ writing' = "ended"
      /\ file' = file /\ sent' = sent
  BY FileStays DEF compVars
<1>2. Before(r)' /\ Field(r, "data")' = Field(r, "data")
  BY <1>1 DEF Before, Field
<1>3. AtBlock(r)'
  BY <1>1, <1>2 DEF AtBlock
<1>4. r \in Nat
  OBVIOUS
<1>5. ReaderInv'
  BY <1>1, <1>3, <1>4 DEF ReaderInv
<1> QED BY <1>1, <1>5 DEF RecordsInv

LEMMA Facts ==
  ASSUME RecordsInv
  PROVE  /\ FileType /\ OnFile /\ sent \in Seq(Record) /\ file \in Seq(Byte)
         /\ Len(sent) \in Nat /\ Len(file) \in Nat
         /\ \A r \in 1..Len(sent) : sent[r] \in Record
BY LenProperties DEF RecordsInv, FileType

LEMMA ReadFlagStep ==
  ASSUME RecordsInv, ReadFlag
  PROVE  RecordsInv'
<1>1. /\ writing = "ended" /\ reading = "flag" /\ UNCHANGED compVars /\ out' = out
      /\ IF Got(1) = <<>> THEN reading' = "done"
         ELSE /\ compressed' = IF IsField(Got(1), "flag") THEN sent[RecordOf(Got(1))].compressed ELSE 2
              /\ reading' = IF compressed' \in {0, 1} THEN After("flag", compressed') ELSE "done"
              /\ pos' = pos + 1
  BY DEF ReadFlag, Reads
<1>2. PICK r \in Nat : AtRecord(r)
  BY <1>1 DEF RecordsInv, ReaderInv
<1>3. PutBefore(r, out') /\ pos = EndOf(sent)[r - 1]
  BY <1>1, <1>2 DEF AtRecord, PutBefore
<1>4. CASE Got(1) = <<>>
  BY <1>1, <1>3, <1>4, DoneStep
<1>5. CASE Got(1) # <<>>
  <2>1. r \in 1..(Len(sent) + 1) /\ r - 1 \in 0..Len(sent)
    BY <1>3, Facts DEF PutBefore, Before
  <2>2. pos \in Nat
    BY <1>3, <2>1, Facts, EndDef
  <2>3. pos + 1 <= Len(file)
    <3>1. ~(Len(file) <= pos)
      BY <1>5, <2>2, Facts, GotLength
    <3> QED BY <3>1, <2>2, Facts
  <2>4. r \in 1..Len(sent)
    <3>1. r - 1 # Len(sent)
      <4>1. Len(file) <= EndOf(sent)[Len(sent)]
        BY DEF RecordsInv, WriterInv, Ends
      <4>2. SUFFICES ASSUME r - 1 = Len(sent) PROVE FALSE
        OBVIOUS
      <4>3. pos = EndOf(sent)[Len(sent)]
        BY <1>3, <4>2
      <4> QED BY <4>1, <4>3, <2>2, <2>3, Facts
    <3> QED BY <2>1, <3>1, Facts
  <2>5. "flag" \in FieldsOf(sent[r]) /\ Width("flag", sent[r].len) = 1
        /\ FieldAt(sent[r], "flag") = 0
    BY DEF FieldsOf, Width, FieldAt
  <2>6. pos = FieldStart(r, "flag")
    BY <1>3, <2>2, <2>5 DEF FieldStart, StartIn
  <2>7. IsField(Got(1), "flag") /\ RecordOf(Got(1)) = r
    BY <2>3, <2>4, <2>5, <2>6, Facts, GotField
  <2>8. compressed' = sent[r].compressed /\ pos' = pos + 1
    BY <1>1, <1>5, <2>7
  <2>9. sent[r].compressed \in {0, 1}
    BY <2>4, Facts, SizeType
  <2>10. reading' = After("flag", sent[r].compressed)
    BY <1>1, <1>5, <2>8, <2>9
  <2>11. reading' \in {"offset", "len"} /\ reading' \in Fields \ {"flag"} /\ reading' # "put"
         /\ ~(reading' = "len" /\ compressed' = 1) /\ reading' # "data"
    BY <2>8, <2>9, <2>10 DEF After, Fields
  <2>12. reading' \in FieldsOf(sent[r]) /\ FieldAt(sent[r], reading') = 0 + 1
    <3>1. sent[r] \in Record
      BY <2>4, Facts
    <3> QED BY <2>5, <2>10, <2>11, <3>1, FieldStep
  <2>13. pos' = StartIn(sent, r, reading')
    BY <1>3, <2>2, <2>8, <2>12 DEF StartIn
  <2> QED BY <1>1, <1>3, <2>4, <2>8, <2>11, <2>12, <2>13, FieldStepIn
<1> QED BY <1>4, <1>5

(* Reading a field other than the first.                                   *)
LEMMA ReadWholeLemma ==
  ASSUME RecordsInv, NEW f \in {"offset", "len", "data"}, reading = f, NEW n, NEW c,
         n = IF f = "offset" THEN OffsetSz ELSE IF f = "len" THEN LenSz ELSE len,
         c = compressed, ReadWhole(n, f, c)
  PROVE  \E r \in 1..Len(sent) :
           /\ AtField(r) /\ PutBefore(r, out)
           /\ n = Width(f, sent[r].len) /\ c = sent[r].compressed /\ c \in {0, 1}
           /\ \/ reading' = "done"
              \/ /\ reading' = After(f, c) /\ pos' <= Len(file)
                 /\ Got(n) = Field(r, f) /\ IsField(Got(n), f) /\ RecordOf(Got(n)) = r
                 /\ IF reading' = "put" THEN pos' = EndOf(sent)[r]
                    ELSE /\ reading' \in FieldsOf(sent[r])
                         /\ pos' = StartIn(sent, r, reading')
<1>1. PICK r \in Nat : AtField(r)
  BY DEF RecordsInv, ReaderInv
<1>2. r \in 1..Len(sent) /\ PutBefore(r, out) /\ r - 1 \in 0..Len(sent)
  <2>1. Before(r) /\ r <= Len(sent) /\ PutBefore(r, out)
    BY <1>1 DEF AtField, PutBefore
  <2>2. r \in 1..(Len(sent) + 1)
    BY <2>1 DEF Before
  <2> QED BY <2>1, <2>2, Facts
<1>3. sent[r] \in Record
  BY <1>2, Facts
<1>4. /\ f \in FieldsOf(sent[r]) /\ pos = FieldStart(r, f) /\ c = sent[r].compressed
      /\ f = "data" => len = sent[r].len
  BY <1>1 DEF AtField
<1>5. n = Width(f, sent[r].len) /\ c \in {0, 1}
  <2>1. c \in {0, 1}
    BY <1>3, <1>4, SizeType
  <2> QED BY <2>1, <1>4 DEF Width
<1>6. CASE Short(n)
  <2>1. reading' = "done"
    BY <1>6 DEF ReadWhole
  <2> QED BY <1>1, <1>2, <1>4, <1>5, <2>1
<1>7. CASE ~Short(n)
  <2>1. reading' = After(f, c) /\ pos' = pos + n /\ Len(Got(n)) = n
    BY <1>7 DEF ReadWhole, Short
  <2>2. /\ n \in Nat \ {0} /\ FieldAt(sent[r], f) \in Nat
        /\ After(f, c) = "put" => FieldAt(sent[r], f) + n = RecordSz(sent[r])
        /\ After(f, c) # "put" =>
             /\ After(f, c) \in FieldsOf(sent[r])
             /\ FieldAt(sent[r], After(f, c)) = FieldAt(sent[r], f) + n
    BY <1>3, <1>4, <1>5, FieldStep
  <2>3. EndOf(sent)[r-1] \in Nat /\ EndOf(sent)[r] = EndOf(sent)[r-1] + RecordSz(sent[r])
    BY <1>2, Facts, EndDef
  <2>4. pos = EndOf(sent)[r-1] + FieldAt(sent[r], f) /\ pos \in Nat
    <3>1. pos = EndOf(sent)[r-1] + FieldAt(sent[r], f)
      BY <1>4 DEF FieldStart, StartIn
    <3> QED BY <3>1, <2>2, <2>3
  <2>5. pos + n <= Len(file)
    BY <2>1, <2>2, <2>4, Facts, GotLength
  <2>6. Got(n) = Field(r, f) /\ IsField(Got(n), f) /\ RecordOf(Got(n)) = r
    BY <1>2, <1>4, <1>5, <2>5, Facts, GotField
  <2>7. pos' = EndOf(sent)[r-1] + (FieldAt(sent[r], f) + n)
    BY <2>1, <2>2, <2>3, <2>4
  <2>8. reading' = "put" => pos' = EndOf(sent)[r]
    BY <2>1, <2>2, <2>3, <2>7
  <2>9. reading' # "put" => reading' \in FieldsOf(sent[r]) /\ pos' = StartIn(sent, r, reading')
    BY <2>1, <2>2, <2>7 DEF StartIn
  <2>10. pos' <= Len(file)
    BY <2>1, <2>5
  <2> QED BY <1>1, <1>2, <1>4, <1>5, <2>1, <2>6, <2>8, <2>9, <2>10
<1> QED BY <1>6, <1>7

LEMMA ReadOffsetStep ==
  ASSUME RecordsInv, ReadOffset
  PROVE  RecordsInv'
<1>1. /\ writing = "ended" /\ reading = "offset" /\ UNCHANGED compVars /\ out' = out
      /\ compressed' = compressed
      /\ ReadWhole(OffsetSz, "offset", compressed)
      /\ offset' = IF IsField(Got(OffsetSz), "offset") THEN RecordOf(Got(OffsetSz)) ELSE 0
  BY DEF ReadOffset, Reads
<1>2. PICK r \in 1..Len(sent) :
        /\ AtField(r) /\ PutBefore(r, out)
        /\ compressed = sent[r].compressed /\ compressed \in {0, 1}
        /\ \/ reading' = "done"
           \/ /\ reading' = After("offset", compressed)
              /\ IsField(Got(OffsetSz), "offset") /\ RecordOf(Got(OffsetSz)) = r
              /\ IF reading' = "put" THEN pos' = EndOf(sent)[r]
                 ELSE /\ reading' \in FieldsOf(sent[r])
                      /\ pos' = StartIn(sent, r, reading')
  BY <1>1, ReadWholeLemma
<1>3. PutBefore(r, out') /\ r \in Nat
  BY <1>1, <1>2
<1>4. CASE reading' = "done"
  BY <1>1, <1>3, <1>4, DoneStep
<1>5. CASE reading' # "done"
  <2>1. reading' = "len" /\ offset' = r
    BY <1>1, <1>2, <1>5 DEF After
  <2>2. reading' \in Fields \ {"flag"} /\ reading' \in FieldsOf(sent[r])
        /\ pos' = StartIn(sent, r, reading') /\ compressed' = sent[r].compressed
    BY <1>1, <1>2, <1>5, <2>1 DEF Fields
  <2> QED BY <1>1, <1>2, <1>3, <2>1, <2>2, FieldStepIn
<1> QED BY <1>4, <1>5

LEMMA ReadLenStep ==
  ASSUME RecordsInv, ReadLen
  PROVE  RecordsInv'
<1>1. /\ writing = "ended" /\ reading = "len" /\ UNCHANGED compVars /\ out' = out
      /\ compressed' = compressed /\ offset' = offset
      /\ ReadWhole(LenSz, "len", compressed)
      /\ len' = IF IsField(Got(LenSz), "len") THEN sent[RecordOf(Got(LenSz))].len ELSE 0
  BY DEF ReadLen, Reads
<1>2. PICK r \in 1..Len(sent) :
        /\ AtField(r) /\ PutBefore(r, out)
        /\ compressed = sent[r].compressed /\ compressed \in {0, 1}
        /\ \/ reading' = "done"
           \/ /\ reading' = After("len", compressed) /\ pos' <= Len(file)
              /\ IsField(Got(LenSz), "len") /\ RecordOf(Got(LenSz)) = r
              /\ IF reading' = "put" THEN pos' = EndOf(sent)[r]
                 ELSE /\ reading' \in FieldsOf(sent[r])
                      /\ pos' = StartIn(sent, r, reading')
  BY <1>1, ReadWholeLemma
<1>3. PutBefore(r, out') /\ r \in Nat
  BY <1>1, <1>2
<1>4. CASE reading' = "done"
  BY <1>1, <1>3, <1>4, DoneStep
<1>5. CASE reading' # "done"
  <2>1. len' = sent[r].len /\ compressed' = sent[r].compressed
        /\ reading' = IF compressed = 1 THEN "put" ELSE "data"
    BY <1>1, <1>2, <1>5 DEF After
  <2>2. CASE compressed = 1
    <3>1. offset' = r
      BY <1>1, <1>2, <2>2 DEF AtField
    <3>2. reading' = "put" /\ compressed' = 1
      BY <1>1, <2>1, <2>2
    <3>3. pos' = EndOf(sent)[r] /\ pos' <= Len(file)
      BY <1>2, <3>2
    <3>4. Before(r) /\ out' = Joined(Blocks)[r - 1]
      BY <1>3 DEF PutBefore
    <3>5. compressed' # 0
      BY <3>2
    <3> QED BY <1>1, <2>1, <3>1, <3>2, <3>3, <3>4, <3>5, BlockStep
  <2>3. CASE compressed = 0
    <3>1. reading' = "data" /\ reading' \in Fields \ {"flag"}
      BY <2>1, <2>3 DEF Fields
    <3>2. reading' \in FieldsOf(sent[r]) /\ pos' = StartIn(sent, r, reading')
      BY <1>2, <3>1
    <3> QED BY <1>1, <1>3, <2>1, <3>1, <3>2, FieldStepIn
  <2> QED BY <1>2, <2>2, <2>3
<1> QED BY <1>4, <1>5

LEMMA ReadDataStep ==
  ASSUME RecordsInv, ReadData
  PROVE  RecordsInv'
<1>1. /\ writing = "ended" /\ reading = "data" /\ UNCHANGED compVars /\ out' = out
      /\ compressed' = compressed /\ len' = len /\ i' = 0
      /\ \/ ReadWhole(len, "data", compressed) /\ buff' = Got(len)
         \/ reading' = "done"
  BY DEF ReadData, Reads
<1>2. CASE reading' = "done"
  <2>1. PICK r \in Nat : AtField(r)
    BY <1>1 DEF RecordsInv, ReaderInv
  <2>2. PutBefore(r, out')
    BY <1>1, <2>1 DEF AtField, PutBefore
  <2> QED BY <1>1, <1>2, <2>2, DoneStep
<1>3. CASE reading' # "done"
  <2>1. ReadWhole(len, "data", compressed) /\ buff' = Got(len)
    BY <1>1, <1>3
  <2>2. PICK r \in 1..Len(sent) :
          /\ AtField(r) /\ PutBefore(r, out)
          /\ compressed = sent[r].compressed
          /\ \/ reading' = "done"
             \/ /\ reading' = After("data", compressed) /\ pos' <= Len(file)
                /\ Got(len) = Field(r, "data")
                /\ IF reading' = "put" THEN pos' = EndOf(sent)[r]
                   ELSE /\ reading' \in FieldsOf(sent[r])
                        /\ pos' = StartIn(sent, r, reading')
    BY <1>1, <2>1, ReadWholeLemma
  <2>3. reading' = "put" /\ pos' = EndOf(sent)[r] /\ pos' <= Len(file)
        /\ buff' = Field(r, "data")
    BY <2>1, <2>2, <1>3 DEF After
  <2>4. Before(r) /\ out' = Joined(Blocks)[r - 1] /\ len = sent[r].len
        /\ "data" \in FieldsOf(sent[r])
    BY <1>1, <2>2 DEF PutBefore, AtField
  <2>5. compressed' # 1
    BY <1>1, <2>2, <2>4 DEF FieldsOf
  <2>6. out' = Joined(Blocks)[r - 1] \o Part(r, 0)
    <3>1. r - 1 \in 0..Len(sent)
      BY Facts
    <3>2. Joined(Blocks)[r - 1] \in Seq(Out)
      BY <3>1, Facts, WholeLemma
    <3>3. Part(r, 0) = <<>>
      BY DEF Part
    <3> QED BY <2>4, <3>2, <3>3, ConcatEmptySeq
  <2>7. 0 \in 0..len'
    <3>1. sent[r].len \in Nat
      BY Facts, SizeType
    <3> QED BY <1>1, <2>4, <3>1
  <2> QED BY <1>1, <2>2, <2>3, <2>4, <2>5, <2>6, <2>7, BlockStep
<1> QED BY <1>2, <1>3

(* Putting a block out.                                                    *)
LEMMA BlockFacts ==
  ASSUME RecordsInv, reading = "put"
  PROVE  \E r \in 1..Len(sent) :
           /\ AtBlock(r) /\ r - 1 \in 0..Len(sent) /\ r \in Nat
           /\ sent[r].len \in Nat \ {0} /\ len = sent[r].len
           /\ Joined(Blocks)[r - 1] \in Seq(Out)
           /\ Joined(Blocks)[r] = Joined(Blocks)[r - 1] \o Part(r, len)
           /\ PutBefore(r + 1, Joined(Blocks)[r]) /\ pos = EndOf(sent)[(r + 1) - 1]
<1>1. PICK r \in Nat : AtBlock(r)
  BY DEF RecordsInv, ReaderInv
<1>2. /\ Before(r) /\ r <= Len(sent) /\ pos = EndOf(sent)[r] /\ pos <= Len(file)
      /\ len = sent[r].len
  BY <1>1 DEF AtBlock
<1>3. r \in 1..Len(sent) /\ r - 1 \in 0..Len(sent) /\ r + 1 \in 1..(Len(sent) + 1)
      /\ (r + 1) - 1 = r
  BY <1>2, Facts DEF Before
<1>4. sent[r].len \in Nat \ {0}
  BY <1>3, Facts, SizeType
<1>5. /\ Joined(Blocks)[r - 1] \in Seq(Out)
      /\ Joined(Blocks)[r] = Joined(Blocks)[r - 1] \o Part(r, len)
  BY <1>2, <1>3, Facts, WholeLemma
<1>6. PutBefore(r + 1, Joined(Blocks)[r])
  BY <1>2, <1>3 DEF PutBefore, Before
<1> QED BY <1>1, <1>2, <1>3, <1>4, <1>5, <1>6

LEMMA PutReferenceStep ==
  ASSUME RecordsInv, PutReference
  PROVE  RecordsInv'
<1>1. /\ writing = "ended" /\ reading = "put" /\ compressed = 1 /\ UNCHANGED compVars
      /\ out' = out \o [n \in 1..len |-> <<offset, n>>] /\ reading' = "flag" /\ pos' = pos
  BY DEF PutReference, Reads
<1>2. PICK r \in 1..Len(sent) :
        /\ AtBlock(r) /\ r \in Nat
        /\ Joined(Blocks)[r] = Joined(Blocks)[r - 1] \o Part(r, len)
        /\ PutBefore(r + 1, Joined(Blocks)[r]) /\ pos = EndOf(sent)[(r + 1) - 1]
  BY <1>1, BlockFacts
<1>3. offset = r /\ out = Joined(Blocks)[r - 1]
  BY <1>1, <1>2 DEF AtBlock
<1>4. out' = Joined(Blocks)[r]
  BY <1>1, <1>2, <1>3 DEF Part
<1>5. r + 1 \in Nat
  BY <1>2
<1> QED BY <1>1, <1>2, <1>4, <1>5, FlagStep

LEMMA PutFragmentStep ==
  ASSUME RecordsInv, PutFragment
  PROVE  RecordsInv'
<1>1. /\ writing = "ended" /\ reading = "put" /\ compressed = 0 /\ UNCHANGED compVars
      /\ i + FragSz < len /\ out' = out \o BytesAt(i, FragSz) /\ i' = i + FragSz
      /\ reading' = reading /\ pos' = pos
      /\ compressed' = compressed /\ offset' = offset /\ len' = len /\ buff' = buff
  BY DEF PutFragment, MoreToCome, Reads, block
<1>2. PICK r \in 1..Len(sent) :
        /\ AtBlock(r) /\ r \in Nat /\ sent[r].len \in Nat \ {0} /\ len = sent[r].len
        /\ Joined(Blocks)[r - 1] \in Seq(Out)
  BY <1>1, BlockFacts
<1>3. /\ Before(r) /\ pos = EndOf(sent)[r] /\ pos <= Len(file)
      /\ compressed = sent[r].compressed
      /\ buff = Field(r, "data") /\ i \in 0..len
      /\ out = Joined(Blocks)[r - 1] \o Part(r, i)
  BY <1>1, <1>2 DEF AtBlock
<1>4. i \in Nat /\ FragSz \in Nat \ {0} /\ i + FragSz \in 0..len /\ i + FragSz <= sent[r].len
      /\ len \in Nat
  BY <1>1, <1>2, <1>3, RecordsAssumption
<1>5. out' = Joined(Blocks)[r - 1] \o Part(r, i + FragSz)
  BY <1>1, <1>2, <1>3, <1>4, FragmentPut
<1>6. reading' = "put" /\ pos' = EndOf(sent)[r] /\ pos' <= Len(file)
      /\ compressed' = sent[r].compressed /\ compressed' # 1 /\ len' = sent[r].len
      /\ buff' = Field(r, "data") /\ i' \in 0..len'
      /\ out' = Joined(Blocks)[r - 1] \o Part(r, i')
  <2>1. reading' = "put" /\ pos' = EndOf(sent)[r] /\ pos' <= Len(file)
    BY <1>1, <1>3
  <2>2. compressed' = sent[r].compressed /\ compressed' # 1 /\ len' = sent[r].len
    BY <1>1, <1>2, <1>3
  <2>3. buff' = Field(r, "data")
    BY <1>1, <1>3
  <2>4. i' \in 0..len'
    BY <1>1, <1>4
  <2>5. out' = Joined(Blocks)[r - 1] \o Part(r, i')
    BY <1>1, <1>5
  <2> QED BY <2>1, <2>2, <2>3, <2>4, <2>5
<1> QED BY <1>1, <1>2, <1>3, <1>6, BlockStep

LEMMA PutRestStep ==
  ASSUME RecordsInv, PutRest
  PROVE  RecordsInv'
<1>1. /\ writing = "ended" /\ reading = "put" /\ compressed = 0 /\ UNCHANGED compVars
      /\ out' = out \o BytesAt(i, len - i) /\ reading' = "flag" /\ pos' = pos
  BY DEF PutRest, Reads
<1>2. PICK r \in 1..Len(sent) :
        /\ AtBlock(r) /\ r \in Nat /\ sent[r].len \in Nat \ {0} /\ len = sent[r].len
        /\ Joined(Blocks)[r - 1] \in Seq(Out)
        /\ Joined(Blocks)[r] = Joined(Blocks)[r - 1] \o Part(r, len)
        /\ PutBefore(r + 1, Joined(Blocks)[r]) /\ pos = EndOf(sent)[(r + 1) - 1]
  BY <1>1, BlockFacts
<1>3. /\ buff = Field(r, "data") /\ i \in 0..len
      /\ out = Joined(Blocks)[r - 1] \o Part(r, i)
  BY <1>1, <1>2 DEF AtBlock
<1>4. i \in Nat /\ len - i \in Nat /\ i + (len - i) = len /\ i + (len - i) <= sent[r].len
  BY <1>2, <1>3
<1>5. out' = Joined(Blocks)[r]
  <2>1. CASE i = len
    <3>1. BytesAt(i, len - i) = <<>>
      BY <1>4, <2>1 DEF BytesAt
    <3>2. out' = (Joined(Blocks)[r - 1] \o Part(r, len)) \o <<>>
      BY <1>1, <1>3, <2>1, <3>1
    <3>3. Joined(Blocks)[r - 1] \o Part(r, len) \in Seq(Out)
      BY <1>2, PartType, ConcatProperties
    <3> QED BY <1>2, <3>2, <3>3, ConcatEmptySeq
  <2>2. CASE i # len
    <3>1. len - i \in Nat \ {0}
      BY <1>3, <1>4, <2>2
    <3> DEFINE n == len - i
               s == Joined(Blocks)[r - 1]
    <3>2. /\ n \in Nat \ {0} /\ i \in Nat /\ i + n <= sent[r].len /\ sent[r].len \in Nat
          /\ s \in Seq(Out) /\ r \in Nat /\ buff = Field(r, "data")
          /\ out = s \o Part(r, i) /\ out' = out \o BytesAt(i, n)
      BY <1>1, <1>2, <1>3, <1>4, <3>1
    <3> HIDE DEF n, s
    <3>3. (s \o Part(r, i)) \o BytesAt(i, n) = s \o Part(r, i + n)
      BY <3>2, FragmentPut
    <3>4. out' = s \o Part(r, i + n)
      BY <3>2, <3>3
    <3> QED BY <1>2, <1>4, <3>4 DEF n, s
  <2> QED BY <2>1, <2>2
<1>6. r + 1 \in Nat
  BY <1>2
<1> QED BY <1>1, <1>2, <1>5, <1>6, FlagStep

-----------------------------------------------------------------------------
(* RecordsInv is an invariant: the file holds the fields of the records in *)
(* the order compress.c writes them, up to where it was cut off, and       *)
(* decompress.c is at a field of a record whose earlier fields it has, or  *)
(* at a block that is whole, and has put out the blocks of the records     *)
(* before it.                                                              *)
THEOREM RecordsInvariance == Spec => []RecordsInv
<1>1. Init => RecordsInv
  BY RecordsInit
<1>2. RecordsInv /\ [Next]_vars => RecordsInv'
  <2> SUFFICES ASSUME RecordsInv, [Next]_vars PROVE RecordsInv'
    OBVIOUS
  <2>1. ASSUME NEW c \in {0, 1}, NEW n \in Lens, NewRecord(c, n) PROVE RecordsInv'
    BY <2>1, NewRecordStep
  <2>2. CASE WriteField
    BY <2>2, WriteFieldStep
  <2>3. CASE EndWriting
    BY <2>3, EndWritingStep
  <2>4. CASE ReadFlag
    BY <2>4, ReadFlagStep
  <2>5. CASE ReadOffset
    BY <2>5, ReadOffsetStep
  <2>6. CASE ReadLen
    BY <2>6, ReadLenStep
  <2>7. CASE ReadData
    BY <2>7, ReadDataStep
  <2>8. CASE PutReference
    BY <2>8, PutReferenceStep
  <2>9. CASE PutFragment
    BY <2>9, PutFragmentStep
  <2>10. CASE PutRest
    BY <2>10, PutRestStep
  <2>11. CASE UNCHANGED vars
    <3>1. UNCHANGED compVars /\ UNCHANGED decVars
      BY <2>11 DEF vars
    <3>2. FileType' /\ OnFile' /\ WriterInv' /\ Blocks' = Blocks
      BY <3>1, FileStays
    <3>3. ReaderInv'
      BY <3>1, <3>2 DEF RecordsInv, ReaderInv, compVars, decVars, block,
         AtRecord, AtField, AtBlock, Before, FieldStart, Field
    <3> QED BY <3>2, <3>3 DEF RecordsInv
  <2> QED BY <2>1, <2>2, <2>3, <2>4, <2>5, <2>6, <2>7, <2>8, <2>9, <2>10, <2>11
          DEF Next, Decompress
<1> QED BY <1>1, <1>2, PTL DEF Spec

(* Whatever the widths of the fields and the lengths of the blocks, and    *)
(* however many the records: wherever the file was cut off, decompress.c   *)
(* puts out only blocks of records that are complete, each byte once and   *)
(* in order; of the one that is cut off, nothing.                          *)
THEOREM AlwaysNothingOfACutRecord == Spec => []NothingOfACutRecord
<1>1. RecordsInv => NothingOfACutRecord
  <2> SUFFICES ASSUME RecordsInv PROVE IsPrefix(out, Whole)
    BY DEF NothingOfACutRecord
  <2>1. reading \in Fields \cup {"put", "done"}
    BY DEF RecordsInv, ReaderInv
  <2>2. ASSUME NEW r \in Nat, Before(r), out = Joined(Blocks)[r - 1]
        PROVE  IsPrefix(out, Whole)
    <3>1. r - 1 \in 0..Len(sent)
      BY <2>2, Facts DEF Before
    <3> QED BY <2>2, <3>1, Facts, WholeLemma
  <2>3. CASE reading \in Fields \cup {"done"}
    <3>1. \E r \in Nat : Before(r) /\ out = Joined(Blocks)[r - 1]
      BY <2>3 DEF RecordsInv, ReaderInv, Fields, AtRecord, AtField
    <3> QED BY <3>1, <2>2
  <2>4. CASE reading = "put"
    <3>1. PICK r \in 1..Len(sent) :
            /\ AtBlock(r) /\ r - 1 \in 0..Len(sent) /\ r \in Nat
            /\ sent[r].len \in Nat \ {0} /\ len = sent[r].len
            /\ Joined(Blocks)[r - 1] \in Seq(Out)
            /\ Joined(Blocks)[r] = Joined(Blocks)[r - 1] \o Part(r, len)
      BY <2>4, BlockFacts
    <3>2. CASE compressed = 1
      <4>1. Before(r) /\ out = Joined(Blocks)[r - 1]
        BY <3>1, <3>2 DEF AtBlock
      <4> QED BY <3>1, <4>1, <2>2
    <3>3. CASE compressed = 0
      <4>1. i \in 0..len /\ out = Joined(Blocks)[r - 1] \o Part(r, i)
        BY <3>1, <3>3 DEF AtBlock
      <4>2. IsPrefix(out, Joined(Blocks)[r])
        BY <3>1, <4>1, PartPrefix
      <4>3. /\ IsPrefix(Joined(Blocks)[r], Whole)
            /\ Joined(Blocks)[r] \in Seq(Out) /\ Whole \in Seq(Out)
        <5>1. r \in 0..Len(sent)
          BY <3>1
        <5> QED BY <5>1, Facts, WholeLemma
      <4>4. out \in Seq(Out)
        <5>1. Part(r, i) \in Seq(Out)
          BY <3>1, <4>1, PartType
        <5> QED BY <3>1, <4>1, <5>1, ConcatProperties
      <4> QED BY <4>2, <4>3, <4>4, PrefixTransitive
    <3>4. compressed \in {0, 1}
      <4>1. compressed = sent[r].compressed /\ sent[r] \in Record
        BY <3>1, Facts DEF AtBlock
      <4> QED BY <4>1, SizeType
    <3> QED BY <3>2, <3>3, <3>4
  <2> QED BY <2>1, <2>3, <2>4
<1> QED BY <1>1, RecordsInvariance, PTL
=============================================================================
