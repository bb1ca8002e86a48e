----------------------------- MODULE Induction -----------------------------
(* Induction over the natural numbers, and functions defined by recursion  *)
(* on them, as facts about sets and functions.                             *)
EXTENDS Integers, WellFoundedInduction, TLAPS

(* A set of numbers with 0 that is closed under successor is all of Nat.   *)
LEMMA SetInduction ==
  ASSUME NEW T \in SUBSET Nat, 0 \in T, \A n \in T : n + 1 \in T
  PROVE  T = Nat
<1> DEFINE R == OpToRel(<, Nat)
<1>1. SUFFICES ASSUME T # Nat PROVE FALSE
  OBVIOUS
<1>2. \E x \in Nat \ T : \A y \in Nat \ T : ~(<<y, x>> \in R)
  <2>1. Nat \ T # {} /\ Nat \ T \subseteq Nat
    BY <1>1
  <2>2. IsWellFoundedOn(R, Nat)
    BY NatLessThanWellFounded
  <2> HIDE DEF R
  <2> QED BY <2>1, <2>2, WFMin
<1>3. PICK x \in Nat \ T : \A y \in Nat \ T : ~(<<y, x>> \in R)
  BY <1>2
<1>4. \A y \in Nat : y < x => <<y, x>> \in R
  BY DEF OpToRel
<1>5. x # 0 /\ x - 1 \in Nat /\ x - 1 < x
  OBVIOUS
<1>6. x - 1 \in T
  BY <1>3, <1>4, <1>5
<1> QED BY <1>5, <1>6

(* Every set of numbers that is not empty has a least element.             *)
LEMMA LeastElement ==
  ASSUME NEW T \in SUBSET Nat, T # {}
  PROVE  \E m \in T : \A n \in T : m <= n
<1> DEFINE R == OpToRel(<, Nat)
<1>1. \E x \in T : \A y \in T : ~(<<y, x>> \in R)
  <2>1. IsWellFoundedOn(R, Nat)
    BY NatLessThanWellFounded
  <2> HIDE DEF R
  <2> QED BY <2>1, WFMin
<1>2. PICK x \in T : \A y \in T : ~(<<y, x>> \in R)
  BY <1>1
<1>3. \A y \in T : ~(y < x)
  BY <1>2 DEF OpToRel
<1> QED BY <1>3

(* Bounded induction.                                                      *)
LEMMA UpTo ==
  ASSUME NEW m \in Nat, NEW T \in SUBSET (0..m), 0 \in T,
         \A n \in T : n < m => n + 1 \in T
  PROVE  T = 0..m
<1> DEFINE U == T \cup {n \in Nat : n > m}
<1>1. U \in SUBSET Nat /\ 0 \in U
  <2>1. 0..m \subseteq Nat
    OBVIOUS
  <2> QED BY <2>1
<1>2. ASSUME NEW n \in U PROVE n + 1 \in U
  OBVIOUS
<1>3. U = Nat
  <2> HIDE DEF U
  <2> QED BY <1>1, <1>2, SetInduction
<1>4. ASSUME NEW n \in 0..m PROVE n \in T
  <2>1. n \in U
    BY <1>3
  <2> QED BY <2>1
<1> QED BY <1>4

(* Finite beginnings of the function defined by f[0] = a and               *)
(* f[n + 1] = step[<<n, f[n]>>].                                           *)
Begins(f, a, step, m) ==
  /\ f[0] = a
  /\ \A n \in Nat : n < m => f[n + 1] = step[<<n, f[n]>>]

LEMMA RecursionUnique ==
  ASSUME NEW a, NEW step, NEW f, NEW g, NEW m \in Nat, NEW k \in Nat,
         Begins(f, a, step, m), Begins(g, a, step, k)
  PROVE  \A n \in Nat : n <= m /\ n <= k => f[n] = g[n]
<1> DEFINE T == {n \in Nat : n <= m /\ n <= k => f[n] = g[n]}
<1>1. T \in SUBSET Nat /\ 0 \in T
  BY DEF Begins
<1>2. ASSUME NEW n \in T PROVE n + 1 \in T
  <2>1. SUFFICES ASSUME n + 1 <= m, n + 1 <= k PROVE f[n + 1] = g[n + 1]
    OBVIOUS
  <2>2. f[n + 1] = step[<<n, f[n]>>] /\ g[n + 1] = step[<<n, g[n]>>]
    BY <2>1 DEF Begins
  <2> QED BY <2>1, <2>2
<1>3. T = Nat
  <2> HIDE DEF T
  <2> QED BY <1>1, <1>2, SetInduction
<1> QED BY <1>3

Obeys(f, S, a, step) ==
  f \in [Nat -> S] /\ f[0] = a /\ \A n \in Nat : f[n + 1] = step[<<n, f[n]>>]

LEMMA Recursion ==
  ASSUME NEW S, NEW a \in S, NEW step \in [Nat \X S -> S]
  PROVE  \E f : Obeys(f, S, a, step)
<1> DEFINE T == {m \in Nat : \E f \in [Nat -> S] : Begins(f, a, step, m)}
<1>1. T \in SUBSET Nat /\ 0 \in T
  <2>1. [n \in Nat |-> a] \in [Nat -> S] /\ Begins([n \in Nat |-> a], a, step, 0)
    BY DEF Begins
  <2> QED BY <2>1
<1>2. ASSUME NEW m \in T PROVE m + 1 \in T
  <2>1. PICK f \in [Nat -> S] : Begins(f, a, step, m)
    OBVIOUS
  <2> DEFINE g == [n \in Nat |-> IF n <= m THEN f[n] ELSE step[<<m, f[m]>>]]
  <2>2. g \in [Nat -> S]
    OBVIOUS
  <2>3. Begins(g, a, step, m + 1)
    BY <2>1 DEF Begins
  <2> HIDE DEF g
  <2> QED BY <2>2, <2>3
<1>3. T = Nat
  <2> HIDE DEF T
  <2> QED BY <1>1, <1>2, SetInduction
<1> DEFINE F(m) == CHOOSE f \in [Nat -> S] : Begins(f, a, step, m)
<1>4. \A m \in Nat : F(m) \in [Nat -> S] /\ Begins(F(m), a, step, m)
  BY <1>3
<1> DEFINE f == [n \in Nat |-> F(n)[n]]
<1> HIDE DEF F
<1>5. f \in [Nat -> S]
  BY <1>4
<1>6. f[0] = a
  BY <1>4 DEF Begins
<1>7. ASSUME NEW n \in Nat PROVE f[n + 1] = step[<<n, f[n]>>]
  <2>1. F(n + 1)[n + 1] = step[<<n, F(n + 1)[n]>>]
    BY <1>4 DEF Begins
  <2>2. F(n + 1)[n] = F(n)[n]
    <3>1. n + 1 \in Nat
      OBVIOUS
    <3>2. Begins(F(n), a, step, n) /\ Begins(F(n + 1), a, step, n + 1)
      BY <1>4, <3>1
    <3> QED BY <3>1, <3>2, RecursionUnique
  <2> QED BY <2>1, <2>2
<1> HIDE DEF f
<1> QED BY <1>5, <1>6, <1>7 DEF Obeys

(* The function of 0..m defined by f[0] = a and f[n] = step[<<n, f[n-1]>>],*)
(* whose n-th value is in T[n] if step takes each T[n-1] to T[n].          *)
Carries(T, step, m) == \A n \in 1..m : \A x \in T[n-1] : step[<<n, x>>] \in T[n]

LEMMA RecurrenceType ==
  ASSUME NEW m \in Nat, NEW T, NEW step, NEW f, f[0] \in T[0], Carries(T, step, m),
         \A n \in 1..m : f[n-1] \in T[n-1] => f[n] = step[<<n, f[n-1]>>]
  PROVE  \A n \in 0..m : f[n] \in T[n]
<1> DEFINE U == {n \in 0..m : f[n] \in T[n]}
<1>1. U \in SUBSET (0..m) /\ 0 \in U
  OBVIOUS
<1>2. ASSUME NEW n \in U, n < m PROVE n + 1 \in U
  <2>1. n + 1 \in 1..m /\ (n + 1) - 1 = n /\ n + 1 \in 0..m
    BY <1>2
  <2> QED BY <2>1 DEF Carries
<1>3. U = 0..m
  <2> HIDE DEF U
  <2> QED BY <1>1, <1>2, UpTo
<1> QED BY <1>3

Recurs(f, m, a, step) == f = [n \in 0..m |-> IF n = 0 THEN a ELSE step[<<n, f[n-1]>>]]

LEMMA Recurrence ==
  ASSUME NEW m \in Nat, NEW T, NEW step, NEW a \in T[0], Carries(T, step, m)
  PROVE  \E f : Recurs(f, m, a, step) /\ \A n \in 0..m : f[n] \in T[n]
<1> DEFINE Body(f, k) == [n \in 0..k |-> IF n = 0 THEN a ELSE step[<<n, f[n-1]>>]]
           U == {k \in Nat : \E f : f = Body(f, k)}
<1>1. U \in SUBSET Nat /\ 0 \in U
  <2> DEFINE f == [n \in 0..0 |-> a]
  <2>1. f = Body(f, 0)
    OBVIOUS
  <2> HIDE DEF f
  <2> QED BY <2>1
<1>2. ASSUME NEW k \in U PROVE k + 1 \in U
  <2>1. PICK f : f = Body(f, k)
    OBVIOUS
  <2> DEFINE g == [n \in 0..(k + 1) |-> IF n <= k THEN f[n] ELSE step[<<n, f[k]>>]]
  <2>2. ASSUME NEW n \in 0..(k + 1) PROVE g[n] = Body(g, k + 1)[n]
    <3>1. CASE n = 0
      BY <2>1, <3>1
    <3>2. CASE n # 0 /\ n <= k
      <4>1. n \in 0..k /\ n - 1 \in 0..(k + 1) /\ n - 1 <= k
        BY <3>2
      <4>2. g[n] = f[n] /\ g[n-1] = f[n-1]
        BY <4>1, <3>2
      <4> HIDE DEF g
      <4> QED BY <2>1, <3>2, <4>1, <4>2
    <3>3. CASE n = k + 1
      <4>1. k \in 0..(k + 1) /\ n - 1 = k /\ n # 0
        BY <3>3
      <4>2. g[k] = f[k] /\ g[n] = step[<<n, f[k]>>]
        BY <4>1, <3>3
      <4> HIDE DEF g
      <4> QED BY <4>1, <4>2
    <3> QED BY <3>1, <3>2, <3>3
  <2>3. g = Body(g, k + 1)
    BY <2>2
  <2> HIDE DEF g
  <2> QED BY <2>3
<1>3. U = Nat
  <2> HIDE DEF U
  <2> QED BY <1>1, <1>2, SetInduction
<1>4. PICK f : f = Body(f, m)
  BY <1>3
<1>5. \A n \in 1..m : f[n] = step[<<n, f[n-1]>>]
  BY <1>4
<1>6. f[0] \in T[0]
  BY <1>4
<1>7. \A n \in 0..m : f[n] \in T[n]
  BY <1>5, <1>6, RecurrenceType
<1> QED BY <1>4, <1>7 DEF Recurs
=============================================================================
