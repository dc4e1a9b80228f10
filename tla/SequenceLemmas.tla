--------------------------- MODULE SequenceLemmas ---------------------------
(***************************************************************************)
(* Facts about numbers and sequences that the proofs of several components *)
(* rest on.  Where a recursive function is reasoned about, a least number  *)
(* at which something would be wrong takes the place of induction.         *)
(***************************************************************************)
EXTENDS Integers, Sequences, SequencesExt, SequenceTheorems, WellFoundedInduction, TLAPS

\* A set of naturals that is not empty has a least element.
LEMMA LeastNat ==
  ASSUME NEW S \in SUBSET Nat, S # {}
  PROVE  \E m \in S : \A k \in S : m <= k
<1> DEFINE R == OpToRel(<, Nat)
<1>1. IsWellFoundedOn(R, Nat)
  BY NatLessThanWellFounded
<1> HIDE DEF R
<1>2. PICK m \in S : \A k \in S : ~(<<k, m>> \in R)
  BY <1>1, WFMin
<1>3. \A k \in S : ~(k < m)
  BY <1>2 DEF R, OpToRel
<1> QED BY <1>3

\* A bounded set of naturals has its Max in it, and none of it is above.
LEMMA MaxIsIn ==
  ASSUME NEW N \in Nat, NEW S \in SUBSET (0..N), S # {}
  PROVE  Max(S) \in S /\ \A y \in S : Max(S) >= y
<1> DEFINE D == {d \in 0..N : N - d \in S}
<1>1. D \in SUBSET Nat /\ D # {}
  <2>1. PICK x \in S : TRUE
    OBVIOUS
  <2>2. N - x \in 0..N /\ N - (N - x) = x
    BY <2>1
  <2>3. N - x \in D
    BY <2>1, <2>2
  <2>4. D \in SUBSET Nat
    OBVIOUS
  <2> QED BY <2>3, <2>4
<1>2. PICK d \in D : \A e \in D : d <= e
  <2> HIDE DEF D
  <2> QED BY <1>1, LeastNat
<1>3. N - d \in S /\ \A y \in S : N - d >= y
  <2>1. N - d \in S /\ d \in 0..N
    BY <1>2
  <2>2. ASSUME NEW y \in S PROVE N - d >= y
    <3>1. N - y \in 0..N /\ N - (N - y) = y
      OBVIOUS
    <3>2. N - y \in D
      BY <3>1
    <3>3. d <= N - y
      BY <1>2, <3>2
    <3> QED BY <2>1, <3>1, <3>3
  <2> QED BY <2>1, <2>2
<1> QED BY <1>3 DEF Max

\* A set of naturals has its Min in it.
LEMMA MinIsIn ==
  ASSUME NEW S \in SUBSET Nat, S # {}
  PROVE  Min(S) \in S /\ \A k \in S : Min(S) <= k
BY LeastNat DEF Min

-----------------------------------------------------------------------------
(* Parts of sequences *)

\* A function on an initial segment is a sequence.
LEMMA SegmentIsSeq ==
  ASSUME NEW S, NEW n \in Nat, NEW f \in [1..n -> S]
  PROVE  f \in Seq(S) /\ Len(f) = n
<1>1. f \in Seq(S)
  BY SeqDef
<1>2. f \in Seq(S) /\ DOMAIN f = 1..n
  BY <1>1
<1>3. Len(f) \in Nat /\ DOMAIN f = 1..Len(f)
  BY <1>1, LenProperties
<1> QED BY <1>2, <1>3

\* The elements may come from a larger set.
LEMMA SeqOfMore ==
  ASSUME NEW S, NEW T, S \subseteq T, NEW f \in Seq(S)
  PROVE  f \in Seq(T)
<1>1. Len(f) \in Nat /\ f \in [1..Len(f) -> S]
  BY LenProperties
<1>2. f \in [1..Len(f) -> T]
  BY <1>1
<1> QED BY <1>1, <1>2, SegmentIsSeq

\* A part of a sequence is a sequence.
LEMMA PartIsSeq ==
  ASSUME NEW S, NEW s \in Seq(S), NEW m \in Nat \ {0}, NEW n \in 0..Len(s)
  PROVE  /\ SubSeq(s, m, n) \in Seq(S)
         /\ Len(SubSeq(s, m, n)) = IF m <= n THEN n - m + 1 ELSE 0
         /\ \A i \in 1..(n - m + 1) : SubSeq(s, m, n)[i] = s[m + i - 1]
<1>1. Len(s) \in Nat /\ \A i \in 1..Len(s) : s[i] \in S
  BY LenProperties, ElementOfSeq
<1>2. m \in Int /\ n \in Int /\ \A i \in m..n : s[i] \in S
  BY <1>1
<1> QED BY <1>2, SubSeqProperties

\* A sequence is what it begins with and what follows.
LEMMA CutInTwo ==
  ASSUME NEW S, NEW s \in Seq(S), NEW l \in 0..Len(s)
  PROVE  /\ SubSeq(s, 1, l) \in Seq(S) /\ SubSeq(s, l + 1, Len(s)) \in Seq(S)
         /\ Len(SubSeq(s, 1, l)) = l
         /\ SubSeq(s, 1, l) \o SubSeq(s, l + 1, Len(s)) = s
<1> DEFINE n == Len(s)
<1>1. n \in Nat
  BY LenProperties
<1>2. /\ 1 \in Nat \ {0} /\ l + 1 \in Nat \ {0} /\ n \in 0..Len(s)
      /\ 1 \in 1..(n + 1) /\ l \in (1 - 1)..n /\ n \in l..n
  BY <1>1
<1>3. /\ SubSeq(s, 1, l) \in Seq(S)
      /\ Len(SubSeq(s, 1, l)) = IF 1 <= l THEN l - 1 + 1 ELSE 0
  BY <1>2, PartIsSeq
<1>4. SubSeq(s, l + 1, n) \in Seq(S)
  BY <1>2, PartIsSeq
<1>5. SubSeq(s, 1, l) \o SubSeq(s, l + 1, n) = SubSeq(s, 1, n)
  BY <1>2, ConcatAdjacentSubSeq
<1>6. SubSeq(s, 1, n) = s
  BY SubSeqFull
<1>7. Len(SubSeq(s, 1, l)) = l
  <2> DEFINE a == SubSeq(s, 1, l)
  <2>1. Len(a) = (IF 1 <= l THEN l - 1 + 1 ELSE 0) /\ l \in Nat
    BY <1>1, <1>3
  <2> HIDE DEF a
  <2>2. Len(a) = l
    BY <2>1
  <2> QED BY <2>2 DEF a
<1> QED BY <1>3, <1>4, <1>5, <1>6, <1>7, Zenon

\* Without one of its elements a sequence without doubles has still all the others.
LEMMA WithoutOne ==
  ASSUME NEW S, NEW s \in Seq(S), NEW e, IsInjective(s)
  PROVE  LET r == RemoveFirst(s, e)
         IN  /\ r \in Seq(S) /\ IsInjective(r)
             /\ ~Contains(r, e)
             /\ \A x : x # e => (Contains(r, x) <=> Contains(s, x))
<1> DEFINE n == Len(s)
           I == {i \in 1..n : s[i] = e}
           k == Min(I)
           r == RemoveFirst(s, e)
<1>0. n \in Nat /\ DOMAIN s = 1..n
  BY LenProperties
<1>1. CASE ~Contains(s, e)
  <2>1. r = s
    BY <1>1 DEF Contains, RemoveFirst
  <2> QED BY <1>1, <2>1 DEF r
<1>2. CASE Contains(s, e)
  <2>1. I \in SUBSET Nat /\ I # {}
    BY <1>0, <1>2 DEF Contains
  <2>2. k \in I
    <3> HIDE DEF I
    <3> QED BY <2>1, MinIsIn
  <2>3. k \in 1..n /\ s[k] = e
    BY <2>2
  <2> DEFINE a == SubSeq(s, 1, k - 1)
             b == SubSeq(s, k + 1, n)
  <2>4. r = a \o b
    BY <1>2, <2>1 DEF Contains, RemoveFirst, RemoveAt, SelectInSeq
  <2> HIDE DEF I, k, r
  <2>5. a \in Seq(S) /\ Len(a) = k - 1 /\ \A i \in 1..(k - 1) : a[i] = s[i]
    <3>1. 1 \in Nat \ {0} /\ k - 1 \in 0..Len(s) /\ (k - 1) - 1 + 1 = k - 1
      BY <1>0, <2>3
    <3>2. /\ SubSeq(s, 1, k - 1) \in Seq(S)
          /\ Len(SubSeq(s, 1, k - 1)) = IF 1 <= k - 1 THEN (k - 1) - 1 + 1 ELSE 0
          /\ \A i \in 1..((k - 1) - 1 + 1) : SubSeq(s, 1, k - 1)[i] = s[1 + i - 1]
      BY <3>1, PartIsSeq
    <3> HIDE DEF n
    <3> QED BY <3>1, <3>2, <2>3, <1>0
  <2>6. b \in Seq(S) /\ Len(b) = n - k /\ \A i \in 1..(n - k) : b[i] = s[k + i]
    <3> DEFINE m == k + 1
    <3>1. m \in Nat \ {0} /\ n \in 0..Len(s)
      BY <1>0, <2>3
    <3> HIDE DEF m
    <3>2. /\ SubSeq(s, m, n) \in Seq(S)
          /\ Len(SubSeq(s, m, n)) = IF m <= n THEN n - m + 1 ELSE 0
          /\ \A i \in 1..(n - m + 1) : SubSeq(s, m, n)[i] = s[m + i - 1]
      BY <3>1, PartIsSeq
    <3> HIDE DEF n
    <3> QED BY <3>1, <3>2, <2>3, <1>0 DEF m
  <2> HIDE DEF a, b
  <2>7. /\ r \in Seq(S) /\ Len(r) = Len(a) + Len(b)
        /\ \A i \in 1..(Len(a) + Len(b)) : r[i] = IF i <= Len(a) THEN a[i] ELSE b[i - Len(a)]
    BY <2>4, <2>5, <2>6, ConcatProperties, Zenon
  <2> HIDE DEF n
  <2>8. /\ Len(r) = n - 1
        /\ \A i \in 1..(n - 1) : r[i] = IF i < k THEN s[i] ELSE s[i + 1]
    <3>1. Len(r) = n - 1
      BY <1>0, <2>3, <2>5, <2>6, <2>7
    <3>2. ASSUME NEW i \in 1..(n - 1) PROVE r[i] = IF i < k THEN s[i] ELSE s[i + 1]
      <4>1. r[i] = IF i <= k - 1 THEN a[i] ELSE b[i - (k - 1)]
        BY <1>0, <2>3, <2>5, <2>6, <2>7, <3>1
      <4>2. CASE i < k
        BY <1>0, <2>3, <2>5, <4>1, <4>2
      <4>3. CASE ~(i < k)
        <5>1. i - (k - 1) \in 1..(n - k) /\ k + (i - (k - 1)) = i + 1
          BY <1>0, <2>3, <4>3
        <5> QED BY <2>3, <2>6, <4>1, <4>3, <5>1
      <4> QED BY <4>2, <4>3
    <3> QED BY <3>1, <3>2
  <2>9. \A i, j \in 1..n : s[i] = s[j] => i = j
    BY <1>0 DEF IsInjective
  <2>10. DOMAIN r = 1..(n - 1)
    BY <2>7, <2>8, LenProperties
  <2>11. IsInjective(r)
    BY <1>0, <2>3, <2>8, <2>9, <2>10 DEF IsInjective
  <2>12. ~Contains(r, e)
    BY <1>0, <2>3, <2>8, <2>9 DEF Contains
  <2>13. ASSUME NEW x, x # e PROVE Contains(r, x) <=> Contains(s, x)
    <3>1. ASSUME Contains(s, x) PROVE Contains(r, x)
      <4>1. PICK i \in 1..n : s[i] = x
        BY <3>1 DEF Contains, n
      <4>2. i # k
        BY <2>3, <2>13, <4>1
      <4>3. CASE i < k
        <5>1. i \in 1..(n - 1) /\ r[i] = x
          BY <1>0, <2>3, <2>8, <4>1, <4>3
        <5> QED BY <2>8, <5>1 DEF Contains
      <4>4. CASE i > k
        <5>1. i - 1 \in 1..(n - 1) /\ ~(i - 1 < k) /\ (i - 1) + 1 = i
          BY <1>0, <2>3, <4>4
        <5>2. r[i - 1] = x
          BY <2>8, <4>1, <5>1
        <5> QED BY <2>8, <5>1, <5>2 DEF Contains
      <4> QED BY <2>3, <4>2, <4>3, <4>4
    <3>2. ASSUME Contains(r, x) PROVE Contains(s, x)
      <4>1. PICK i \in 1..(n - 1) : r[i] = x
        BY <3>2, <2>8 DEF Contains
      <4>2. i \in 1..n /\ i + 1 \in 1..n
        BY <1>0
      <4>3. x = s[i] \/ x = s[i + 1]
        BY <2>8, <4>1
      <4> QED BY <4>2, <4>3 DEF Contains, n
    <3> QED BY <3>1, <3>2
  <2> QED BY <2>7, <2>11, <2>12, <2>13 DEF r
<1> QED BY <1>1, <1>2

-----------------------------------------------------------------------------
(* FlattenSeq, prefix by prefix *)

\* f[k] is what the first k of the sequences make together.
Joins(S, s, f) ==
  /\ f \in [0..Len(s) -> Seq(S)]
  /\ f[0] = <<>>
  /\ \A k \in 1..Len(s) : f[k] = f[k - 1] \o s[k]
Upto(S, s) == CHOOSE f : Joins(S, s, f)

\* The prefixes of a sequence of sequences exist and are sequences.
LEMMA JoinsExist ==
  ASSUME NEW S, NEW s \in Seq(Seq(S))
  PROVE  Joins(S, s, Upto(S, s))
<1> DEFINE N == Len(s)
           V == Seq(S)
           Sum(m, f) == f \in [0..m -> V] /\ f[0] = <<>>
                          /\ \A k \in 1..m : f[k] = f[k - 1] \o s[k]
           Bad == {m \in 0..N : ~\E f : Sum(m, f)}
<1>0. N \in Nat /\ (\A k \in 1..N : s[k] \in V) /\ <<>> \in V
  BY LenProperties, ElementOfSeq, EmptySeq
<1>c. \A a, b \in V : a \o b \in V
  BY ConcatProperties
<1> HIDE DEF V
<1>1. Bad = {}
  <2> SUFFICES ASSUME Bad # {} PROVE FALSE
    OBVIOUS
  <2> HIDE DEF Sum
  <2>1. Bad \in SUBSET Nat
    <3> HIDE DEF N
    <3> QED BY <1>0
  <2> HIDE DEF Bad
  <2>2. PICK m \in Bad : \A k \in Bad : m <= k
    BY <2>1, LeastNat
  <2> USE DEF Sum
  <2>3. m \in 0..N /\ ~\E f : Sum(m, f)
    BY <2>2 DEF Bad
  <2> HIDE DEF N
  <2>4. m # 0
    <3> DEFINE e == <<>>
    <3>0. e \in V
      BY <1>0
    <3> HIDE DEF e
    <3>1. [k \in 0..0 |-> e] \in [0..0 -> V] /\ [k \in 0..0 |-> e][0] = e
          /\ \A k \in 1..0 : FALSE
      BY <3>0
    <3>2. Sum(0, [k \in 0..0 |-> e])
      BY <3>1 DEF e
    <3> HIDE DEF Sum
    <3> QED BY <2>3, <3>2
  <2>5. m - 1 \in 0..N /\ m - 1 \notin Bad
    BY <1>0, <2>2, <2>3, <2>4
  <2>6. PICK f : Sum(m - 1, f)
    BY <2>5 DEF Bad
  <2> DEFINE g == [k \in 0..m |-> IF k = m THEN f[m - 1] \o s[m] ELSE f[k]]
  <2>7. Sum(m, g)
    <3>1. g \in [0..m -> V]
      <4>1. f[m - 1] \in V /\ s[m] \in V
        BY <1>0, <2>3, <2>4, <2>6
      <4>2. f[m - 1] \o s[m] \in V
        BY <1>c, <4>1
      <4>3. ASSUME NEW k \in 0..m, k # m PROVE f[k] \in V
        BY <2>3, <2>6, <4>3
      <4> QED BY <4>2, <4>3
    <3>2. g[0] = <<>>
      <4>1. 0 \in 0..m /\ 0 # m
        BY <2>3, <2>4
      <4> QED BY <2>6, <4>1
    <3>3. ASSUME NEW k \in 1..m PROVE g[k] = g[k - 1] \o s[k]
      <4>1. CASE k = m
        <5>1. m \in 0..m /\ m - 1 \in 0..m /\ m - 1 # m
          BY <2>3, <2>4
        <5> QED BY <4>1, <5>1
      <4>2. CASE k # m
        <5>1. k \in 1..(m - 1) /\ k - 1 \in 0..m /\ k - 1 # m /\ k \in 0..m
          BY <2>3, <4>2
        <5> QED BY <2>6, <4>2, <5>1
      <4> QED BY <4>1, <4>2
    <3> QED BY <3>1, <3>2, <3>3
  <2> HIDE DEF Sum, g
  <2> QED BY <2>3, <2>7
<1>2. PICK f : Sum(N, f)
  <2>1. N \in 0..N
    BY <1>0
  <2> QED BY <1>1, <2>1
<1>3. Joins(S, s, f)
  BY <1>2 DEF Joins, V
<1> QED BY <1>3 DEF Upto

\* FlattenSeq is the last of the prefixes.
LEMMA FlattenIsLast ==
  ASSUME NEW S, NEW s \in Seq(Seq(S))
  PROVE  FlattenSeq(s) = Upto(S, s)[Len(s)]
<1> DEFINE N == Len(s)
           u == Upto(S, s)
           Solves(g) == g = [i \in 1..N |-> IF i = 1 THEN s[i] ELSE g[i - 1] \o s[i]]
           flatten == CHOOSE g : Solves(g)
<1>0. N \in Nat /\ \A k \in 1..N : s[k] \in Seq(S)
  BY LenProperties, ElementOfSeq
<1>1. Joins(S, s, u)
  BY JoinsExist
<1>2. CASE N = 0
  <2>1. s = <<>>
    BY <1>2, EmptySeq
  <2>2. FlattenSeq(s) = s
    BY <1>2 DEF FlattenSeq
  <2>3. u[0] = <<>>
    BY <1>1 DEF Joins
  <2> QED BY <1>2, <2>1, <2>2, <2>3
<1>3. CASE N # 0
  <2>1. FlattenSeq(s) = flatten[N]
    BY <1>3 DEF FlattenSeq
  <2> HIDE DEF u
  <2>2. /\ u[0] = <<>> /\ \A k \in 1..N : u[k] = u[k - 1] \o s[k]
    BY <1>1 DEF Joins
  <2>3. u[1] = s[1]
    <3>0. 1 \in 1..N
      BY <1>0, <1>3
    <3>a. u[1] = u[1 - 1] \o s[1]
      BY <2>2, <3>0, Zenon
    <3>b. 1 - 1 = 0
      OBVIOUS
    <3>1. u[1] = u[0] \o s[1] /\ 1 \in 1..N
      BY <3>0, <3>a, <3>b, Zenon
    <3>2. s[1] \in Seq(S)
      BY <1>0, <3>1
    <3>3. <<>> \o s[1] = s[1]
      BY <3>2, ConcatEmptySeq
    <3> QED BY <2>2, <3>1, <3>3, Zenon
  <2> HIDE DEF N
  <2> DEFINE v == [i \in 1..N |-> u[i]]
  <2>4. Solves(v)
    <3>1. ASSUME NEW i \in 1..N
          PROVE  v[i] = IF i = 1 THEN s[i] ELSE v[i - 1] \o s[i]
      <4>1. CASE i = 1
        BY <2>3, <4>1
      <4>2. CASE i # 1
        <5>1. i - 1 \in 1..N
          BY <1>0, <4>2
        <5> QED BY <2>2, <4>2, <5>1
      <4> QED BY <4>1, <4>2
    <3> QED BY <3>1
  <2>5. Solves(flatten)
    <3> HIDE DEF Solves, v
    <3> QED BY <2>4
  <2> HIDE DEF flatten, v
  <2>6. \A i \in 1..N : flatten[i] = IF i = 1 THEN s[i] ELSE flatten[i - 1] \o s[i]
    BY <2>5
  <2> DEFINE Bad == {i \in 1..N : flatten[i] # u[i]}
  <2>7. Bad = {}
    <3> SUFFICES ASSUME Bad # {} PROVE FALSE
      OBVIOUS
    <3>1. Bad \in SUBSET Nat
      BY <1>0
    <3> HIDE DEF Bad
    <3>2. PICK m \in Bad : \A k \in Bad : m <= k
      BY <3>1, LeastNat
    <3>3. m \in 1..N /\ flatten[m] # u[m]
      BY <3>2 DEF Bad
    <3>4. m # 1
      BY <1>0, <2>3, <2>6, <3>3
    <3>5. m - 1 \in 1..N /\ m - 1 \notin Bad
      BY <1>0, <3>2, <3>3, <3>4
    <3>6. flatten[m - 1] = u[m - 1]
      BY <3>5 DEF Bad
    <3> QED BY <2>2, <2>6, <3>3, <3>4, <3>6
  <2>8. N \in 1..N
    BY <1>0, <1>3
  <2> QED BY <2>1, <2>7, <2>8 DEF u, N
<1> QED BY <1>2, <1>3

\* A longer prefix is at least as long.
LEMMA JoinsGrow ==
  ASSUME NEW S, NEW s \in Seq(Seq(S)), NEW k \in 0..Len(s)
  PROVE  \A j \in k..Len(s) : Len(Upto(S, s)[k]) <= Len(Upto(S, s)[j])
<1> DEFINE N == Len(s)
           u == Upto(S, s)
           Bad == {j \in k..N : ~(Len(u[k]) <= Len(u[j]))}
<1>0. N \in Nat /\ \A i \in 1..N : s[i] \in Seq(S)
  BY LenProperties, ElementOfSeq
<1>1. Joins(S, s, u)
  BY JoinsExist
<1> HIDE DEF u
<1>2. /\ \A i \in 0..N : u[i] \in Seq(S)
      /\ \A i \in 1..N : u[i] = u[i - 1] \o s[i]
  BY <1>1 DEF Joins
<1>3. \A i \in 0..N : Len(u[i]) \in Nat
  BY <1>2, LenProperties
<1>4. ASSUME NEW i \in 1..N PROVE Len(u[i - 1]) <= Len(u[i])
  <2>1. u[i - 1] \in Seq(S) /\ s[i] \in Seq(S)
    BY <1>0, <1>2
  <2>2. Len(u[i - 1] \o s[i]) = Len(u[i - 1]) + Len(s[i])
    BY <2>1, ConcatProperties
  <2>3. Len(u[i - 1]) \in Nat /\ Len(s[i]) \in Nat
    BY <2>1, LenProperties
  <2>4. Len(u[i]) = Len(u[i - 1]) + Len(s[i])
    BY <1>2, <2>2
  <2> DEFINE a == Len(u[i - 1])
             b == Len(s[i])
             d == Len(u[i])
  <2>5. a \in Nat /\ b \in Nat /\ d = a + b
    BY <2>3, <2>4
  <2> HIDE DEF a, b, d
  <2>6. a <= d
    BY <2>5
  <2> QED BY <2>6 DEF a, d
<1> HIDE DEF N
<1> SUFFICES ASSUME Bad # {} PROVE FALSE
  BY DEF N, u
<1>5. PICK m \in Bad : \A j \in Bad : m <= j
  <2>1. Bad \in SUBSET Nat
    BY <1>0 DEF N
  <2> HIDE DEF Bad
  <2> QED BY <2>1, LeastNat
<1>6. m \in k..N /\ ~(Len(u[k]) <= Len(u[m])) /\ k \in 0..N /\ N \in Nat
  BY <1>0, <1>5 DEF N
<1>7. m # k
  BY <1>3, <1>6
<1>8. m - 1 \in k..N /\ m \in 1..N /\ ~(m <= m - 1) /\ m - 1 \in 0..N /\ m \in 0..N
  BY <1>6, <1>7
<1>9. Len(u[k]) <= Len(u[m - 1])
  BY <1>5, <1>8
<1>10. Len(u[m - 1]) <= Len(u[m])
  BY <1>4, <1>8
<1> QED BY <1>3, <1>6, <1>8, <1>9, <1>10

\* What sequences make together is a sequence.
LEMMA FlattenIsSeq ==
  ASSUME NEW S, NEW s \in Seq(Seq(S))
  PROVE  FlattenSeq(s) \in Seq(S)
<1> DEFINE u == Upto(S, s)
<1>1. Joins(S, s, u) /\ FlattenSeq(s) = u[Len(s)]
  BY FlattenIsLast, JoinsExist
<1> HIDE DEF u
<1>2. s \in Seq(Seq(S)) /\ Len(s) \in Nat
  BY LenProperties
<1>3. Len(s) \in 0..Len(s)
  BY <1>2
<1> QED BY <1>1, <1>3 DEF Joins

\* b begins with a.
Begins(a, b) == \A i \in 1..Len(a) : b[i] = a[i]

\* A longer prefix begins with the shorter one.
LEMMA JoinsBegin ==
  ASSUME NEW S, NEW s \in Seq(Seq(S)), NEW k \in 0..Len(s)
  PROVE  \A j \in k..Len(s) : Begins(Upto(S, s)[k], Upto(S, s)[j])
<1> SUFFICES ASSUME NEW i \in 1..Len(Upto(S, s)[k])
             PROVE  \A j \in k..Len(s) : Upto(S, s)[j][i] = Upto(S, s)[k][i]
  BY DEF Begins
<1> DEFINE N == Len(s)
           u == Upto(S, s)
           Bad == {l \in k..N : u[l][i] # u[k][i]}
<1>0. N \in Nat /\ \A l \in 1..N : s[l] \in Seq(S)
  BY LenProperties, ElementOfSeq
<1>1. Joins(S, s, u) /\ \A l \in k..N : Len(u[k]) <= Len(u[l])
  BY JoinsExist, JoinsGrow
<1> HIDE DEF u
<1>2. /\ \A l \in 0..N : u[l] \in Seq(S)
      /\ \A l \in 1..N : u[l] = u[l - 1] \o s[l]
  BY <1>1 DEF Joins
<1>3. \A l \in 0..N : Len(u[l]) \in Nat
  BY <1>2, LenProperties
<1>4. i \in 1..Len(u[k])
  BY DEF u
<1> HIDE DEF N
<1> SUFFICES ASSUME Bad # {} PROVE FALSE
  BY DEF N, u
<1>5. PICK m \in Bad : \A l \in Bad : m <= l
  <2>1. Bad \in SUBSET Nat
    BY <1>0 DEF N
  <2> HIDE DEF Bad
  <2> QED BY <2>1, LeastNat
<1>6. m \in k..N /\ u[m][i] # u[k][i] /\ k \in 0..N /\ N \in Nat
  BY <1>0, <1>5 DEF N
<1>7. m # k
  BY <1>6
<1>8. m - 1 \in k..N /\ m \in 1..N /\ ~(m <= m - 1) /\ m - 1 \in 0..N
  BY <1>6, <1>7
<1>9. u[m - 1][i] = u[k][i]
  BY <1>5, <1>8
<1>10. i \in 1..Len(u[m - 1])
  BY <1>1, <1>3, <1>4, <1>6, <1>8
<1> DEFINE a == u[m - 1]
           b == s[m]
<1>11. a \in Seq(S) /\ b \in Seq(S) /\ u[m] = a \o b
  BY <1>0, <1>2, <1>8 DEF N
<1> HIDE DEF a, b
<1>12. /\ Len(a) \in Nat /\ Len(b) \in Nat
       /\ \A l \in 1..(Len(a) + Len(b)) : (a \o b)[l] = IF l <= Len(a) THEN a[l] ELSE b[l - Len(a)]
  BY <1>11, LenProperties, ConcatProperties, Zenon
<1>13. i \in 1..Len(a)
  BY <1>10 DEF a
<1>14. (a \o b)[i] = a[i]
  BY <1>12, <1>13
<1> QED BY <1>6, <1>9, <1>11, <1>14 DEF a

\* One sequence more.
LEMMA FlattenAppend ==
  ASSUME NEW S, NEW s \in Seq(Seq(S)), NEW x \in Seq(S)
  PROVE  /\ Append(s, x) \in Seq(Seq(S))
         /\ FlattenSeq(Append(s, x)) = FlattenSeq(s) \o x
<1> DEFINE N == Len(s)
           t == Append(s, x)
           u == Upto(S, s)
           v == Upto(S, t)
           Bad == {k \in 0..N : u[k] # v[k]}
<1>0. N \in Nat
  BY LenProperties
<1>1. /\ t \in Seq(Seq(S)) /\ Len(t) = N + 1
      /\ (\A k \in 1..N : t[k] = s[k]) /\ t[N + 1] = x
  BY AppendProperties
<1> HIDE DEF t
<1>2. FlattenSeq(s) = u[N] /\ Joins(S, s, u) /\ FlattenSeq(t) = v[N + 1] /\ Joins(S, t, v)
  BY <1>1, FlattenIsLast, JoinsExist
<1> HIDE DEF u, v
<1>3. /\ u[0] = <<>> /\ \A k \in 1..N : u[k] = u[k - 1] \o s[k]
  BY <1>2 DEF Joins
<1>4. /\ v[0] = <<>> /\ \A k \in 1..(N + 1) : v[k] = v[k - 1] \o t[k]
  BY <1>1, <1>2 DEF Joins
<1> HIDE DEF N
<1>5. Bad = {}
  <2> SUFFICES ASSUME Bad # {} PROVE FALSE
    OBVIOUS
  <2>1. Bad \in SUBSET Nat
    BY <1>0
  <2> HIDE DEF Bad
  <2>2. PICK m \in Bad : \A k \in Bad : m <= k
    BY <2>1, LeastNat
  <2>3. m \in 0..N /\ u[m] # v[m]
    BY <2>2 DEF Bad
  <2>4. m # 0
    BY <1>3, <1>4, <2>3
  <2>5. m \in 1..N /\ m \in 1..(N + 1) /\ m - 1 \in 0..N /\ ~(m <= m - 1)
    BY <1>0, <2>3, <2>4
  <2>6. u[m - 1] = v[m - 1]
    BY <2>2, <2>5 DEF Bad
  <2>7. t[m] = s[m]
    BY <1>1, <2>5
  <2>8. u[m] = u[m - 1] \o s[m] /\ v[m] = v[m - 1] \o t[m]
    BY <1>3, <1>4, <2>5
  <2> QED BY <2>3, <2>6, <2>7, <2>8
<1>6. v[N] = u[N]
  <2>1. N \in 0..N
    BY <1>0
  <2> QED BY <1>5, <2>1
<1>7. v[N + 1] = v[N] \o x
  <2>1. N + 1 \in 1..(N + 1) /\ (N + 1) - 1 = N
    BY <1>0
  <2>2. v[N + 1] = v[(N + 1) - 1] \o t[N + 1]
    BY <1>4, <2>1, Zenon
  <2> QED BY <1>1, <2>1, <2>2, Zenon
<1> QED BY <1>1, <1>2, <1>6, <1>7 DEF t

\* Pairs after one another.
LEMMA FlattenPairs ==
  ASSUME NEW S, NEW s \in Seq(Seq(S)), \A k \in 1..Len(s) : Len(s[k]) = 2
  PROVE  /\ Len(FlattenSeq(s)) = 2 * Len(s)
         /\ \A k \in 1..Len(s) : /\ FlattenSeq(s)[2 * k - 1] = s[k][1]
                                 /\ FlattenSeq(s)[2 * k] = s[k][2]
<1> DEFINE N == Len(s)
           u == Upto(S, s)
           Bad == {k \in 0..N : Len(u[k]) # 2 * k}
<1>0. N \in Nat /\ \A k \in 1..N : s[k] \in Seq(S) /\ Len(s[k]) = 2
  BY LenProperties, ElementOfSeq
<1>1. FlattenSeq(s) = u[N] /\ Joins(S, s, u)
  BY FlattenIsLast, JoinsExist
<1>b. \A k \in 0..N : \A j \in k..N : Begins(u[k], u[j])
  BY JoinsBegin
<1> HIDE DEF u
<1>2. /\ u[0] = <<>> /\ \A k \in 1..N : u[k] = u[k - 1] \o s[k]
      /\ \A k \in 0..N : u[k] \in Seq(S)
  BY <1>1 DEF Joins
<1> HIDE DEF N
<1>3. ASSUME NEW k \in 1..N
      PROVE  /\ Len(u[k - 1]) \in Nat /\ Len(u[k]) = Len(u[k - 1]) + 2
             /\ \A i \in 1..2 : u[k][Len(u[k - 1]) + i] = s[k][i]
  <2> DEFINE a == u[k - 1]
             b == s[k]
  <2>0. k - 1 \in 0..N
    BY <1>0
  <2>1. a \in Seq(S) /\ b \in Seq(S) /\ u[k] = a \o b /\ Len(b) = 2
    BY <1>0, <1>2, <2>0
  <2> HIDE DEF a, b
  <2>2. /\ Len(a) \in Nat /\ Len(a \o b) = Len(a) + Len(b)
        /\ \A l \in 1..(Len(a) + Len(b)) : (a \o b)[l] = IF l <= Len(a) THEN a[l] ELSE b[l - Len(a)]
    BY <2>1, LenProperties, ConcatProperties, Zenon
  <2>3. ASSUME NEW i \in 1..2 PROVE (a \o b)[Len(a) + i] = b[i]
    <3> DEFINE l == Len(a) + i
    <3>1. l \in 1..(Len(a) + Len(b)) /\ ~(l <= Len(a)) /\ l - Len(a) = i
      BY <2>1, <2>2
    <3> HIDE DEF l
    <3>2. (a \o b)[l] = b[l - Len(a)]
      BY <2>2, <3>1
    <3> QED BY <3>1, <3>2 DEF l
  <2>4. Len(u[k]) = Len(a) + 2
    BY <2>1, <2>2
  <2> QED BY <2>1, <2>2, <2>3, <2>4 DEF a, b
<1>4. Bad = {}
  <2> SUFFICES ASSUME Bad # {} PROVE FALSE
    OBVIOUS
  <2>1. Bad \in SUBSET Nat
    BY <1>0
  <2> HIDE DEF Bad
  <2>2. PICK m \in Bad : \A k \in Bad : m <= k
    BY <2>1, LeastNat
  <2>3. m \in 0..N /\ Len(u[m]) # 2 * m
    BY <2>2 DEF Bad
  <2>4. m # 0
    <3>1. Len(u[0]) = 0
      BY <1>2, EmptySeq
    <3> QED BY <2>3, <3>1
  <2>5. m \in 1..N /\ m - 1 \in 0..N /\ ~(m <= m - 1)
    BY <1>0, <2>3, <2>4
  <2>6. Len(u[m - 1]) = 2 * (m - 1)
    BY <2>2, <2>5 DEF Bad
  <2>7. Len(u[m]) = Len(u[m - 1]) + 2
    BY <1>3, <2>5
  <2> QED BY <2>3, <2>5, <2>6, <2>7
<1>5. Len(u[N]) = 2 * N
  <2>1. N \in 0..N
    BY <1>0
  <2> QED BY <1>4, <2>1
<1>6. ASSUME NEW k \in 1..N
      PROVE  u[N][2 * k - 1] = s[k][1] /\ u[N][2 * k] = s[k][2]
  <2>1. k \in 0..N /\ k - 1 \in 0..N /\ N \in k..N
    BY <1>0
  <2>2. Len(u[k - 1]) = 2 * (k - 1) /\ Len(u[k]) = 2 * k
    BY <1>4, <2>1
  <2>3. /\ 2 * (k - 1) + 1 = 2 * k - 1 /\ 2 * (k - 1) + 2 = 2 * k
        /\ 2 * k - 1 \in 1..(2 * k) /\ 2 * k \in 1..(2 * k)
    OBVIOUS
  <2>4. \A i \in 1..2 : u[k][2 * (k - 1) + i] = s[k][i]
    BY <1>3, <2>2
  <2>5. u[k][2 * (k - 1) + 1] = s[k][1] /\ u[k][2 * (k - 1) + 2] = s[k][2]
    BY <2>4
  <2>6. u[k][2 * k - 1] = s[k][1] /\ u[k][2 * k] = s[k][2]
    BY <2>3, <2>5
  <2>7. u[N][2 * k - 1] = u[k][2 * k - 1] /\ u[N][2 * k] = u[k][2 * k]
    BY <1>b, <2>1, <2>2, <2>3 DEF Begins
  <2> QED BY <2>6, <2>7
<1> QED BY <1>1, <1>5, <1>6 DEF N

\* No sequence, one, two and three after one another.
LEMMA FlattenFew ==
  ASSUME NEW S
  PROVE  /\ FlattenSeq(<<>>) = <<>>
         /\ \A a \in Seq(S) : FlattenSeq(<<a>>) = a
         /\ \A a, b \in Seq(S) : FlattenSeq(<<a, b>>) = a \o b
         /\ \A a, b, c \in Seq(S) : FlattenSeq(<<a, b, c>>) = (a \o b) \o c
<1> DEFINE W == Seq(S)
           e == <<>>
<1>1. e \in Seq(W) /\ Len(e) = 0 /\ e \in W
  OBVIOUS
<1>2. FlattenSeq(e) = e
  <2>1. FlattenSeq(e) = Upto(S, e)[0]
    BY <1>1, FlattenIsLast
  <2>2. Joins(S, e, Upto(S, e))
    BY <1>1, JoinsExist
  <2> QED BY <2>1, <2>2 DEF Joins
<1>3. ASSUME NEW a \in W PROVE <<a>> \in Seq(W) /\ FlattenSeq(<<a>>) = a
  <2>1. <<a>> = Append(e, a)
    OBVIOUS
  <2>2. Append(e, a) \in Seq(W) /\ FlattenSeq(Append(e, a)) = FlattenSeq(e) \o a
    BY <1>1, <1>3, FlattenAppend
  <2>3. e \o a = a
    BY <1>3, ConcatEmptySeq
  <2> QED BY <1>2, <2>1, <2>2, <2>3
<1>4. ASSUME NEW a \in W, NEW b \in W
      PROVE  <<a, b>> \in Seq(W) /\ FlattenSeq(<<a, b>>) = a \o b
  <2>1. <<a, b>> = Append(<<a>>, b)
    OBVIOUS
  <2>2. Append(<<a>>, b) \in Seq(W) /\ FlattenSeq(Append(<<a>>, b)) = FlattenSeq(<<a>>) \o b
    BY <1>3, <1>4, FlattenAppend
  <2> QED BY <1>3, <1>4, <2>1, <2>2
<1>5. ASSUME NEW a \in W, NEW b \in W, NEW c \in W
      PROVE  FlattenSeq(<<a, b, c>>) = (a \o b) \o c
  <2>1. <<a, b, c>> = Append(<<a, b>>, c)
    OBVIOUS
  <2>2. FlattenSeq(Append(<<a, b>>, c)) = FlattenSeq(<<a, b>>) \o c
    BY <1>4, <1>5, FlattenAppend
  <2> QED BY <1>4, <1>5, <2>1, <2>2
<1> QED BY <1>2, <1>3, <1>4, <1>5

=============================================================================
