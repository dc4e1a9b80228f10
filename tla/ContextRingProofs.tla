-------------------------- MODULE ContextRingProofs --------------------------
(***************************************************************************)
(* The ring of contextring.c, for any array of tasks: whatever inserts,    *)
(* turns and endings come, the pointers are one closed doubly linked list, *)
(* behave as the sequence of RunQueue, and let no task far ahead of        *)
(* another.                                                                *)
(*                                                                         *)
(* The argument is about a sequence q of nodes and the links that make a   *)
(* ring of it (Linked); that the program's own walk along `next' (Hop,     *)
(* Chain) reads q back is ChainIs.                                         *)
(***************************************************************************)
EXTENDS ContextRing, SequenceLemmas

-----------------------------------------------------------------------------
(* Walking along the links *)

Hops(nx, c, h) ==
  h = [k \in 0..Len(Order) |-> IF k = 0 THEN c ELSE nx[h[k - 1]]]
HopOf(nx, c) == CHOOSE h : Hops(nx, c, h)

\* ContextRing's Chain, of any links.
ChainOf(nx, c) ==
  IF c = NULL THEN <<>>
  ELSE LET hop == HopOf(nx, c)
           Closes(k) == hop[k] = c /\ \A j \in 1..(k - 1) : hop[j] # c
           length == CHOOSE k \in 1..Len(Order) : Closes(k)
       IN  [k \in 1..length |-> hop[k - 1]]

\* The chain as a function of the pointers, before a step
LEMMA ChainHere == Hop = HopOf(next, cursor) /\ Chain = ChainOf(next, cursor)
BY DEF Hop, HopOf, Hops, Chain, ChainOf

\* and after it.
LEMMA ChainThere == Hop' = HopOf(next', cursor') /\ Chain' = ChainOf(next', cursor')
BY DEF Hop, HopOf, Hops, Chain, ChainOf

\* A walk that stays in V exists: the equation of Hop has a solution.
LEMMA WalkExists ==
  ASSUME NEW nx, NEW V, NEW c \in V, \A v \in V : nx[v] \in V
  PROVE  Hops(nx, c, HopOf(nx, c))
<1> DEFINE N == Len(Order)
           Walk(m, h) == h \in [0..m -> V] /\ h[0] = c /\ \A k \in 1..m : h[k] = nx[h[k - 1]]
           Bad == {m \in 0..N : ~\E h : Walk(m, h)}
<1>0. N \in Nat
  BY OrderAssumption, LenProperties
<1>1. Bad = {}
  <2> SUFFICES ASSUME Bad # {} PROVE FALSE
    OBVIOUS
  <2>1. Bad \in SUBSET Nat
    BY <1>0
  <2> HIDE DEF Bad
  <2>2. PICK m \in Bad : \A k \in Bad : m <= k
    BY <2>1, LeastNat
  <2>3. m \in 0..N /\ ~\E h : Walk(m, h)
    BY <2>2 DEF Bad
  <2>4. m # 0
    <3>1. Walk(0, [k \in 0..0 |-> c])
      OBVIOUS
    <3> HIDE DEF Walk
    <3> QED BY <2>3, <3>1
  <2>5. m - 1 \in 0..N /\ m - 1 \notin Bad
    BY <1>0, <2>2, <2>3, <2>4
  <2>6. PICK h : Walk(m - 1, h)
    BY <2>5 DEF Bad
  <2> DEFINE g == [k \in 0..m |-> IF k = m THEN nx[h[m - 1]] ELSE h[k]]
  <2>7. Walk(m, g)
    <3>1. g \in [0..m -> V]
      BY <2>3, <2>4, <2>6
    <3>2. g[0] = c
      BY <2>3, <2>4, <2>6
    <3>3. ASSUME NEW k \in 1..m PROVE g[k] = nx[g[k - 1]]
      <4>1. CASE k = m
        BY <2>3, <2>4, <4>1
      <4>2. CASE k # m
        <5>1. k \in 1..(m - 1) /\ k - 1 \in 0..m /\ k - 1 # m /\ k \in 0..m
          BY <2>3, <4>2
        <5> QED BY <2>6, <4>2, <5>1
      <4> QED BY <4>1, <4>2
    <3> QED BY <3>1, <3>2, <3>3
  <2> HIDE DEF Walk, g
  <2> QED BY <2>3, <2>7
<1>2. PICK h : Walk(N, h)
  <2>1. N \in 0..N
    BY <1>0
  <2> QED BY <1>1, <2>1
<1>3. Hops(nx, c, h)
  <2>1. \A k \in 0..N : h[k] = IF k = 0 THEN c ELSE nx[h[k - 1]]
    BY <1>0, <1>2
  <2> HIDE DEF N
  <2>2. h = [k \in 0..N |-> h[k]]
    BY <1>2
  <2>3. h = [k \in 0..N |-> IF k = 0 THEN c ELSE nx[h[k - 1]]]
    BY <2>1, <2>2
  <2> QED BY <2>3 DEF Hops, N
<1> QED BY <1>3 DEF HopOf

-----------------------------------------------------------------------------
(* Sequences of nodes and the links that make a ring of them *)

\* The place that follows place i in a ring of n.
After(i, n) == IF i = n THEN 1 ELSE i + 1

\* The links lead from c round the nodes of q, and back.
Linked(nx, pv, c, q) ==
  /\ q \in Seq(Node)
  /\ \A i, j \in 1..Len(q) : q[i] = q[j] => i = j
  /\ c = IF q = <<>> THEN NULL ELSE q[1]
  /\ \A i \in 1..Len(q) : /\ nx[q[i]] = q[After(i, Len(q))]
                          /\ pv[q[After(i, Len(q))]] = q[i]

\* A walk along the links of a ring passes its nodes in order and returns.
LEMMA WalkAlong ==
  ASSUME NEW nx, NEW pv, NEW c, NEW q, Linked(nx, pv, c, q), q # <<>>,
         Len(q) <= Len(Order), NEW h, Hops(nx, c, h)
  PROVE  \A k \in 0..Len(q) : h[k] = q[IF k = Len(q) THEN 1 ELSE k + 1]
<1> DEFINE n == Len(q)
           N == Len(Order)
           Right(k) == h[k] = q[IF k = n THEN 1 ELSE k + 1]
           Bad == {k \in 0..n : ~Right(k)}
<1>0. n \in Nat \ {0} /\ N \in Nat /\ n <= N
  <2>1. q \in Seq(Node)
    BY DEF Linked
  <2>2. n \in Nat /\ n # 0
    BY <2>1, EmptySeq, LenProperties
  <2> QED BY <2>2, OrderAssumption, LenProperties
<1> SUFFICES ASSUME Bad # {} PROVE FALSE
  OBVIOUS
<1>1. PICK m \in Bad : \A k \in Bad : m <= k
  <2>1. Bad \in SUBSET Nat
    BY <1>0
  <2> HIDE DEF Bad
  <2> QED BY <2>1, LeastNat
<1>2. \A k \in 0..N : h[k] = IF k = 0 THEN c ELSE nx[h[k - 1]]
  BY DEF Hops
<1>3. m \in 0..n /\ ~Right(m)
  BY <1>1
<1>4. m # 0
  <2>1. h[0] = c
    BY <1>0, <1>2
  <2>2. c = q[1]
    BY DEF Linked
  <2> QED BY <1>0, <1>3, <2>1, <2>2
<1>5. Right(m - 1)
  <2>1. m - 1 \in 0..n /\ ~(m <= m - 1)
    BY <1>0, <1>3, <1>4
  <2> QED BY <1>1, <2>1
<1>6. h[m - 1] = q[m] /\ m \in 1..n
  BY <1>0, <1>3, <1>4, <1>5
<1>7. h[m] = nx[q[m]]
  BY <1>0, <1>2, <1>3, <1>4, <1>6
<1>8. nx[q[m]] = q[After(m, n)]
  BY <1>6 DEF Linked
<1> QED BY <1>3, <1>7, <1>8 DEF After

\* What the program's walk reads off a ring is the ring.
LEMMA ChainIs ==
  ASSUME NEW nx, NEW pv, NEW c, NEW q, Linked(nx, pv, c, q), Len(q) <= Len(Order)
  PROVE  /\ ChainOf(nx, c) = q
         /\ q # <<>> => /\ Len(q) \in 1..Len(Order)
                        /\ HopOf(nx, c)[Len(q)] = c
<1>1. CASE q = <<>>
  BY <1>1 DEF Linked, ChainOf
<1>2. CASE q # <<>>
  <2> DEFINE n == Len(q)
             N == Len(Order)
             V == {q[i] : i \in 1..n}
             hop == HopOf(nx, c)
             Closes(k) == hop[k] = c /\ \A j \in 1..(k - 1) : hop[j] # c
  <2>1. n \in Nat \ {0} /\ N \in Nat /\ n <= N
    <3>1. q \in Seq(Node)
      BY DEF Linked
    <3>2. n \in Nat /\ n # 0
      BY <1>2, <3>1, EmptySeq, LenProperties
    <3> QED BY <3>2, OrderAssumption, LenProperties
  <2>2. c = q[1] /\ c \in V
    BY <1>2, <2>1 DEF Linked
  <2>3. \A v \in V : nx[v] \in V
    <3> SUFFICES ASSUME NEW i \in 1..n PROVE nx[q[i]] \in V
      OBVIOUS
    <3>1. After(i, n) \in 1..n
      BY <2>1 DEF After
    <3> QED BY <3>1 DEF Linked
  <2>4. Hops(nx, c, hop)
    <3> HIDE DEF V
    <3> QED BY <2>2, <2>3, WalkExists
  <2>5. \A k \in 0..n : hop[k] = q[IF k = n THEN 1 ELSE k + 1]
    <3> HIDE DEF hop
    <3> QED BY <1>2, <2>4, WalkAlong
  <2> HIDE DEF hop
  <2>6. Closes(n)
    <3>1. \A j \in 1..(n - 1) : hop[j] = q[j + 1] /\ j + 1 \in 1..n
      BY <2>1, <2>5
    <3>2. \A j \in 1..(n - 1) : q[j + 1] # q[1]
      BY <2>1, <3>1 DEF Linked
    <3> QED BY <2>1, <2>2, <2>5, <3>1, <3>2
  <2>7. ASSUME NEW k \in 1..N, Closes(k) PROVE k = n
    <3>1. ~(n \in 1..(k - 1))
      BY <2>6, <2>7
    <3>2. ~(k \in 1..(n - 1))
      BY <2>6, <2>7
    <3> QED BY <2>1, <3>1, <3>2
  <2>8. (CHOOSE k \in 1..N : Closes(k)) = n
    <3>1. n \in 1..N
      BY <2>1
    <3> HIDE DEF Closes, n, N
    <3>2. \E k \in 1..N : Closes(k)
      BY <2>6, <3>1
    <3>3. (CHOOSE k \in 1..N : Closes(k)) \in 1..N /\ Closes(CHOOSE k \in 1..N : Closes(k))
      BY <3>2
    <3> QED BY <2>7, <3>3
  <2>9. c # NULL
    BY <1>2, <2>1, PointerAssumption, ElementOfSeq DEF Linked
  <2>10. ChainOf(nx, c) = [k \in 1..n |-> hop[k - 1]]
    <3>1. ChainOf(nx, c) = [k \in 1..(CHOOSE k \in 1..N : Closes(k)) |-> hop[k - 1]]
      BY <2>9 DEF ChainOf, hop
    <3> HIDE DEF Closes
    <3> QED BY <2>8, <3>1
  <2>11. \A k \in 1..n : hop[k - 1] = q[k]
    BY <2>1, <2>5
  <2>12. [k \in 1..n |-> hop[k - 1]] = [k \in 1..n |-> q[k]]
    BY <2>11
  <2>13. q = [k \in 1..n |-> q[k]]
    BY LenProperties DEF Linked
  <2>14. ChainOf(nx, c) = q
    BY <2>10, <2>12, <2>13
  <2>15. hop[n] = c
    BY <2>6
  <2> QED BY <2>1, <2>14, <2>15 DEF hop
<1> QED BY <1>1, <1>2

-----------------------------------------------------------------------------
(* The operations of RunQueue on a sequence, place by place *)

\* Rotated moves every place to the one that follows it.
LEMMA RotatedIs ==
  ASSUME NEW S, NEW q \in Seq(S), q # <<>>
  PROVE  /\ Queue!Rotated(q) \in Seq(S)
         /\ Len(Queue!Rotated(q)) = Len(q)
         /\ \A i \in 1..Len(q) : Queue!Rotated(q)[i] = q[After(i, Len(q))]
<1>1. Len(q) \in Nat /\ Len(q) # 0
  BY EmptySeq, LenProperties
<1>2. /\ Head(q) = q[1] /\ Head(q) \in S
      /\ Tail(q) \in Seq(S) /\ Len(Tail(q)) = Len(q) - 1
      /\ \A i \in 1..Len(Tail(q)) : Tail(q)[i] = q[i + 1]
  BY HeadTailProperties
<1> DEFINE t == Tail(q)
           x == Head(q)
<1>3. t \in Seq(S) /\ x \in S
  BY <1>2
<1>4. /\ Append(t, x) \in Seq(S)
      /\ Len(Append(t, x)) = Len(t) + 1
      /\ \A i \in 1..Len(t) : Append(t, x)[i] = t[i]
      /\ Append(t, x)[Len(t) + 1] = x
  <2> HIDE DEF t, x
  <2> QED BY <1>3, AppendProperties
<1>5. Queue!Rotated(q) = Append(t, x)
  BY DEF Queue!Rotated
<1> HIDE DEF t, x
<1>6. Len(t) = Len(q) - 1 /\ x = q[1] /\ \A i \in 1..Len(t) : t[i] = q[i + 1]
  BY <1>2 DEF t, x
<1>7. \A i \in 1..Len(q) : Append(t, x)[i] = q[After(i, Len(q))]
  BY <1>1, <1>4, <1>6 DEF After
<1> QED BY <1>1, <1>4, <1>5, <1>6, <1>7

\* The queue after an insert, place by place.
LEMMA InsertedIs ==
  ASSUME NEW S, NEW q \in Seq(S), q # <<>>, NEW x \in S
  PROVE  LET r == <<x>> \o Queue!Rotated(q)
         IN  /\ r \in Seq(S)
             /\ Len(r) = Len(q) + 1
             /\ r[1] = x
             /\ \A i \in 2..Len(q) : r[i] = q[i]
             /\ r[Len(q) + 1] = q[1]
<1> DEFINE n == Len(q)
           one == <<x>>
           t == Queue!Rotated(q)
<1>1. one \in Seq(S) /\ Len(one) = 1 /\ one[1] = x
  OBVIOUS
<1>2. /\ t \in Seq(S) /\ Len(t) = n
      /\ \A i \in 1..n : t[i] = q[After(i, n)]
  BY RotatedIs
<1>3. n \in Nat /\ n # 0
  BY EmptySeq, LenProperties
<1> HIDE DEF n, one, t
<1>4. /\ one \o t \in Seq(S)
      /\ Len(one \o t) = Len(one) + Len(t)
      /\ \A i \in 1..(Len(one) + Len(t)) :
           (one \o t)[i] = IF i <= Len(one) THEN one[i] ELSE t[i - Len(one)]
  BY <1>1, <1>2, ConcatProperties, Zenon
<1>5. (one \o t)[1] = x
  BY <1>1, <1>2, <1>3, <1>4
<1>6. \A i \in 2..(n + 1) : (one \o t)[i] = t[i - 1]
  BY <1>1, <1>2, <1>3, <1>4
<1>7. \A i \in 2..n : t[i - 1] = q[i]
  BY <1>2, <1>3 DEF After
<1>8. t[n] = q[1]
  BY <1>2, <1>3 DEF After
<1>9. \A i \in 2..n : (one \o t)[i] = q[i]
  <2>1. \A i \in 2..n : i \in 2..(n + 1)
    BY <1>3
  <2> QED BY <1>6, <1>7, <2>1, Zenon
<1>10. (one \o t)[n + 1] = q[1]
  <2> DEFINE m == n + 1
  <2>1. m \in 1..(Len(one) + Len(t)) /\ ~(m <= Len(one)) /\ m - Len(one) = n
    BY <1>1, <1>2, <1>3
  <2> HIDE DEF m
  <2>2. (one \o t)[m] = t[m - Len(one)]
    BY <1>4, <2>1, Zenon
  <2>3. (one \o t)[m] = q[1]
    BY <1>8, <2>1, <2>2, Zenon
  <2> QED BY <2>3 DEF m
<1> QED BY <1>1, <1>2, <1>4, <1>5, <1>9, <1>10 DEF n, one, t

-----------------------------------------------------------------------------
(* The pointer operations on a ring *)

\* A step of the loop: the same ring, read from the next node.
LEMMA Stepping ==
  ASSUME NEW nx, NEW pv, NEW c, NEW q, Linked(nx, pv, c, q), q # <<>>
  PROVE  Linked(nx, pv, nx[c], Queue!Rotated(q))
<1> DEFINE n == Len(q)
           r == Queue!Rotated(q)
<1>1. q \in Seq(Node) /\ n \in Nat \ {0}
  BY EmptySeq, LenProperties DEF Linked
<1>2. r \in Seq(Node) /\ Len(r) = n /\ \A i \in 1..n : r[i] = q[After(i, n)]
  BY <1>1, RotatedIs
<1>3. \A i \in 1..n : After(i, n) \in 1..n
  BY <1>1 DEF After
<1>4. \A i, j \in 1..n : After(i, n) = After(j, n) => i = j
  BY <1>1 DEF After
<1> HIDE DEF n, r
<1>5. \A i, j \in 1..n : q[i] = q[j] => i = j
  BY DEF Linked, n
<1>6. \A i, j \in 1..n : r[i] = r[j] => i = j
  BY <1>2, <1>3, <1>4, <1>5
<1>7. \A i \in 1..n : nx[q[i]] = q[After(i, n)] /\ pv[q[After(i, n)]] = q[i]
  BY DEF Linked, n
<1>8. \A i \in 1..n : nx[r[i]] = r[After(i, n)] /\ pv[r[After(i, n)]] = r[i]
  BY <1>2, <1>3, <1>7
<1>9. c = q[1] /\ nx[c] = r[1] /\ r # <<>>
  <2>1. c = q[1]
    BY DEF Linked
  <2>2. 1 \in 1..n
    BY <1>1
  <2>3. Len(r) # 0
    BY <1>1, <1>2
  <2>4. r # <<>>
    BY <1>2, <2>3, EmptySeq
  <2> QED BY <1>2, <1>7, <2>1, <2>2, <2>4
<1> QED BY <1>2, <1>6, <1>8, <1>9 DEF Linked, r

\* shrink(): the node under the cursor is unlinked, the cursor on its successor.
LEMMA Shrinking ==
  ASSUME NEW nx \in [Node -> Node \cup {NULL}], NEW pv \in [Node -> Node \cup {NULL}],
         NEW c, NEW q, Linked(nx, pv, c, q), q # <<>>, Len(q) # 1
  PROVE  Linked([nx EXCEPT ![pv[c]] = nx[c]], [pv EXCEPT ![nx[c]] = pv[c]],
                nx[c], Tail(q))
<1> DEFINE n == Len(q)
           r == Tail(q)
           nx2 == [nx EXCEPT ![pv[c]] = nx[c]]
           pv2 == [pv EXCEPT ![nx[c]] = pv[c]]
<1>1. q \in Seq(Node) /\ n \in Nat /\ n >= 2
  <2>1. q \in Seq(Node) /\ n \in Nat /\ n # 0
    BY EmptySeq, LenProperties DEF Linked
  <2>2. n # 1
    OBVIOUS
  <2> HIDE DEF n
  <2> QED BY <2>1, <2>2
<1>2. r \in Seq(Node) /\ Len(r) = n - 1 /\ \A i \in 1..(n - 1) : r[i] = q[i + 1]
  BY <1>1, HeadTailProperties
<1>3. \A i \in 1..n : q[i] \in Node
  BY <1>1, ElementOfSeq
<1> HIDE DEF n, r
<1>4. \A i, j \in 1..n : q[i] = q[j] => i = j
  BY DEF Linked, n
<1>5. \A i \in 1..n : nx[q[i]] = q[After(i, n)] /\ pv[q[After(i, n)]] = q[i]
  BY DEF Linked, n
<1>6. c = q[1] /\ nx[c] = q[2] /\ pv[c] = q[n]
  <2>1. c = q[1]
    BY DEF Linked
  <2>2. After(1, n) = 2 /\ After(n, n) = 1
    BY <1>1 DEF After
  <2> QED BY <1>1, <1>5, <2>1, <2>2
<1>7. \A i, j \in 1..(n - 1) : r[i] = r[j] => i = j
  BY <1>1, <1>2, <1>4
<1>8. nx2[q[n]] = q[2] /\ pv2[q[2]] = q[n]
  BY <1>1, <1>3, <1>6
<1>9. ASSUME NEW i \in 1..(n - 1)
      PROVE  nx2[r[i]] = r[After(i, n - 1)] /\ pv2[r[After(i, n - 1)]] = r[i]
  <2>1. CASE i = n - 1
    <3>1. r[i] = q[n] /\ After(i, n - 1) = 1 /\ r[1] = q[2]
      BY <1>1, <1>2, <2>1 DEF After
    <3> QED BY <1>8, <3>1
  <2>2. CASE i # n - 1
    <3>1. /\ i + 1 \in 1..n /\ i + 2 \in 1..n /\ i + 1 # n /\ i + 2 # 2
          /\ After(i, n - 1) = i + 1 /\ i + 1 \in 1..(n - 1) /\ After(i + 1, n) = i + 2
      BY <1>1, <2>2 DEF After
    <3>2. r[i] = q[i + 1] /\ r[i + 1] = q[i + 2]
      BY <1>2, <3>1
    <3>3. nx[q[i + 1]] = q[i + 2] /\ pv[q[i + 2]] = q[i + 1]
      BY <1>5, <3>1
    <3>4. q[i + 1] # q[n] /\ q[i + 2] # q[2]
      BY <1>1, <1>4, <3>1
    <3> QED BY <1>3, <1>6, <3>1, <3>2, <3>3, <3>4
  <2> QED BY <2>1, <2>2
<1>10. nx[c] = r[1] /\ r # <<>>
  <2>1. 1 \in 1..(n - 1) /\ 1 + 1 = 2
    BY <1>1
  <2>2. r # <<>>
    BY <1>1, <1>2, EmptySeq
  <2> QED BY <1>2, <1>6, <2>1, <2>2
<1> QED BY <1>2, <1>7, <1>9, <1>10 DEF Linked, r

\* insert() on a ring: the new node goes first and the old cursor last.
LEMMA Inserting ==
  ASSUME NEW nx \in [Node -> Node \cup {NULL}], NEW pv \in [Node -> Node \cup {NULL}],
         NEW c, NEW q, Linked(nx, pv, c, q), q # <<>>,
         NEW x \in Node, \A i \in 1..Len(q) : q[i] # x
  PROVE  Linked([nx EXCEPT ![x] = nx[c], ![c] = x],
                [pv EXCEPT ![x] = c, ![nx[c]] = x], x, <<x>> \o Queue!Rotated(q))
<1> DEFINE n == Len(q)
           r == <<x>> \o Queue!Rotated(q)
           nx2 == [nx EXCEPT ![x] = nx[c], ![c] = x]
           pv2 == [pv EXCEPT ![x] = c, ![nx[c]] = x]
<1>1. q \in Seq(Node) /\ n \in Nat /\ n # 0
  BY EmptySeq, LenProperties DEF Linked
<1>2. /\ r \in Seq(Node) /\ Len(r) = n + 1 /\ r[1] = x
      /\ \A i \in 2..n : r[i] = q[i]
      /\ r[n + 1] = q[1]
  BY <1>1, InsertedIs
<1>3. \A i \in 1..n : q[i] \in Node
  BY <1>1, ElementOfSeq
<1>0. \A i \in 1..n : q[i] # x
  OBVIOUS
<1> HIDE DEF n, r
<1>4. \A i, j \in 1..n : q[i] = q[j] => i = j
  BY DEF Linked, n
<1>5. \A i \in 1..n : nx[q[i]] = q[After(i, n)] /\ pv[q[After(i, n)]] = q[i]
  BY DEF Linked, n
<1>6. c = q[1] /\ 1 \in 1..n /\ nx[c] = q[After(1, n)] /\ After(1, n) \in 1..n
  <2>1. c = q[1]
    BY DEF Linked
  <2> QED BY <1>1, <1>5, <2>1 DEF After
<1>7. \A i, j \in 1..(n + 1) : r[i] = r[j] => i = j
  <2> SUFFICES ASSUME NEW i \in 1..(n + 1), NEW j \in 1..(n + 1), i # j
               PROVE  r[i] # r[j]
    OBVIOUS
  <2> DEFINE At(k) == IF k = n + 1 THEN 1 ELSE k
  <2>1. \A k \in 2..(n + 1) : r[k] = q[At(k)] /\ At(k) \in 1..n
    BY <1>1, <1>2
  <2>2. CASE i = 1
    BY <1>0, <1>1, <1>2, <2>1, <2>2
  <2>3. CASE j = 1
    BY <1>0, <1>1, <1>2, <2>1, <2>3
  <2>4. CASE i # 1 /\ j # 1
    <3>1. i \in 2..(n + 1) /\ j \in 2..(n + 1) /\ At(i) # At(j)
      BY <1>1, <2>4
    <3> HIDE DEF At
    <3> QED BY <1>4, <2>1, <3>1
  <2> QED BY <2>2, <2>3, <2>4
<1>8. /\ nx2[x] = q[After(1, n)] /\ nx2[c] = x
      /\ pv2[x] = c /\ pv2[q[After(1, n)]] = x
  BY <1>0, <1>3, <1>6
<1>9. ASSUME NEW i \in 1..(n + 1)
      PROVE  nx2[r[i]] = r[After(i, n + 1)] /\ pv2[r[After(i, n + 1)]] = r[i]
  <2>1. CASE i = 1
    <3>1. r[After(i, n + 1)] = q[After(1, n)]
      <4>1. CASE n = 1
        BY <1>2, <2>1, <4>1 DEF After
      <4>2. CASE n # 1
        <5>1. After(i, n + 1) = 2 /\ After(1, n) = 2 /\ 2 \in 2..n
          BY <1>1, <2>1, <4>2 DEF After
        <5> QED BY <1>2, <5>1
      <4> QED BY <4>1, <4>2
    <3> QED BY <1>2, <1>8, <2>1, <3>1
  <2>2. CASE i = n + 1
    <3>1. r[i] = c /\ After(i, n + 1) = 1 /\ r[1] = x
      BY <1>2, <1>6, <2>2 DEF After
    <3> QED BY <1>8, <3>1
  <2>3. CASE i # 1 /\ i # n + 1
    <3>1. /\ i \in 2..n /\ i \in 1..n /\ After(i, n + 1) = i + 1 /\ i + 1 \in 2..(n + 1)
          /\ After(i, n) \in 1..n /\ After(i, n) # After(1, n)
      BY <1>1, <2>3 DEF After
    <3>2. r[i] = q[i] /\ r[i + 1] = q[After(i, n)]
      BY <1>1, <1>2, <3>1 DEF After
    <3>3. nx[q[i]] = q[After(i, n)] /\ pv[q[After(i, n)]] = q[i]
      BY <1>5, <3>1
    <3>4. q[i] # c /\ q[i] # x /\ q[After(i, n)] # nx[c] /\ q[After(i, n)] # x
      BY <1>0, <1>1, <1>4, <1>6, <2>3, <3>1
    <3> QED BY <1>3, <3>1, <3>2, <3>3, <3>4
  <2> QED BY <2>1, <2>2, <2>3
<1>10. x = r[1] /\ r # <<>>
  BY <1>1, <1>2, EmptySeq
<1> QED BY <1>2, <1>7, <1>9, <1>10 DEF Linked, r

\* insert() on no ring: the node's links lead to itself.
LEMMA First ==
  ASSUME NEW nx \in [Node -> Node \cup {NULL}], NEW pv \in [Node -> Node \cup {NULL}],
         NEW x \in Node
  PROVE  Linked([nx EXCEPT ![x] = x], [pv EXCEPT ![x] = x], x, <<x>>)
<1> DEFINE one == <<x>>
<1>1. one \in Seq(Node) /\ Len(one) = 1 /\ one[1] = x /\ one # <<>>
  OBVIOUS
<1> HIDE DEF one
<1> QED BY <1>1 DEF Linked, After, one

-----------------------------------------------------------------------------
(* The inductive invariant *)

\* The pointers are a ring, and the program's walk reads it.
Closed == Linked(next, prev, cursor, Chain)

\* Only tasks inserted so far are in the ring, at most that many.
Placed ==
  /\ Len(Chain) <= inserted
  /\ \A k \in 1..Len(Chain) : \E i \in 1..inserted : Chain[k] = Order[i]

\* Nobody has had a turn while the array is being inserted.
NoTurnYet == Loading => \A n \in Node : since[n] = Fresh

(***************************************************************************)
(* BoundedBypass with what it takes to be kept.  The task that has the     *)
(* turn counts afresh.  The next turn goes to place 2, so no place behind  *)
(* it may have counted it beyond the endings already; and as the ring      *)
(* turns, every place but the first comes to be place 2.                   *)
(***************************************************************************)
Fair(q) ==
  /\ q # <<>> => since[q[1]] = Fresh
  /\ \A i, j \in 1..Len(q) :
       i # j => since[q[i]].turns[q[j]]
                  <= since[q[i]].ends + IF 1 < j /\ j < i THEN 0 ELSE 1

RingInv == TypeOK /\ Closed /\ Placed /\ NoTurnYet /\ Fair(Chain)

\* The chain of a ring no longer than the array is its sequence of nodes.
LEMMA ReadsNow ==
  ASSUME NEW q, Linked(next, prev, cursor, q), Len(q) <= Len(Order)
  PROVE  Chain = q
BY ChainIs, ChainHere

\* The same of the ring after a step.
LEMMA ReadsThen ==
  ASSUME NEW q, Linked(next', prev', cursor', q), Len(q) <= Len(Order)
  PROVE  Chain' = q
BY ChainIs, ChainThere

\* No ring has been made at the start.
LEMMA RingInit == Init => RingInv /\ Chain = <<>>
<1> SUFFICES ASSUME Init PROVE RingInv /\ Chain = <<>>
  OBVIOUS
<1>0. Len(Order) \in Nat
  BY OrderAssumption, LenProperties
<1>1. Chain = <<>>
  BY DEF Init, Chain
<1>2. TypeOK
  <2>1. Fresh \in [turns : [Node -> Nat], ends : Nat]
    BY DEF Fresh
  <2>2. since \in [Node -> [turns : [Node -> Nat], ends : Nat]]
    BY <2>1 DEF Init
  <2> QED BY <1>0, <2>2 DEF Init, TypeOK
<1> DEFINE q == <<>>
<1>3. q \in Seq(Node) /\ Len(q) = 0
  BY EmptySeq
<1>4. Closed /\ Placed /\ NoTurnYet /\ Fair(Chain)
  <2>1. Linked(next, prev, cursor, q)
    BY <1>3 DEF Init, Linked
  <2>2. Closed
    BY <1>1, <2>1 DEF Closed
  <2>3. Placed
    BY <1>1, <1>3 DEF Placed, Init
  <2>4. NoTurnYet
    BY DEF NoTurnYet, Init
  <2>5. Fair(q)
    BY <1>3 DEF Fair
  <2> QED BY <1>1, <2>2, <2>3, <2>4, <2>5
<1> QED BY <1>1, <1>2, <1>4 DEF RingInv

\* What the invariant says of the ring that a step starts from.
LEMMA RingFacts ==
  ASSUME RingInv
  PROVE  /\ Len(Order) \in Nat /\ inserted \in 0..Len(Order)
         /\ Chain \in Seq(Node) /\ Len(Chain) \in Nat /\ Len(Chain) <= inserted
         /\ \A k \in 1..Len(Chain) : Chain[k] \in Node
         /\ Chain # <<>> <=> cursor # NULL
         /\ Chain # <<>> <=> Len(Chain) # 0
         /\ Chain # <<>> => cursor = Chain[1] /\ cursor \in Node
         /\ InRing = {Chain[k] : k \in 1..Len(Chain)}
<1>1. Len(Order) \in Nat /\ inserted \in 0..Len(Order)
  BY OrderAssumption, LenProperties DEF RingInv, TypeOK
<1>2. Chain \in Seq(Node) /\ Len(Chain) \in Nat
  BY LenProperties DEF RingInv, Closed, Linked
<1>3. \A k \in 1..Len(Chain) : Chain[k] \in Node
  BY <1>2, ElementOfSeq
<1>4. Chain # <<>> <=> Len(Chain) # 0
  BY <1>2, EmptySeq
<1>5. cursor = IF Chain = <<>> THEN NULL ELSE Chain[1]
  BY DEF RingInv, Closed, Linked
<1>6. Chain # <<>> => Chain[1] \in Node
  BY <1>2, <1>3, <1>4
<1>7. InRing = {Chain[k] : k \in 1..Len(Chain)}
  BY <1>2, LenProperties DEF InRing
<1> QED BY <1>1, <1>2, <1>3, <1>4, <1>5, <1>6, <1>7, PointerAssumption DEF RingInv, Placed

-----------------------------------------------------------------------------
(* The steps *)

\* sus_runall inserts the next task of its array.
LEMMA LoadKeeps ==
  ASSUME RingInv, Load
  PROVE  RingInv' /\ Queue!Insert(Order[inserted + 1]) /\ Order[inserted + 1] \in Node
<1> DEFINE x == Order[inserted + 1]
           q == Chain
           r == IF q = <<>> THEN <<x>> ELSE <<x>> \o Queue!Rotated(q)
<1>1. /\ Len(Order) \in Nat /\ inserted \in 0..Len(Order)
      /\ q \in Seq(Node) /\ Len(q) \in Nat /\ Len(q) <= inserted
      /\ q # <<>> <=> cursor # NULL
      /\ q # <<>> <=> Len(q) # 0
      /\ q # <<>> => cursor = q[1] /\ cursor \in Node
  BY RingFacts
<1>2. inserted < Len(Order) /\ insert(x) /\ inserted' = inserted + 1 /\ since' = since
  BY DEF Load, Loading
<1>3. x \in Node
  <2>1. inserted + 1 \in DOMAIN Order
    BY <1>1, <1>2, OrderAssumption, LenProperties
  <2> QED BY <2>1 DEF Node
<1>4. \A k \in 1..Len(q) : q[k] # x
  <2> SUFFICES ASSUME NEW k \in 1..Len(q) PROVE q[k] # x
    OBVIOUS
  <2>1. PICK i \in 1..inserted : q[k] = Order[i]
    BY DEF RingInv, Placed
  <2>2. i \in DOMAIN Order /\ inserted + 1 \in DOMAIN Order /\ i # inserted + 1
    BY <1>1, <1>2, OrderAssumption, LenProperties
  <2> QED BY <2>1, <2>2, OrderAssumption
<1>5. /\ next \in [Node -> Node \cup {NULL}] /\ prev \in [Node -> Node \cup {NULL}]
      /\ since \in [Node -> [turns : [Node -> Nat], ends : Nat]]
  BY DEF RingInv, TypeOK
<1>6. /\ cursor # NULL => next[cursor] \in Node
      /\ next' \in [Node -> Node \cup {NULL}]
  <2>1. CASE cursor = NULL
    BY <1>2, <1>3, <1>5, <2>1 DEF insert
  <2>2. CASE cursor # NULL
    <3>1. next[cursor] \in Node
      <4>0. 1 \in 1..Len(q) /\ After(1, Len(q)) \in 1..Len(q)
        <5> DEFINE n == Len(q)
        <5>1. n \in Nat /\ n # 0
          BY <1>1, <2>2
        <5> HIDE DEF n
        <5>2. 1 \in 1..n /\ After(1, n) \in 1..n
          BY <5>1 DEF After
        <5> QED BY <5>2 DEF n
      <4>1. next[q[1]] = q[After(1, Len(q))] /\ After(1, Len(q)) \in 1..Len(q)
        BY <4>0 DEF RingInv, Closed, Linked
      <4>2. q[After(1, Len(q))] \in Node
        BY <4>1, RingFacts
      <4> QED BY <1>1, <2>2, <4>1, <4>2
    <3> QED BY <1>1, <1>2, <1>3, <1>5, <2>2, <3>1 DEF insert
  <2> QED BY <2>1, <2>2
<1>7. Linked(next', prev', cursor', r)
  <2>1. CASE q = <<>>
    <3>1. r = <<x>> /\ cursor = NULL
      BY <1>1, <2>1
    <3>2. /\ next' = [next EXCEPT ![x] = x] /\ prev' = [prev EXCEPT ![x] = x]
          /\ cursor' = x
      <4> HIDE DEF x
      <4> QED BY <1>2, <3>1 DEF insert
    <3> HIDE DEF r, q, x
    <3> QED BY <1>3, <1>5, <3>1, <3>2, First
  <2>2. CASE q # <<>>
    <3>1. Linked(next, prev, cursor, q)
      BY DEF RingInv, Closed
    <3>0. r = <<x>> \o Queue!Rotated(q) /\ cursor # NULL
      BY <1>1, <2>2
    <3>2. Linked([next EXCEPT ![x] = next[cursor], ![cursor] = x],
                 [prev EXCEPT ![x] = cursor, ![next[cursor]] = x],
                 x, <<x>> \o Queue!Rotated(q))
      <4> HIDE DEF q, x
      <4> QED BY <1>3, <1>4, <1>5, <2>2, <3>1, Inserting
    <3>3. /\ next' = [next EXCEPT ![x] = next[cursor], ![cursor] = x]
          /\ prev' = [prev EXCEPT ![x] = cursor, ![next[cursor]] = x]
          /\ cursor' = x
      <4> HIDE DEF x
      <4> QED BY <1>2, <3>0 DEF insert
    <3> HIDE DEF r, q, x
    <3> QED BY <3>0, <3>2, <3>3
  <2> QED BY <2>1, <2>2
<1>8. /\ r \in Seq(Node) /\ Len(r) = Len(q) + 1 /\ r[1] = x
      /\ \A k \in 2..Len(r) : \E m \in 1..Len(q) : r[k] = q[m]
  <2>1. CASE q = <<>>
    <3>1. r = <<x>> /\ Len(q) = 0
      BY <1>1, <2>1
    <3> QED BY <1>3, <3>1
  <2>2. CASE q # <<>>
    <3> DEFINE s == <<x>> \o Queue!Rotated(q)
               n == Len(q)
    <3>1. /\ s \in Seq(Node) /\ Len(s) = n + 1 /\ s[1] = x
          /\ \A i \in 2..n : s[i] = q[i]
          /\ s[n + 1] = q[1]
      <4> HIDE DEF x, q
      <4> QED BY <1>1, <1>3, <2>2, InsertedIs DEF q
    <3>2. r = s
      BY <2>2
    <3>3. n \in Nat /\ n # 0
      BY <1>1, <2>2
    <3> HIDE DEF s, r, n, x, q
    <3>4. \A k \in 2..(n + 1) : \E m \in 1..n : s[k] = q[m]
      <4> TAKE k \in 2..(n + 1)
      <4>1. CASE k = n + 1
        BY <3>1, <3>3, <4>1
      <4>2. CASE k # n + 1
        BY <3>1, <3>3, <4>2
      <4> QED BY <4>1, <4>2
    <3> QED BY <3>1, <3>2, <3>4 DEF n
  <2> QED BY <2>1, <2>2
<1>9. Chain' = r
  <2>1. Len(r) <= Len(Order)
    BY <1>1, <1>2, <1>8
  <2> HIDE DEF r
  <2> QED BY <1>7, <2>1, ReadsThen
<1>10. TypeOK'
  <2>1. inserted' \in 0..Len(Order) /\ cursor' \in Node \cup {NULL}
    BY <1>1, <1>2, <1>3 DEF insert
  <2>2. prev' \in [Node -> Node \cup {NULL}]
    BY <1>1, <1>2, <1>3, <1>5, <1>6 DEF insert
  <2> QED BY <1>2, <1>5, <1>6, <2>1, <2>2 DEF TypeOK
<1>11. \A n \in Node : since[n] = Fresh
  BY <1>2 DEF RingInv, NoTurnYet, Loading
<1> HIDE DEF r, q, x
<1>12. Closed'
  BY <1>7, <1>9 DEF Closed
<1>13. Placed'
  <2>1. Len(r) <= inserted'
    BY <1>1, <1>2, <1>8
  <2>2. \A k \in 1..Len(r) : \E i \in 1..inserted' : r[k] = Order[i]
    <3> TAKE k \in 1..Len(r)
    <3>1. CASE k = 1
      <4>1. r[k] = Order[inserted']
        BY <1>2, <1>8, <3>1 DEF x
      <4> QED BY <1>1, <1>2, <4>1
    <3>2. CASE k # 1
      <4>1. PICK m \in 1..Len(q) : r[k] = q[m]
        BY <1>1, <1>8, <3>2
      <4>2. PICK i \in 1..inserted : q[m] = Order[i]
        BY DEF RingInv, Placed, q
      <4> QED BY <1>1, <1>2, <4>1, <4>2
    <3> QED BY <3>1, <3>2
  <2> QED BY <1>9, <2>1, <2>2 DEF Placed
<1>14. NoTurnYet'
  BY <1>2, <1>11 DEF NoTurnYet
<1>15. Fair(Chain)'
  <2>1. \A k \in 1..Len(r) : r[k] \in Node
    BY <1>8, ElementOfSeq
  <2>2. \A m, n \in Node : since[m].turns[n] = 0 /\ since[m].ends = 0
    BY <1>11 DEF Fresh
  <2>3. r # <<>> => since[r[1]] = Fresh
    BY <1>3, <1>8, <1>11
  <2>4. \A i, j \in 1..Len(r) :
          since[r[i]].turns[r[j]] = 0 /\ since[r[i]].ends = 0
    BY <2>1, <2>2
  <2>5. \A i, j \in 1..Len(r) :
          i # j => since[r[i]].turns[r[j]]
                     <= since[r[i]].ends + IF 1 < j /\ j < i THEN 0 ELSE 1
    BY <2>4
  <2> QED BY <1>2, <1>9, <2>3, <2>5 DEF Fair
<1>16. Queue!Insert(x)
  BY <1>4, <1>9 DEF Queue!Insert, r, q
<1> QED BY <1>3, <1>10, <1>12, <1>13, <1>14, <1>15, <1>16 DEF RingInv, x

\* What a turn of task n does to everybody's count.
LEMMA TurnCounts ==
  ASSUME RingInv, NEW n \in Node, NEW left, NEW ends \in Nat, Turn(n, left, ends)
  PROVE  /\ since' \in [Node -> [turns : [Node -> Nat], ends : Nat]]
         /\ since'[n] = Fresh
         /\ \A m \in Node :
              m # n /\ m \in left =>
                /\ since'[m].ends = since[m].ends + ends
                /\ \A u \in Node :
                     since'[m].turns[u] = since[m].turns[u] + IF u = n THEN 1 ELSE 0
<1>1. since \in [Node -> [turns : [Node -> Nat], ends : Nat]]
  BY DEF RingInv, TypeOK
<1>2. Fresh \in [turns : [Node -> Nat], ends : Nat]
  BY DEF Fresh
<1> DEFINE Later(m) == [turns |-> [since[m].turns EXCEPT ![n] = @ + 1],
                        ends |-> since[m].ends + ends]
<1>3. ASSUME NEW m \in Node PROVE Later(m) \in [turns : [Node -> Nat], ends : Nat]
  <2>1. since[m].turns \in [Node -> Nat] /\ since[m].ends \in Nat
    BY <1>1
  <2>2. [since[m].turns EXCEPT ![n] = @ + 1] \in [Node -> Nat]
    BY <2>1
  <2>3. since[m].ends + ends \in Nat
    BY <2>1
  <2> QED BY <2>2, <2>3
<1>4. since' = [m \in Node |-> IF m = n \/ m \notin left THEN Fresh ELSE Later(m)]
  BY DEF Turn
<1>5. ASSUME NEW m \in Node
      PROVE  /\ Later(m).ends = since[m].ends + ends
             /\ \A u \in Node :
                  Later(m).turns[u] = since[m].turns[u] + IF u = n THEN 1 ELSE 0
  <2>1. since[m].turns \in [Node -> Nat]
    BY <1>1
  <2>2. \A u \in Node : [since[m].turns EXCEPT ![n] = @ + 1][u]
                          = since[m].turns[u] + IF u = n THEN 1 ELSE 0
    BY <2>1
  <2> QED BY <2>2
<1> HIDE DEF Later
<1>6. since' \in [Node -> [turns : [Node -> Nat], ends : Nat]]
  BY <1>2, <1>3, <1>4
<1>7. since'[n] = Fresh
  BY <1>4
<1>8. ASSUME NEW m \in Node, m # n, m \in left PROVE since'[m] = Later(m)
  BY <1>4, <1>8
<1> QED BY <1>5, <1>6, <1>7, <1>8

\* The counts of two tasks at different places, as the invariant bounds them.
LEMMA FairFacts ==
  ASSUME RingInv
  PROVE  \A i, j \in 1..Len(Chain) :
           /\ since[Chain[i]].turns[Chain[j]] \in Nat
           /\ since[Chain[i]].ends \in Nat
           /\ i = 1 => since[Chain[i]].turns[Chain[j]] = 0 /\ since[Chain[i]].ends = 0
           /\ i # j => since[Chain[i]].turns[Chain[j]] <= since[Chain[i]].ends + 1
           /\ i # j /\ 1 < j /\ j < i =>
                since[Chain[i]].turns[Chain[j]] <= since[Chain[i]].ends
<1> TAKE i, j \in 1..Len(Chain)
<1>1. Chain[i] \in Node /\ Chain[j] \in Node /\ (Chain # <<>> <=> Len(Chain) # 0)
      /\ Len(Chain) \in Nat
  BY RingFacts
<1>2. since[Chain[i]].turns \in [Node -> Nat] /\ since[Chain[i]].ends \in Nat
  BY <1>1 DEF RingInv, TypeOK
<1>3. since[Chain[i]].turns[Chain[j]] \in Nat
  BY <1>1, <1>2
<1>4. i # j => since[Chain[i]].turns[Chain[j]]
                 <= since[Chain[i]].ends + IF 1 < j /\ j < i THEN 0 ELSE 1
  BY DEF RingInv, Fair
<1>5. ASSUME i = 1
      PROVE  since[Chain[i]].turns[Chain[j]] = 0 /\ since[Chain[i]].ends = 0
  <2>1. Chain # <<>>
    BY <1>1
  <2>2. since[Chain[i]] = Fresh
    BY <1>5, <2>1 DEF RingInv, Fair
  <2> QED BY <1>1, <2>2 DEF Fresh
<1> QED BY <1>2, <1>3, <1>4, <1>5

\* The task under the cursor suspends and the loop steps on.
LEMMA SuspendsKeeps ==
  ASSUME RingInv, Suspends
  PROVE  RingInv' /\ Queue!Switch
<1> DEFINE q == Chain
           n == Len(q)
           r == Queue!Rotated(q)
<1>1. /\ Len(Order) \in Nat /\ inserted \in 0..Len(Order)
      /\ q \in Seq(Node) /\ n \in Nat /\ n <= inserted
      /\ \A k \in 1..n : q[k] \in Node
      /\ q # <<>> <=> cursor # NULL
      /\ q # <<>> <=> n # 0
      /\ InRing = {q[k] : k \in 1..n}
  BY RingFacts
<1>2. /\ ~Loading /\ cursor' = next[cursor] /\ Turn(next[cursor], InRing, 0)
      /\ next' = next /\ prev' = prev /\ inserted' = inserted
      /\ q # <<>> /\ n # 0
  BY <1>1 DEF Suspends
<1>3. Linked(next, prev, cursor, q)
  BY DEF RingInv, Closed
<1>4. \A i, j \in 1..n : q[i] = q[j] => i = j
  BY <1>3 DEF Linked
<1>5. r \in Seq(Node) /\ Len(r) = n /\ \A i \in 1..n : r[i] = q[After(i, n)]
  BY <1>1, <1>2, RotatedIs
<1> HIDE DEF q, n, r
<1>6. Linked(next', prev', cursor', r)
  BY <1>2, <1>3, Stepping DEF r
<1>7. Chain' = r
  BY <1>1, <1>5, <1>6, ReadsThen
<1>8. \A i \in 1..n : After(i, n) \in 1..n
  BY <1>1 DEF After
<1>9. cursor' = r[1] /\ r # <<>> /\ 1 \in 1..n
  <2>1. r # <<>> /\ 1 \in 1..n
    BY <1>1, <1>2, <1>5, EmptySeq
  <2> QED BY <1>6, <2>1 DEF Linked
<1>10. \A i \in 1..n : r[i] \in Node /\ r[i] \in InRing
  BY <1>1, <1>5, <1>8
<1>11. Turn(r[1], InRing, 0)
  BY <1>2, <1>9
<1>12. /\ since' \in [Node -> [turns : [Node -> Nat], ends : Nat]]
       /\ since'[r[1]] = Fresh
       /\ \A m \in Node :
            m # r[1] /\ m \in InRing =>
              /\ since'[m].ends = since[m].ends + 0
              /\ \A u \in Node :
                   since'[m].turns[u] = since[m].turns[u] + IF u = r[1] THEN 1 ELSE 0
  BY <1>9, <1>10, <1>11, TurnCounts
<1>13. TypeOK'
  BY <1>2, <1>9, <1>10, <1>12 DEF TypeOK, RingInv
<1>14. Closed'
  BY <1>6, <1>7 DEF Closed
<1>15. Placed'
  <2>1. \A k \in 1..n : \E i \in 1..inserted : q[k] = Order[i]
    BY DEF RingInv, Placed, q, n
  <2>2. \A k \in 1..n : \E i \in 1..inserted : r[k] = Order[i]
    BY <1>5, <1>8, <2>1
  <2> QED BY <1>1, <1>2, <1>5, <1>7, <2>2 DEF Placed
<1>16. NoTurnYet'
  BY <1>2 DEF NoTurnYet, Loading
<1>17. Fair(Chain)'
  <2> SUFFICES ASSUME NEW i \in 1..n, NEW j \in 1..n, i # j
               PROVE  since'[r[i]].turns[r[j]]
                        <= since'[r[i]].ends + IF 1 < j /\ j < i THEN 0 ELSE 1
    BY <1>5, <1>7, <1>12 DEF Fair
  <2> DEFINE a == After(i, n)
             b == After(j, n)
             T == since[q[a]].turns[q[b]]
             E == since[q[a]].ends
  <2>1. a \in 1..n /\ b \in 1..n /\ r[i] = q[a] /\ r[j] = q[b]
    BY <1>5, <1>8
  <2>2. /\ T \in Nat /\ E \in Nat
        /\ a = 1 => T = 0 /\ E = 0
        /\ a # b => T <= E + 1
        /\ a # b /\ 1 < b /\ b < a => T <= E
    <3> HIDE DEF a, b
    <3> QED BY <2>1, FairFacts DEF q, n
  <2>3. CASE i = 1
    <3>1. since'[r[i]].turns[r[j]] = 0 /\ since'[r[i]].ends = 0
      BY <1>10, <1>12, <2>3 DEF Fresh
    <3> QED BY <3>1
  <2>4. CASE i # 1
    <3>1. r[i] # r[1]
      <4>1. After(i, n) # After(1, n)
        BY <1>1, <2>4 DEF After
      <4> QED BY <1>4, <1>5, <1>8, <1>9, <4>1 DEF n, q
    <3>2. r[j] = r[1] <=> j = 1
      <4>1. j # 1 => After(j, n) # After(1, n)
        BY <1>1 DEF After
      <4> QED BY <1>4, <1>5, <1>8, <1>9, <4>1 DEF n, q
    <3>3. /\ since'[r[i]].ends = E + 0
          /\ since'[r[i]].turns[r[j]] = T + IF j = 1 THEN 1 ELSE 0
      BY <1>10, <1>12, <2>1, <3>1, <3>2
    <3> HIDE DEF T, E
    <3>4. /\ a # b
          /\ a = 1 \/ a = i + 1
          /\ j = 1 => a = 1 \/ (1 < b /\ b < a)
          /\ 1 < j /\ j < i => a = 1 \/ (1 < b /\ b < a)
      BY <1>1, <2>4 DEF After
    <3> HIDE DEF a, b
    <3> QED BY <2>2, <3>3, <3>4
  <2> QED BY <2>3, <2>4
<1>18. Queue!Switch
  BY <1>2, <1>7 DEF Queue!Switch, r, q
<1> QED BY <1>13, <1>14, <1>15, <1>16, <1>17, <1>18 DEF RingInv

\* shrink() steps the cursor and, after it, so does the loop of sus_runall.
LEMMA EndsKeeps ==
  ASSUME RingInv, Ends
  PROVE  RingInv' /\ Queue!Leave
<1> DEFINE q == Chain
           n == Len(q)
<1>1. /\ Len(Order) \in Nat /\ inserted \in 0..Len(Order)
      /\ q \in Seq(Node) /\ n \in Nat /\ n <= inserted
      /\ \A k \in 1..n : q[k] \in Node
      /\ q # <<>> <=> cursor # NULL
      /\ q # <<>> <=> n # 0
      /\ q # <<>> => cursor = q[1] /\ cursor \in Node
      /\ InRing = {q[k] : k \in 1..n}
  BY RingFacts
<1>2. /\ ~Loading /\ inserted' = inserted /\ q # <<>> /\ n # 0 /\ cursor = q[1]
  BY <1>1 DEF Ends
<1>3. Linked(next, prev, cursor, q)
  BY DEF RingInv, Closed
<1>4. \A i, j \in 1..n : q[i] = q[j] => i = j
  BY <1>3 DEF Linked
<1>5. /\ next \in [Node -> Node \cup {NULL}] /\ prev \in [Node -> Node \cup {NULL}]
      /\ since \in [Node -> [turns : [Node -> Nat], ends : Nat]]
  BY DEF RingInv, TypeOK
<1> HIDE DEF q, n
<1>6. \A i \in 1..n : next[q[i]] = q[After(i, n)] /\ prev[q[After(i, n)]] = q[i]
  BY <1>3 DEF Linked, n
<1>7. Alone <=> n = 1
  <2>1. 1 \in 1..n /\ After(1, n) \in 1..n /\ (After(1, n) = 1 <=> n = 1)
    BY <1>1, <1>2 DEF After
  <2> QED BY <1>2, <1>4, <1>6, <2>1 DEF Alone
<1>8. NoTurnYet'
  BY <1>2 DEF NoTurnYet, Loading
<1>9. CASE n = 1
  <2>1. cursor' = NULL /\ next' = next /\ prev' = prev /\ since' = since
    BY <1>7, <1>9 DEF Ends
  <2> DEFINE e == <<>>
  <2>2. e \in Seq(Node) /\ Len(e) = 0 /\ e = <<>>
    BY EmptySeq
  <2>3. Linked(next', prev', cursor', e)
    BY <2>1, <2>2 DEF Linked
  <2>4. Chain' = <<>>
    BY <2>1, ChainThere DEF ChainOf
  <2>5. TypeOK'
    BY <1>2, <2>1 DEF RingInv, TypeOK
  <2>6. Closed'
    BY <2>3, <2>4 DEF Closed
  <2>7. Placed'
    BY <1>1, <1>2, <2>2, <2>4 DEF Placed
  <2>8. Fair(Chain)'
    BY <2>2, <2>4 DEF Fair
  <2>9. Queue!Leave
    BY <1>2, <1>9, <2>4 DEF Queue!Leave, n, q
  <2> QED BY <1>8, <2>5, <2>6, <2>7, <2>8, <2>9 DEF RingInv
<1>10. CASE n # 1
  <2> DEFINE s == Tail(q)
             r == Queue!Rotated(s)
  <2>1. /\ next' = UnlinkedNext /\ prev' = UnlinkedPrev
        /\ cursor' = next'[next[cursor]] /\ Turn(cursor', InRing \ {cursor}, 1)
    BY <1>7, <1>10 DEF Ends
  <2>2. Linked(next', prev', next[cursor], s)
    <3>1. Linked([next EXCEPT ![prev[cursor]] = next[cursor]],
                 [prev EXCEPT ![next[cursor]] = prev[cursor]], next[cursor], Tail(q))
      BY <1>2, <1>3, <1>5, <1>10, Shrinking DEF n
    <3> QED BY <2>1, <3>1 DEF UnlinkedNext, UnlinkedPrev
  <2>3. s \in Seq(Node) /\ Len(s) = n - 1 /\ \A i \in 1..(n - 1) : s[i] = q[i + 1]
    BY <1>1, <1>2, HeadTailProperties DEF n
  <2> HIDE DEF s
  <2>4. s # <<>> /\ n \in Nat /\ n - 1 \in Nat /\ n - 1 # 0
    <3>1. n \in Nat /\ n - 1 \in Nat /\ n - 1 # 0
      BY <1>1, <1>2, <1>10
    <3> QED BY <2>3, <3>1, EmptySeq
  <2>5. /\ r \in Seq(Node) /\ Len(r) = n - 1
        /\ \A i \in 1..(n - 1) : r[i] = s[After(i, n - 1)]
    BY <2>3, <2>4, RotatedIs
  <2>6. Linked(next', prev', cursor', r)
    BY <2>1, <2>2, <2>4, Stepping
  <2> HIDE DEF r
  <2>7. Chain' = r
    BY <1>1, <2>4, <2>5, <2>6, ReadsThen
  <2> DEFINE At(i) == After(i, n - 1) + 1
  <2>8. /\ \A i \in 1..(n - 1) : r[i] = q[At(i)] /\ At(i) \in 2..n /\ At(i) \in 1..n
        /\ \A i, j \in 1..(n - 1) : i # j => At(i) # At(j)
    <3>1. \A i \in 1..(n - 1) : After(i, n - 1) \in 1..(n - 1)
      BY <2>4 DEF After
    <3>2. \A i, j \in 1..(n - 1) : i # j => After(i, n - 1) # After(j, n - 1)
      BY <2>4 DEF After
    <3>3. \A i \in 1..(n - 1) : r[i] = q[After(i, n - 1) + 1]
      BY <2>3, <2>5, <3>1
    <3>4. \A i \in 1..(n - 1) : At(i) \in 2..n /\ At(i) \in 1..n
      <4> SUFFICES ASSUME NEW i \in 1..(n - 1) PROVE At(i) \in 2..n /\ At(i) \in 1..n
        OBVIOUS
      <4>1. n \in Nat
        BY <1>1
      <4>2. After(i, n - 1) \in 1..(n - 1)
        BY <3>1
      <4> QED BY <4>1, <4>2
    <3>5. \A i, j \in 1..(n - 1) : i # j => At(i) # At(j)
      BY <3>1, <3>2
    <3> QED BY <3>3, <3>4, <3>5
  <2> HIDE DEF At
  <2>9. cursor' = r[1] /\ r # <<>> /\ 1 \in 1..(n - 1)
    <3>1. 1 \in 1..(n - 1)
      BY <2>4
    <3>2. r # <<>>
      BY <2>4, <2>5, EmptySeq
    <3> QED BY <2>6, <3>1, <3>2 DEF Linked
  <2>10. \A i \in 1..(n - 1) : r[i] \in Node /\ r[i] \in InRing \ {cursor}
    <3> TAKE i \in 1..(n - 1)
    <3>1. At(i) \in 1..n /\ At(i) # 1 /\ 1 \in 1..n
      BY <1>1, <2>8
    <3>2. q[At(i)] # q[1]
      BY <1>4, <3>1 DEF n, q
    <3> QED BY <1>1, <1>2, <2>8, <3>1, <3>2
  <2>11. /\ since' \in [Node -> [turns : [Node -> Nat], ends : Nat]]
         /\ since'[r[1]] = Fresh
         /\ \A m \in Node :
              m # r[1] /\ m \in InRing \ {cursor} =>
                /\ since'[m].ends = since[m].ends + 1
                /\ \A u \in Node :
                     since'[m].turns[u] = since[m].turns[u] + IF u = r[1] THEN 1 ELSE 0
    <3>1. Turn(r[1], InRing \ {cursor}, 1) /\ r[1] \in Node /\ 1 \in Nat
      BY <2>1, <2>9, <2>10
    <3> QED BY <3>1, TurnCounts
  <2>12. TypeOK'
    <3>1. next[cursor] \in Node /\ prev[cursor] \in Node
      <4>1. 1 \in 1..n /\ n \in 1..n /\ After(1, n) \in 1..n /\ After(n, n) = 1
        BY <1>1, <1>2 DEF After
      <4> QED BY <1>1, <1>2, <1>6, <4>1
    <3>2. next' \in [Node -> Node \cup {NULL}] /\ prev' \in [Node -> Node \cup {NULL}]
      BY <1>5, <2>1, <3>1 DEF UnlinkedNext, UnlinkedPrev
    <3>3. inserted' \in 0..Len(Order)
      BY <1>1, <1>2
    <3> QED BY <2>9, <2>10, <2>11, <3>2, <3>3 DEF TypeOK
  <2>13. Closed'
    BY <2>6, <2>7 DEF Closed
  <2>14. Placed'
    <3>1. \A k \in 1..n : \E i \in 1..inserted : q[k] = Order[i]
      BY DEF RingInv, Placed, q, n
    <3>2. \A k \in 1..(n - 1) : \E i \in 1..inserted : r[k] = Order[i]
      BY <2>8, <3>1
    <3>3. n - 1 <= inserted
      BY <1>1
    <3> QED BY <1>2, <2>5, <2>7, <3>2, <3>3 DEF Placed
  <2>15. Fair(Chain)'
    <3> SUFFICES ASSUME NEW i \in 1..(n - 1), NEW j \in 1..(n - 1), i # j
                 PROVE  since'[r[i]].turns[r[j]]
                          <= since'[r[i]].ends + IF 1 < j /\ j < i THEN 0 ELSE 1
      BY <2>5, <2>7, <2>11 DEF Fair
    <3> DEFINE T == since[q[At(i)]].turns[q[At(j)]]
               E == since[q[At(i)]].ends
    <3>1. /\ r[i] = q[At(i)] /\ r[j] = q[At(j)]
          /\ At(i) \in 1..n /\ At(j) \in 1..n /\ At(i) # At(j)
      BY <2>8
    <3>2. T \in Nat /\ E \in Nat /\ T <= E + 1
      BY <3>1, FairFacts DEF q, n
    <3>3. CASE i = 1
      <4>1. since'[r[i]].turns[r[j]] = 0 /\ since'[r[i]].ends = 0
        BY <2>10, <2>11, <3>3 DEF Fresh
      <4> QED BY <4>1
    <3>4. CASE i # 1
      <4>1. r[i] # r[1]
        <5>1. At(i) # At(1) /\ At(1) \in 1..n /\ r[1] = q[At(1)]
          BY <2>8, <2>9, <3>4
        <5> QED BY <1>4, <3>1, <5>1 DEF n, q
      <4>2. r[j] = r[1] => j = 1
        <5>1. At(1) \in 1..n /\ r[1] = q[At(1)] /\ (j # 1 => At(j) # At(1))
          BY <2>8, <2>9
        <5> QED BY <1>4, <3>1, <5>1 DEF n, q
      <4>3. /\ since'[r[i]].ends = E + 1
            /\ since'[r[i]].turns[r[j]] = T + IF j = 1 THEN 1 ELSE 0
        BY <2>10, <2>11, <3>1, <4>1, <4>2
      <4> HIDE DEF T, E
      <4> QED BY <3>2, <4>3
    <3> QED BY <3>3, <3>4
  <2>16. Queue!Leave
    BY <1>2, <1>10, <2>7 DEF Queue!Leave, r, s, n, q
  <2> QED BY <1>8, <2>12, <2>13, <2>14, <2>15, <2>16 DEF RingInv
<1> QED BY <1>9, <1>10

\* A step that changes nothing.
LEMMA StutterKeeps ==
  ASSUME RingInv, UNCHANGED vars
  PROVE  RingInv' /\ Chain' = Chain
<1>1. /\ next' = next /\ prev' = prev /\ cursor' = cursor /\ inserted' = inserted
      /\ since' = since
  BY DEF vars
<1>2. Chain' = Chain
  BY <1>1, ChainHere, ChainThere
<1>3. TypeOK' /\ NoTurnYet'
  BY <1>1 DEF RingInv, TypeOK, NoTurnYet, Loading
<1>4. Closed' /\ Placed' /\ Fair(Chain)'
  BY <1>1, <1>2 DEF RingInv, Closed, Linked, Placed, Fair
<1> QED BY <1>2, <1>3, <1>4 DEF RingInv

-----------------------------------------------------------------------------
(* The theorems *)

\* The invariant is kept, and every step is one of RunQueue's or a stutter.
LEMMA RingStep ==
  ASSUME RingInv, [Next]_vars
  PROVE  RingInv' /\ [Queue!RunQueueNext]_Chain
<1>1. CASE Load
  BY <1>1, LoadKeeps DEF Queue!RunQueueNext
<1>2. CASE Suspends
  BY <1>2, SuspendsKeeps DEF Queue!RunQueueNext
<1>3. CASE Ends
  BY <1>3, EndsKeeps DEF Queue!RunQueueNext
<1>4. CASE UNCHANGED vars
  BY <1>4, StutterKeeps
<1> QED BY <1>1, <1>2, <1>3, <1>4 DEF Next

\* The invariant holds in every behaviour of the ring.
LEMMA RingAlways == Spec => []RingInv
<1>1. Init => RingInv
  BY RingInit
<1>2. RingInv /\ [Next]_vars => RingInv'
  BY RingStep
<1> QED BY <1>1, <1>2, PTL DEF Spec

(***************************************************************************)
(* The links and the cursor are pointers to nodes or NULL, whatever was    *)
(* inserted and whichever tasks have ended.                                *)
(***************************************************************************)
THEOREM RingTypes == Spec => []TypeOK
<1>1. RingInv => TypeOK
  BY DEF RingInv
<1> QED BY <1>1, RingAlways, PTL

(***************************************************************************)
(* insert() and shrink() keep the ring closed, without repetition and      *)
(* linked both ways, for any number of tasks.                              *)
(***************************************************************************)
THEOREM RingStaysIntact == Spec => []RingIntact
<1>1. RingInv => RingIntact
  <2> SUFFICES ASSUME RingInv, cursor # NULL
               PROVE  /\ \E k \in 1..Len(Order) : Hop[k] = cursor
                      /\ \A m, n \in DOMAIN Chain : Chain[m] = Chain[n] => m = n
                      /\ \A n \in InRing : prev[next[n]] = n /\ next[prev[n]] = n
    BY DEF RingIntact
  <2> DEFINE q == Chain
             N == Len(q)
  <2>1. /\ q \in Seq(Node) /\ N \in Nat /\ N # 0 /\ q # <<>>
        /\ N <= Len(Order) /\ InRing = {q[k] : k \in 1..N}
    <3>1. /\ Len(Order) \in Nat /\ inserted \in 0..Len(Order)
          /\ q \in Seq(Node) /\ N \in Nat /\ N <= inserted
          /\ q # <<>> /\ N # 0 /\ InRing = {q[k] : k \in 1..N}
      BY RingFacts
    <3> HIDE DEF q, N
    <3> QED BY <3>1
  <2>2. Linked(next, prev, cursor, q)
    BY DEF RingInv, Closed
  <2> HIDE DEF q, N
  <2>3. \E k \in 1..Len(Order) : Hop[k] = cursor
    <3>1. N \in 1..Len(Order) /\ HopOf(next, cursor)[N] = cursor
      BY <2>1, <2>2, ChainIs DEF N
    <3> QED BY <3>1, ChainHere
  <2>4. \A m, n \in 1..N : q[m] = q[n] => m = n
    BY <2>2 DEF Linked, N
  <2>5. DOMAIN q = 1..N
    BY <2>1, LenProperties DEF N
  <2>6. \A i \in 1..N : next[q[i]] = q[After(i, N)] /\ prev[q[After(i, N)]] = q[i]
    BY <2>2 DEF Linked, N
  <2>7. ASSUME NEW i \in 1..N PROVE prev[next[q[i]]] = q[i] /\ next[prev[q[i]]] = q[i]
    <3> DEFINE j == IF i = 1 THEN N ELSE i - 1
    <3>1. j \in 1..N /\ After(j, N) = i
      BY <2>1 DEF After
    <3> HIDE DEF j
    <3> QED BY <2>6, <3>1
  <2> QED BY <2>1, <2>3, <2>4, <2>5, <2>7 DEF q
<1> QED BY <1>1, RingAlways, PTL

(***************************************************************************)
(* contextring.c and the loop of sus_runall implement RunQueue: every      *)
(* change of the pointers is an insert, a turn or a leave of the sequence  *)
(* that Sus takes the scheduler for.                                       *)
(***************************************************************************)
THEOREM RingImplementsQueue == Spec => RunQueueSpec
<1>1. Init => Queue!RunQueueInit
  BY RingInit DEF Queue!RunQueueInit
<1>2. RingInv /\ [Next]_vars => [Queue!RunQueueNext]_Chain
  BY RingStep
<1> QED BY <1>1, <1>2, RingAlways, PTL DEF Spec, RunQueueSpec, Queue!RunQueueSpec

(***************************************************************************)
(* Between two turns of a task no other has more turns than the tasks      *)
(* ended meanwhile and one: shrink's extra step cannot add up.             *)
(***************************************************************************)
THEOREM BypassIsBounded == Spec => []BoundedBypass
<1>1. RingInv => BoundedBypass
  <2> SUFFICES ASSUME RingInv, NEW t \in InRing, NEW u \in InRing, t # u
               PROVE  since[t].turns[u] <= since[t].ends + 1
    BY DEF BoundedBypass
  <2>1. PICK i \in 1..Len(Chain) : t = Chain[i]
    BY RingFacts
  <2>2. PICK j \in 1..Len(Chain) : u = Chain[j]
    BY RingFacts
  <2> QED BY <2>1, <2>2, FairFacts
<1> QED BY <1>1, RingAlways, PTL

=============================================================================
