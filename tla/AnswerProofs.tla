---------------------------- MODULE AnswerProofs ----------------------------
(***************************************************************************)
(* The legacy engine with any peer: what MAIN is told is what the frames   *)
(* among the bytes it sent call for.  CalledFor hears these bytes one by   *)
(* one, whatever the reads they come in; process_main takes them frame by  *)
(* frame, as frame.rl finds them.  What is called for by what was not yet  *)
(* processed, and what stands in the outputs, is together what is due.     *)
(***************************************************************************)
EXTENDS PeerProofs

-----------------------------------------------------------------------------
(* Sequences after one another *)

\* A part of a sequence that is longer by one element.
LEMMA LongerByOne ==
  ASSUME NEW S, NEW s \in Seq(S), NEW k \in 1..Len(s), NEW j \in 1..k
  PROVE  /\ SubSeq(s, j, k - 1) \in Seq(S) /\ s[k] \in S
         /\ SubSeq(s, j, k) = Append(SubSeq(s, j, k - 1), s[k])
<1> DEFINE n == Len(s)
           a == SubSeq(s, j, k - 1)
           b == SubSeq(s, j, k)
           c == Append(a, s[k])
<1>1. n \in Nat /\ k \in 1..n /\ s[k] \in S /\ j \in 1..k
  BY LenProperties, ElementOfSeq
<1>2. k - 1 \in 0..n /\ k \in 0..n /\ j \in Nat \ {0}
  BY <1>1
<1>3. /\ a \in Seq(S) /\ Len(a) = (IF j <= k - 1 THEN (k - 1) - j + 1 ELSE 0)
      /\ \A i \in 1..((k - 1) - j + 1) : a[i] = s[j + i - 1]
  BY <1>2, PartIsSeq
<1>4. /\ b \in Seq(S) /\ Len(b) = (IF j <= k THEN k - j + 1 ELSE 0)
      /\ \A i \in 1..(k - j + 1) : b[i] = s[j + i - 1]
  BY <1>2, PartIsSeq
<1> HIDE DEF n, a, b
<1>5. /\ c \in Seq(S) /\ Len(c) = Len(a) + 1 /\ c[Len(a) + 1] = s[k]
      /\ \A i \in 1..Len(a) : c[i] = a[i]
  BY <1>1, <1>3, AppendProperties
<1> HIDE DEF c
<1>6. Len(a) = k - j /\ Len(b) = k - j + 1 /\ Len(c) = k - j + 1
  BY <1>1, <1>3, <1>4, <1>5
<1>7. ASSUME NEW i \in 1..(k - j + 1) PROVE b[i] = c[i]
  <2>1. CASE i = k - j + 1
    <3>1. b[i] = s[j + i - 1] /\ j + i - 1 = k
      BY <1>1, <1>4, <2>1
    <3> QED BY <1>1, <1>5, <1>6, <2>1, <3>1
  <2>2. CASE i # k - j + 1
    <3>1. i \in 1..(k - j) /\ i \in 1..((k - 1) - j + 1)
      BY <1>1, <2>2
    <3>2. b[i] = s[j + i - 1]
      BY <1>4
    <3>3. a[i] = s[j + i - 1]
      BY <1>3, <3>1
    <3>4. c[i] = a[i]
      BY <1>5, <1>6, <3>1
    <3> QED BY <3>2, <3>3, <3>4
  <2> QED BY <2>1, <2>2
<1>8. b = c
  BY <1>4, <1>5, <1>6, <1>7, SeqEqual
<1> QED BY <1>1, <1>3, <1>8 DEF a, b, c

\* Two sequences of sequences make together what each makes.
LEMMA FlattenConcat ==
  ASSUME NEW S, NEW s \in Seq(Seq(S)), NEW t \in Seq(Seq(S))
  PROVE  FlattenSeq(s \o t) = FlattenSeq(s) \o FlattenSeq(t)
<1> DEFINE W == Seq(S)
           n == Len(t)
           P(k) == SubSeq(t, 1, k)
           Bad == {k \in 0..n : FlattenSeq(s \o P(k)) # FlattenSeq(s) \o FlattenSeq(P(k))}
<1>1. n \in Nat
  BY LenProperties
<1>2. \A k \in 1..n : P(k - 1) \in Seq(W) /\ t[k] \in W /\ P(k) = Append(P(k - 1), t[k])
  <2>1. \A k \in 1..n : 1 \in 1..k
    BY <1>1
  <2> QED BY <2>1, LongerByOne
<1>3. P(0) = <<>> /\ P(n) = t
  BY <1>1, SubSeqEmpty, SubSeqFull
<1>4. FlattenSeq(s) \in W
  BY FlattenIsSeq
<1> HIDE DEF n, P
<1>5. Bad = {}
  <2> SUFFICES ASSUME Bad # {} PROVE FALSE
    OBVIOUS
  <2>1. Bad \in SUBSET Nat
    BY <1>1
  <2> HIDE DEF Bad
  <2>2. PICK k \in Bad : \A j \in Bad : k <= j
    BY <2>1, LeastNat
  <2>3. k \in 0..n /\ FlattenSeq(s \o P(k)) # FlattenSeq(s) \o FlattenSeq(P(k))
    BY <2>2 DEF Bad
  <2>4. k # 0
    <3>1. s \o <<>> = s /\ FlattenSeq(<<>>) = <<>> /\ FlattenSeq(s) \o <<>> = FlattenSeq(s)
      BY <1>4, ConcatEmptySeq, FlattenFew
    <3> QED BY <1>3, <2>3, <3>1
  <2>5. k \in 1..n /\ k - 1 \in 0..n /\ ~(k <= k - 1)
    BY <1>1, <2>3, <2>4
  <2> DEFINE u == P(k - 1)
             x == t[k]
  <2>6. u \in Seq(W) /\ x \in W /\ P(k) = Append(u, x)
    BY <1>2, <2>5
  <2>7. FlattenSeq(s \o u) = FlattenSeq(s) \o FlattenSeq(u)
    BY <2>2, <2>5 DEF Bad
  <2> HIDE DEF u, x
  <2>8. s \o u \in Seq(W) /\ s \o Append(u, x) = Append(s \o u, x)
    <3>1. s \o u \in Seq(W)
      BY <2>6, ConcatProperties
    <3>2. Append(u, x) = u \o <<x>> /\ Append(s \o u, x) = (s \o u) \o <<x>> /\ <<x>> \in Seq(W)
      BY <2>6, <3>1, AppendIsConcat
    <3> QED BY <2>6, <3>1, <3>2, ConcatAssociative, SMTT(30)
  <2>9. FlattenSeq(u) \in W
    BY <2>6, FlattenIsSeq
  <2>10. FlattenSeq(Append(s \o u, x)) = FlattenSeq(s \o u) \o x
    BY <2>6, <2>8, FlattenAppend
  <2>11. FlattenSeq(Append(u, x)) = FlattenSeq(u) \o x
    BY <2>6, FlattenAppend
  <2>12. (FlattenSeq(s) \o FlattenSeq(u)) \o x = FlattenSeq(s) \o (FlattenSeq(u) \o x)
    <3> DEFINE a == FlattenSeq(s)
               b == FlattenSeq(u)
    <3>1. a \in Seq(S) /\ b \in Seq(S) /\ x \in Seq(S)
      BY <1>4, <2>6, <2>9
    <3> HIDE DEF a, b
    <3>2. (a \o b) \o x = a \o (b \o x)
      BY <3>1, ConcatAssociative
    <3> QED BY <3>2 DEF a, b
  <2> QED BY <2>3, <2>6, <2>7, <2>8, <2>10, <2>11, <2>12
<1>6. n \in 0..n
  BY <1>1
<1> QED BY <1>3, <1>5, <1>6

-----------------------------------------------------------------------------
(* What of a sequence is in a set *)

\* Each element by itself.
Picked(s, K) == [i \in DOMAIN s |-> IF s[i] \in K THEN <<s[i]>> ELSE <<>>]

\* What Keep joins: each element kept or not.
LEMMA PickedIs ==
  ASSUME NEW S, NEW s \in Seq(S), NEW K
  PROVE  /\ Picked(s, K) \in Seq(Seq(K)) /\ Len(Picked(s, K)) = Len(s)
         /\ \A i \in 1..Len(s) : Picked(s, K)[i] = IF s[i] \in K THEN <<s[i]>> ELSE <<>>
         /\ Keep(s, K) = FlattenSeq(Picked(s, K))
<1> DEFINE n == Len(s)
           p == Picked(s, K)
<1>1. n \in Nat /\ DOMAIN s = 1..n
  BY LenProperties
<1> HIDE DEF n
<1>2. \A i \in 1..n : p[i] = IF s[i] \in K THEN <<s[i]>> ELSE <<>>
  BY <1>1 DEF Picked
<1>3. ASSUME NEW i \in 1..n PROVE p[i] \in Seq(K)
  <2>1. CASE s[i] \in K
    BY <1>2, <2>1, ShortSeqs, ZenonT(30)
  <2>2. CASE s[i] \notin K
    BY <1>2, <2>2, ShortSeqs
  <2> QED BY <2>1, <2>2
<1>4. p \in [1..n -> Seq(K)]
  BY <1>1, <1>3 DEF Picked
<1> HIDE DEF p
<1>5. p \in Seq(Seq(K)) /\ Len(p) = n
  BY <1>1, <1>4, SegmentIsSeq
<1>6. Keep(s, K) = FlattenSeq(p)
  BY DEF Keep, Picked, p
<1> QED BY <1>2, <1>5, <1>6 DEF n, p

\* What is kept is in the set.
LEMMA KeptIsSeq ==
  ASSUME NEW S, NEW s \in Seq(S), NEW K
  PROVE  Keep(s, K) \in Seq(K) /\ Len(Keep(s, K)) \in Nat
<1>1. Keep(s, K) \in Seq(K)
  BY PickedIs, FlattenIsSeq
<1> QED BY <1>1, LenProperties

\* Of two sequences after one another each is kept by itself.
LEMMA KeepConcat ==
  ASSUME NEW S, NEW s \in Seq(S), NEW t \in Seq(S), NEW K
  PROVE  Keep(s \o t, K) = Keep(s, K) \o Keep(t, K)
<1> DEFINE a == Picked(s, K)
           b == Picked(t, K)
           c == Picked(s \o t, K)
           m == Len(s)
           n == Len(t)
<1>1. /\ s \o t \in Seq(S) /\ Len(s \o t) = m + n /\ m \in Nat /\ n \in Nat
      /\ \A i \in 1..(m + n) : (s \o t)[i] = IF i <= m THEN s[i] ELSE t[i - m]
  BY ConcatProperties, LenProperties
<1>2. /\ a \in Seq(Seq(K)) /\ Len(a) = m
      /\ \A i \in 1..m : a[i] = IF s[i] \in K THEN <<s[i]>> ELSE <<>>
  BY PickedIs
<1>3. /\ b \in Seq(Seq(K)) /\ Len(b) = n
      /\ \A i \in 1..n : b[i] = IF t[i] \in K THEN <<t[i]>> ELSE <<>>
  BY PickedIs
<1>4. /\ c \in Seq(Seq(K)) /\ Len(c) = Len(s \o t)
      /\ \A i \in 1..Len(s \o t) : c[i] = IF (s \o t)[i] \in K THEN <<(s \o t)[i]>> ELSE <<>>
  <2> DEFINE z == s \o t
  <2>1. z \in Seq(S)
    BY <1>1
  <2> HIDE DEF z
  <2>2. /\ Picked(z, K) \in Seq(Seq(K)) /\ Len(Picked(z, K)) = Len(z)
        /\ \A i \in 1..Len(z) : Picked(z, K)[i] = IF z[i] \in K THEN <<z[i]>> ELSE <<>>
    BY <2>1, PickedIs
  <2> QED BY <2>2 DEF z
<1>5. Keep(s, K) = FlattenSeq(a) /\ Keep(t, K) = FlattenSeq(b) /\ Keep(s \o t, K) = FlattenSeq(c)
  BY <1>1, PickedIs
<1> HIDE DEF a, b, c, m, n
<1>6. /\ a \o b \in Seq(Seq(K)) /\ Len(a \o b) = m + n
      /\ \A i \in 1..(m + n) : (a \o b)[i] = IF i <= m THEN a[i] ELSE b[i - m]
  BY <1>2, <1>3, ConcatProperties, ZenonT(30)
<1>7. ASSUME NEW i \in 1..(m + n) PROVE c[i] = (a \o b)[i]
  <2>0. c[i] = IF (s \o t)[i] \in K THEN <<(s \o t)[i]>> ELSE <<>>
    BY <1>1, <1>4
  <2>1. CASE i <= m
    <3>1. i \in 1..m
      BY <1>1, <2>1
    <3>2. (s \o t)[i] = s[i] /\ (a \o b)[i] = a[i]
      BY <1>1, <1>6, <2>1
    <3> QED BY <1>2, <2>0, <3>1, <3>2
  <2>2. CASE ~(i <= m)
    <3>1. i - m \in 1..n
      BY <1>1, <2>2
    <3>2. (s \o t)[i] = t[i - m] /\ (a \o b)[i] = b[i - m]
      BY <1>1, <1>6, <2>2
    <3> DEFINE j == i - m
    <3>3. b[j] = IF t[j] \in K THEN <<t[j]>> ELSE <<>>
      BY <1>3, <3>1
    <3> QED BY <2>0, <3>2, <3>3
  <2> QED BY <2>1, <2>2
<1>8. c = a \o b
  BY <1>1, <1>4, <1>6, <1>7, SeqEqual
<1> QED BY <1>2, <1>3, <1>5, <1>8, FlattenConcat

\* Short sequences.
LEMMA KeepFew ==
  ASSUME NEW K
  PROVE  /\ Keep(<<>>, K) = <<>>
         /\ \A x : Keep(<<x>>, K) = IF x \in K THEN <<x>> ELSE <<>>
         /\ \A x, y : Keep(<<x, y>>, K) =
              (IF x \in K THEN <<x>> ELSE <<>>) \o (IF y \in K THEN <<y>> ELSE <<>>)
<1> DEFINE P(x) == IF x \in K THEN <<x>> ELSE <<>>
<1>1. \A x : P(x) \in Seq(K)
  BY ShortSeqs
<1>2. Picked(<<>>, K) = <<>>
  BY DEF Picked
<1>3. \A x : Picked(<<x>>, K) = <<P(x)>>
  BY DEF Picked
<1>4. \A x, y : Picked(<<x, y>>, K) = <<P(x), P(y)>>
  BY DEF Picked
<1>5. \A s : Keep(s, K) = FlattenSeq(Picked(s, K))
  BY DEF Keep, Picked
<1> HIDE DEF P
<1>6. Keep(<<>>, K) = <<>> /\ (\A x : Keep(<<x>>, K) = P(x)) /\ \A x, y : Keep(<<x, y>>, K) = P(x) \o P(y)
  <2>1. FlattenSeq(<<>>) = <<>>
    BY FlattenFew
  <2>2. \A a \in Seq(K) : FlattenSeq(<<a>>) = a
    BY FlattenFew
  <2>3. \A a, b \in Seq(K) : FlattenSeq(<<a, b>>) = a \o b
    BY FlattenFew
  <2>4. Keep(<<>>, K) = <<>>
    BY <1>2, <1>5, <2>1
  <2>5. ASSUME NEW x PROVE Keep(<<x>>, K) = P(x)
    BY <1>1, <1>3, <1>5, <2>2
  <2>6. ASSUME NEW x, NEW y PROVE Keep(<<x, y>>, K) = P(x) \o P(y)
    BY <1>1, <1>4, <1>5, <2>3
  <2> QED BY <2>4, <2>5, <2>6
<1> QED BY <1>6 DEF P

-----------------------------------------------------------------------------
(* What bytes call for *)

\* Before the first byte, and after some of them.
Fresh == [cs |-> "main", text |-> <<>>, reply |-> <<>>]
Hearing == {m \in [cs : States \ {"final"}, text : Seq(Symbol), reply : Seq(Symbol)] :
              m.cs \notin {"data", "lrc"} => m.text = <<>>}

\* h is what was heard before and after each of the bytes.
Hears(bytes, h) ==
  /\ h \in [0..Len(bytes) -> Hearing] /\ h[0] = Fresh
  /\ \A i \in 1..Len(bytes) : h[i] = Heard(h[i - 1], bytes[i])

\* The reply to a message is made of symbols.
LEMMA CallIsSeq == ASSUME NEW text PROVE Call(text) \in Seq(Symbol)
<1> DEFINE type == Parsed(text)
<1>1. {"ACK", "S1"} \subseteq Symbol /\ \A t \in DOMAIN Response : Response[t] \in Symbol
  BY SymbolsAre
<1> HIDE DEF type
<1>2. Call(text) = CASE type \in DOMAIN Response /\ Response[type] # "" -> <<"ACK", Response[type]>>
                     [] type = "S1" -> <<"ACK", "S1">>
                     [] OTHER -> <<"ACK">>
  BY DEF Call, type
<1>3. "S1" \notin DOMAIN Response
  BY DEF Response
<1>4. CASE type \in DOMAIN Response /\ Response[type] # ""
  <2>1. Call(text) = <<"ACK", Response[type]>> /\ Response[type] \in Symbol
    BY <1>1, <1>2, <1>3, <1>4
  <2> QED BY <1>1, <2>1, ShortSeqs
<1>5. CASE ~(type \in DOMAIN Response /\ Response[type] # "") /\ type = "S1"
  <2>1. Call(text) = <<"ACK", "S1">>
    BY <1>2, <1>5
  <2> QED BY <1>1, <2>1, ShortSeqs
<1>6. CASE ~(type \in DOMAIN Response /\ Response[type] # "") /\ type # "S1"
  <2>1. Call(text) = <<"ACK">>
    BY <1>2, <1>6
  <2> QED BY <1>1, <2>1, ShortSeqs
<1> QED BY <1>4, <1>5, <1>6

\* What one byte makes of what was heard.
LEMMA HeardIs ==
  ASSUME NEW m \in Hearing, NEW byte \in Symbol
  PROVE  /\ Heard(m, byte) \in Hearing
         /\ m.cs = "error" => Heard(m, byte) = m
         /\ m.cs = "lrc" => /\ Heard(m, byte).cs = "main" /\ Heard(m, byte).text = <<>>
                            /\ Heard(m, byte).reply =
                                 m.reply \o (IF byte = "ok" THEN Call(m.text) ELSE <<"NAK">>)
         /\ m.cs \notin {"error", "lrc"} =>
              /\ Heard(m, byte).cs = Step(m.cs, byte) /\ Heard(m, byte).reply = m.reply
              /\ Heard(m, byte).text =
                   IF Step(m.cs, byte) = "data" THEN Append(m.text, byte) ELSE m.text
<1>0. /\ m \in [cs : States \ {"final"}, text : Seq(Symbol), reply : Seq(Symbol)]
      /\ m.cs \notin {"data", "lrc"} => m.text = <<>>
  BY DEF Hearing
<1>1. /\ m.cs \in {"main", "first", "data", "lrc", "error"} /\ m.text \in Seq(Symbol)
      /\ m.reply \in Seq(Symbol)
      /\ m = [cs |-> m.cs, text |-> m.text, reply |-> m.reply]
  BY <1>0 DEF States
<1>2. CASE m.cs = "lrc"
  <2> DEFINE said == IF byte = "ok" THEN Call(m.text) ELSE <<"NAK">>
             next == [cs |-> "main", text |-> <<>>, reply |-> m.reply \o said]
  <2>1. Heard(m, byte) = next
    BY <1>2 DEF Heard
  <2>2. said \in Seq(Symbol)
    BY CallIsSeq, SymbolsAre, ShortSeqs
  <2>3. m.reply \o said \in Seq(Symbol)
    <3> HIDE DEF said
    <3> QED BY <1>1, <2>2, ConcatProperties
  <2> HIDE DEF said
  <2>4. next \in Hearing
    BY <2>3, ShortSeqs DEF Hearing, States
  <2>5. next.cs = "main" /\ next.text = <<>> /\ next.reply = m.reply \o said
    OBVIOUS
  <2> HIDE DEF next
  <2>6. m.cs # "error"
    BY <1>2
  <2> QED BY <1>2, <2>1, <2>4, <2>5, <2>6, Zenon DEF said
<1>3. CASE m.cs = "error"
  <2>1. Heard(m, byte) = [m EXCEPT !.cs = "error", !.text = m.text]
    BY <1>3 DEF Heard
  <2>2. Heard(m, byte) = m
    BY <1>1, <1>3, <2>1
  <2> QED BY <1>3, <2>2
<1>4. CASE m.cs \in {"main", "first", "data"}
  <2> DEFINE cs == Step(m.cs, byte)
             t == IF cs = "data" THEN Append(m.text, byte) ELSE m.text
             next == [cs |-> cs, text |-> t, reply |-> m.reply]
  <2>1. Heard(m, byte) = next
    BY <1>1, <1>4 DEF Heard
  <2>2. /\ cs \in {"main", "first", "data", "lrc", "error"}
        /\ cs \notin {"data", "lrc"} => m.cs # "data"
    BY <1>4 DEF Step
  <2>3. Append(m.text, byte) \in Seq(Symbol)
    BY <1>1, AppendProperties
  <2>4. t \in Seq(Symbol)
    BY <1>1, <2>3
  <2>5. cs \notin {"data", "lrc"} => t = <<>>
    BY <1>0, <1>4, <2>2
  <2> HIDE DEF cs, t
  <2>6. next \in Hearing
    BY <1>1, <2>2, <2>4, <2>5 DEF Hearing, States
  <2>7. next.cs = cs /\ next.text = t /\ next.reply = m.reply
    OBVIOUS
  <2> HIDE DEF next
  <2>8. m.cs # "error" /\ m.cs # "lrc"
    BY <1>4
  <2> QED BY <2>1, <2>6, <2>7, <2>8, Zenon DEF cs, t
<1> QED BY <1>1, <1>2, <1>3, <1>4

\* It is heard byte by byte.
LEMMA HearsIs ==
  ASSUME NEW bytes \in Seq(Symbol)
  PROVE  \E h : Hears(bytes, h) /\ CalledFor(bytes) = h[Len(bytes)]
<1> DEFINE n == Len(bytes)
           V == Hearing
           z == Fresh
           Solves(m, f) == f = [i \in 0..m |-> IF i = 0 THEN z ELSE Heard(f[i - 1], bytes[i])]
           run == CHOOSE f : Solves(n, f)
           Good1(m) == \E f \in [0..m -> V] : f[0] = z /\ \A i \in 1..m : f[i] = Heard(f[i - 1], bytes[i])
           Bad == {m \in 0..n : ~Good1(m)}
<1>0. n \in Nat
  BY LenProperties
<1>1. z \in V
  BY ShortSeqs DEF Hearing, Fresh, States
<1>2. \A m \in V, i \in 1..n : Heard(m, bytes[i]) \in V
  BY ElementOfSeq, HeardIs
<1>4. CalledFor(bytes) = run[n]
  BY DEF CalledFor, Fresh
<1> HIDE DEF n, V, z, run
<1>5. Bad = {}
  <2> SUFFICES ASSUME Bad # {} PROVE FALSE
    OBVIOUS
  <2>1. Bad \in SUBSET Nat
    BY <1>0
  <2> HIDE DEF Bad
  <2>2. PICK m \in Bad : \A k \in Bad : m <= k
    BY <2>1, LeastNat
  <2>3. m \in 0..n /\ ~Good1(m)
    BY <2>2 DEF Bad
  <2>4. m # 0
    <3> DEFINE f == [i \in 0..0 |-> z]
    <3>1. f \in [0..0 -> V] /\ f[0] = z /\ \A i \in 1..0 : FALSE
      BY <1>1
    <3> HIDE DEF f
    <3>2. Good1(0)
      BY <3>1
    <3> QED BY <2>3, <3>2
  <2>5. m - 1 \in 0..n /\ m - 1 \notin Bad
    BY <1>0, <2>2, <2>3, <2>4
  <2>6. PICK f \in [0..(m - 1) -> V] :
          f[0] = z /\ \A i \in 1..(m - 1) : f[i] = Heard(f[i - 1], bytes[i])
    BY <2>5 DEF Bad
  <2> DEFINE t == Heard(f[m - 1], bytes[m])
             g == [i \in 0..m |-> IF i = m THEN t ELSE f[i]]
  <2>7. t \in V
    <3>1. m - 1 \in 0..(m - 1) /\ m \in 1..n
      BY <1>0, <2>3, <2>4
    <3> QED BY <1>2, <3>1
  <2>8. g[m] = t /\ f[m - 1] = g[m - 1]
    <3>1. m \in 0..m /\ m - 1 \in 0..m /\ m - 1 # m
      BY <2>3, <2>4
    <3> HIDE DEF t
    <3> QED BY <3>1
  <2>9. g \in [0..m -> V]
    <3> HIDE DEF t
    <3>1. ASSUME NEW i \in 0..m, i # m PROVE f[i] \in V
      BY <2>3, <2>6, <3>1
    <3> QED BY <2>7, <3>1
  <2>10. g[0] = z
    <3>1. 0 \in 0..m /\ 0 # m
      BY <2>3, <2>4
    <3> HIDE DEF t
    <3> QED BY <2>6, <3>1
  <2>11. ASSUME NEW i \in 1..m PROVE g[i] = Heard(g[i - 1], bytes[i])
    <3>1. CASE i = m
      BY <2>8, <3>1
    <3>2. CASE i # m
      <4>1. i \in 1..(m - 1) /\ i - 1 \in 0..m /\ i - 1 # m /\ i \in 0..m
        BY <2>3, <3>2
      <4>2. g[i] = f[i] /\ g[i - 1] = f[i - 1]
        <5> HIDE DEF t
        <5> QED BY <3>2, <4>1
      <4> QED BY <2>6, <4>1, <4>2
    <3> QED BY <3>1, <3>2
  <2> HIDE DEF g
  <2>12. Good1(m)
    BY <2>9, <2>10, <2>11
  <2> QED BY <2>3, <2>12
<1>6. PICK f \in [0..n -> V] :
        f[0] = z /\ \A i \in 1..n : f[i] = Heard(f[i - 1], bytes[i])
  <2>1. n \in 0..n
    BY <1>0
  <2> QED BY <1>5, <2>1
<1>7. Solves(n, f)
  <2>1. \A i \in 0..n : f[i] = IF i = 0 THEN z ELSE Heard(f[i - 1], bytes[i])
    <3> TAKE i \in 0..n
    <3>1. CASE i = 0
      BY <1>6, <3>1
    <3>2. CASE i # 0
      <4>1. i \in 1..n
        BY <1>0, <3>2
      <4> QED BY <1>6, <3>2, <4>1
    <3> QED BY <3>1, <3>2
  <2> QED BY <2>1
<1>8. Solves(n, run)
  <2> HIDE DEF Solves
  <2> QED BY <1>7 DEF run
<1>9. \A i \in 0..n : run[i] = IF i = 0 THEN z ELSE Heard(run[i - 1], bytes[i])
  BY <1>8
<1>10. \A i \in 1..n : run[i] = Heard(run[i - 1], bytes[i])
  BY <1>0, <1>9
<1>11. run[0] = z
  BY <1>0, <1>9
<1> DEFINE Wrong == {i \in 0..n : run[i] \notin V}
<1>12. Wrong = {}
  <2> SUFFICES ASSUME Wrong # {} PROVE FALSE
    OBVIOUS
  <2>1. Wrong \in SUBSET Nat
    BY <1>0
  <2> HIDE DEF Wrong
  <2>2. PICK m \in Wrong : \A k \in Wrong : m <= k
    BY <2>1, LeastNat
  <2>3. m \in 0..n /\ run[m] \notin V
    BY <2>2 DEF Wrong
  <2>4. m # 0
    BY <1>1, <1>11, <2>3
  <2>5. m - 1 \in 0..n /\ m \in 1..n /\ m - 1 \notin Wrong
    BY <1>0, <2>2, <2>3, <2>4
  <2>6. run[m - 1] \in V
    BY <2>5 DEF Wrong
  <2>7. run[m] = Heard(run[m - 1], bytes[m])
    BY <1>10, <2>5
  <2> QED BY <1>2, <2>3, <2>5, <2>6, <2>7
<1>13. \A i \in 0..n : run[i] \in V
  BY <1>12
<1>14. run \in [0..n -> V]
  <2>1. run = [i \in 0..n |-> IF i = 0 THEN z ELSE Heard(run[i - 1], bytes[i])]
    BY <1>8
  <2> HIDE DEF Solves
  <2>2. DOMAIN run = 0..n
    BY <2>1
  <2>3. run = [i \in 0..n |-> run[i]]
    BY <2>1, <2>2
  <2> QED BY <1>13, <2>3
<1>15. Hears(bytes, run)
  BY <1>10, <1>11, <1>14 DEF Hears, V, n, z
<1> QED BY <1>4, <1>15 DEF n


\* What was heard of the bytes that two sequences begin with is the same.
LEMMA HeardAlike ==
  ASSUME NEW a \in Seq(Symbol), NEW b \in Seq(Symbol), NEW h, NEW k, Hears(a, h), Hears(b, k),
         NEW n \in 0..Len(a), n <= Len(b), \A i \in 1..n : a[i] = b[i]
  PROVE  \A i \in 0..n : h[i] = k[i]
<1> DEFINE Bad == {i \in 0..n : h[i] # k[i]}
<1>1. /\ n \in Nat
      /\ h[0] = k[0]
      /\ \A i \in 1..n : h[i] = Heard(h[i - 1], a[i]) /\ k[i] = Heard(k[i - 1], b[i])
  BY LenProperties DEF Hears
<1>2. Bad = {}
  <2> SUFFICES ASSUME Bad # {} PROVE FALSE
    OBVIOUS
  <2>1. Bad \in SUBSET Nat
    BY <1>1
  <2> HIDE DEF Bad
  <2>2. PICK i \in Bad : \A j \in Bad : i <= j
    BY <2>1, LeastNat
  <2>3. i \in 0..n /\ h[i] # k[i]
    BY <2>2 DEF Bad
  <2>4. i # 0
    BY <1>1, <2>3
  <2>5. i \in 1..n /\ i - 1 \in 0..n /\ ~(i <= i - 1)
    BY <1>1, <2>3, <2>4
  <2>6. h[i - 1] = k[i - 1]
    BY <2>2, <2>5 DEF Bad
  <2>7. h[i] = Heard(h[i - 1], a[i]) /\ k[i] = Heard(k[i - 1], b[i]) /\ a[i] = b[i]
    BY <1>1, <2>5
  <2> QED BY <2>3, <2>6, <2>7
<1> QED BY <1>2

\* m hears what k hears, after r.
Beyond(m, k, r) == m.cs = k.cs /\ m.text = k.text /\ m.reply = r \o k.reply

\* One more byte, when something was called for before.
LEMMA HeardBeyond ==
  ASSUME NEW m \in Hearing, NEW k \in Hearing, NEW r \in Seq(Symbol), Beyond(m, k, r),
         NEW byte \in Symbol
  PROVE  Beyond(Heard(m, byte), Heard(k, byte), r)
<1>1. m.cs = k.cs /\ m.text = k.text /\ m.reply = r \o k.reply
  BY DEF Beyond
<1>2. CASE m.cs = "error"
  <2>1. Heard(m, byte) = m /\ Heard(k, byte) = k
    BY <1>1, <1>2, HeardIs
  <2> QED BY <2>1
<1>3. CASE m.cs = "lrc"
  <2> DEFINE said == IF byte = "ok" THEN Call(m.text) ELSE <<"NAK">>
             x == k.reply
  <2>1. /\ Heard(m, byte).cs = "main" /\ Heard(m, byte).text = <<>>
        /\ Heard(m, byte).reply = m.reply \o said
    BY <1>3, HeardIs, Zenon
  <2>2. /\ Heard(k, byte).cs = "main" /\ Heard(k, byte).text = <<>>
        /\ Heard(k, byte).reply = k.reply \o said
    <3>1. k.cs = "lrc" /\ said = IF byte = "ok" THEN Call(k.text) ELSE <<"NAK">>
      BY <1>1, <1>3
    <3> HIDE DEF said
    <3> QED BY <3>1, HeardIs, Zenon
  <2>3. said \in Seq(Symbol) /\ x \in Seq(Symbol)
    BY CallIsSeq, SymbolsAre, ShortSeqs DEF Hearing
  <2> HIDE DEF said, x
  <2>4. (r \o x) \o said = r \o (x \o said)
    BY <2>3, ConcatAssociative
  <2> QED BY <1>1, <2>1, <2>2, <2>4 DEF Beyond, x
<1>4. CASE m.cs \notin {"error", "lrc"}
  <2>1. /\ Heard(m, byte).cs = Step(m.cs, byte) /\ Heard(m, byte).reply = m.reply
        /\ Heard(m, byte).text = IF Step(m.cs, byte) = "data" THEN Append(m.text, byte) ELSE m.text
    BY <1>4, HeardIs, Zenon
  <2>2. /\ Heard(k, byte).cs = Step(k.cs, byte) /\ Heard(k, byte).reply = k.reply
        /\ Heard(k, byte).text = IF Step(k.cs, byte) = "data" THEN Append(k.text, byte) ELSE k.text
    <3>1. k.cs \notin {"error", "lrc"}
      BY <1>1, <1>4
    <3> QED BY <3>1, HeardIs, Zenon
  <2> QED BY <1>1, <2>1, <2>2 DEF Beyond
<1> QED BY <1>2, <1>3, <1>4

\* Where no frame is open the bytes that follow are heard like the first.
LEMMA HeardAfter ==
  ASSUME NEW b \in Seq(Symbol), NEW h, Hears(b, h), NEW n \in 0..Len(b), h[n].cs = "main",
         NEW c, c = SubSeq(b, n + 1, Len(b)), NEW k, Hears(c, k)
  PROVE  /\ c \in Seq(Symbol) /\ Len(c) = Len(b) - n
         /\ \A i \in 0..Len(c) : Beyond(h[n + i], k[i], h[n].reply)
<1> DEFINE l == Len(c)
           r == h[n].reply
           Bad == {i \in 0..l : ~Beyond(h[n + i], k[i], r)}
<1>1. Len(b) \in Nat /\ n \in Nat /\ n + 1 \in Nat \ {0} /\ Len(b) \in 0..Len(b)
  BY LenProperties
<1>2. /\ c \in Seq(Symbol) /\ Len(c) = (IF n + 1 <= Len(b) THEN Len(b) - (n + 1) + 1 ELSE 0)
      /\ \A i \in 1..(Len(b) - (n + 1) + 1) : c[i] = b[(n + 1) + i - 1]
  BY <1>1, PartIsSeq
<1>3. l = Len(b) - n /\ l \in Nat
  BY <1>1, <1>2
<1>4. /\ h[0] = Fresh /\ k[0] = Fresh
      /\ (\A i \in 0..Len(b) : h[i] \in Hearing) /\ \A i \in 0..l : k[i] \in Hearing
      /\ \A i \in 1..Len(b) : h[i] = Heard(h[i - 1], b[i])
      /\ \A i \in 1..l : k[i] = Heard(k[i - 1], c[i])
  BY DEF Hears
<1>5. h[n] \in Hearing
  BY <1>4
<1>6. r \in Seq(Symbol) /\ h[n].text = <<>>
  BY <1>5 DEF Hearing
<1> HIDE DEF l, r
<1>7. Bad = {}
  <2> SUFFICES ASSUME Bad # {} PROVE FALSE
    OBVIOUS
  <2>1. Bad \in SUBSET Nat
    BY <1>3
  <2> HIDE DEF Bad
  <2>2. PICK i \in Bad : \A j \in Bad : i <= j
    BY <2>1, LeastNat
  <2>3. i \in 0..l /\ ~Beyond(h[n + i], k[i], r)
    BY <2>2 DEF Bad
  <2>4. i # 0
    <3>1. n + 0 = n
      BY <1>1
    <3>2. k[0].cs = "main" /\ k[0].text = <<>> /\ k[0].reply = <<>>
      BY <1>4 DEF Fresh
    <3>3. r \o <<>> = r
      BY <1>6, ConcatEmptySeq
    <3>4. Beyond(h[n + 0], k[0], r)
      BY <1>6, <3>1, <3>2, <3>3 DEF Beyond, r
    <3> QED BY <2>3, <3>4
  <2>5. /\ i \in 1..l /\ i - 1 \in 0..l /\ ~(i <= i - 1) /\ n + i \in 1..Len(b)
        /\ (n + i) - 1 = n + (i - 1) /\ n + (i - 1) \in 0..Len(b) /\ (n + 1) + i - 1 = n + i
        /\ i \in 1..(Len(b) - (n + 1) + 1)
    BY <1>1, <1>3, <2>3, <2>4
  <2>6. Beyond(h[n + (i - 1)], k[i - 1], r)
    BY <2>2, <2>5 DEF Bad
  <2>7. h[n + i] = Heard(h[n + (i - 1)], b[n + i]) /\ k[i] = Heard(k[i - 1], c[i])
    BY <1>4, <2>5
  <2>8. c[i] = b[n + i] /\ b[n + i] \in Symbol
    BY <1>2, <2>5, ElementOfSeq
  <2>9. h[n + (i - 1)] \in Hearing /\ k[i - 1] \in Hearing
    BY <1>4, <2>5
  <2>10. Beyond(Heard(h[n + (i - 1)], c[i]), Heard(k[i - 1], c[i]), r)
    BY <1>6, <2>6, <2>8, <2>9, HeardBeyond
  <2> QED BY <2>3, <2>7, <2>8, <2>10
<1> QED BY <1>2, <1>3, <1>7 DEF l, r

\* In its error state the machine hears nothing.
LEMMA HeardNoMore ==
  ASSUME NEW b \in Seq(Symbol), NEW h, Hears(b, h), NEW n \in 0..Len(b), h[n].cs = "error"
  PROVE  h[Len(b)] = h[n]
<1> DEFINE N == Len(b)
           Bad == {i \in n..N : h[i] # h[n]}
<1>1. N \in Nat /\ n \in Nat
  BY LenProperties
<1>2. \A i \in 1..N : h[i] = Heard(h[i - 1], b[i]) /\ h[i - 1] \in Hearing /\ b[i] \in Symbol
  <2>1. \A i \in 1..N : i - 1 \in 0..N
    BY <1>1
  <2> QED BY <2>1, ElementOfSeq DEF Hears
<1> HIDE DEF N
<1>3. Bad = {}
  <2> SUFFICES ASSUME Bad # {} PROVE FALSE
    OBVIOUS
  <2>1. Bad \in SUBSET Nat
    BY <1>1
  <2> HIDE DEF Bad
  <2>2. PICK i \in Bad : \A j \in Bad : i <= j
    BY <2>1, LeastNat
  <2>3. i \in n..N /\ h[i] # h[n]
    BY <2>2 DEF Bad
  <2>4. i # n
    BY <2>3
  <2>5. i \in 1..N /\ i - 1 \in n..N /\ ~(i <= i - 1)
    BY <1>1, <2>3, <2>4
  <2>6. h[i - 1] = h[n]
    BY <2>2, <2>5 DEF Bad
  <2>7. h[i] = h[i - 1]
    <3> DEFINE m == h[i - 1]
               byte == b[i]
    <3>1. h[i] = Heard(m, byte) /\ m \in Hearing /\ byte \in Symbol /\ m.cs = "error"
      BY <1>2, <2>5, <2>6
    <3> HIDE DEF m, byte
    <3>2. Heard(m, byte) = m
      BY <3>1, HeardIs, Zenon
    <3> QED BY <3>1, <3>2 DEF m
  <2> QED BY <2>3, <2>6, <2>7
<1>4. N \in n..N
  BY <1>1 DEF N
<1> QED BY <1>3, <1>4 DEF N

-----------------------------------------------------------------------------
(* Whole requests after one another *)

\* Not cut: the machine is ready for the next frame, or will not hear any more.
Whole(bytes) == CalledFor(bytes).cs \in {"main", "error"}

\* What is heard of bytes has the types of what is heard.
LEMMA CalledTyped == ASSUME NEW b \in Seq(Symbol) PROVE CalledFor(b) \in Hearing
<1>1. PICK h : Hears(b, h) /\ CalledFor(b) = h[Len(b)]
  BY HearsIs
<1>2. Len(b) \in 0..Len(b)
  BY LenProperties
<1> QED BY <1>1, <1>2 DEF Hears

\* No bytes call for nothing.
LEMMA NothingCalled == CalledFor(<<>>) = Fresh /\ Whole(<<>>)
<1> DEFINE e == <<>>
<1>1. e \in Seq(Symbol) /\ Len(e) = 0
  BY ShortSeqs
<1> HIDE DEF e
<1>2. PICK h : Hears(e, h) /\ CalledFor(e) = h[Len(e)]
  BY <1>1, HearsIs
<1>3. CalledFor(e) = Fresh
  BY <1>1, <1>2 DEF Hears
<1> QED BY <1>3 DEF Whole, Fresh, e

\* What bytes call for, and then others.
LEMMA CalledConcat ==
  ASSUME NEW a \in Seq(Symbol), NEW c \in Seq(Symbol)
  PROVE  /\ CalledFor(a).cs = "main" => Beyond(CalledFor(a \o c), CalledFor(c), CalledFor(a).reply)
         /\ CalledFor(a).cs = "error" => CalledFor(a \o c) = CalledFor(a)
<1> DEFINE b == a \o c
           m == Len(a)
           n == Len(c)
<1>1. /\ b \in Seq(Symbol) /\ Len(b) = m + n /\ m \in Nat /\ n \in Nat
      /\ \A i \in 1..(m + n) : b[i] = IF i <= m THEN a[i] ELSE c[i - m]
  BY ConcatProperties, LenProperties
<1> HIDE DEF b
<1>2. PICK h : Hears(b, h) /\ CalledFor(b) = h[Len(b)]
  BY <1>1, HearsIs
<1>3. PICK g : Hears(a, g) /\ CalledFor(a) = g[m]
  BY HearsIs
<1>4. PICK k : Hears(c, k) /\ CalledFor(c) = k[n]
  BY HearsIs
<1>5. m \in 0..Len(a) /\ m <= Len(b) /\ m \in 0..m /\ m \in 0..Len(b) /\ n \in 0..n
  BY <1>1
<1>6. \A i \in 1..m : a[i] = b[i]
  BY <1>1
<1>7. g[m] = h[m]
  <2> HIDE DEF m
  <2>1. \A i \in 0..m : g[i] = h[i]
    BY <1>1, <1>2, <1>3, <1>5, <1>6, HeardAlike
  <2> QED BY <1>5, <2>1
<1>8. c = SubSeq(b, m + 1, Len(b))
  <2> DEFINE d == SubSeq(b, m + 1, Len(b))
  <2>1. m + 1 \in Nat \ {0} /\ Len(b) \in 0..Len(b)
    BY <1>1
  <2>2. /\ d \in Seq(Symbol) /\ Len(d) = (IF m + 1 <= Len(b) THEN Len(b) - (m + 1) + 1 ELSE 0)
        /\ \A i \in 1..(Len(b) - (m + 1) + 1) : d[i] = b[(m + 1) + i - 1]
    BY <1>1, <2>1, PartIsSeq
  <2> HIDE DEF d
  <2>3. Len(d) = n
    BY <1>1, <2>2
  <2>4. ASSUME NEW i \in 1..n PROVE d[i] = c[i]
    <3>1. i \in 1..(Len(b) - (m + 1) + 1) /\ (m + 1) + i - 1 = m + i
      BY <1>1
    <3>2. m + i \in 1..(m + n) /\ ~(m + i <= m) /\ (m + i) - m = i
      BY <1>1
    <3> QED BY <1>1, <2>2, <3>1, <3>2
  <2>5. d = c
    BY <2>2, <2>3, <2>4, SeqEqual DEF n
  <2> QED BY <2>5 DEF d
<1>9. ASSUME CalledFor(a).cs = "main"
      PROVE  Beyond(CalledFor(b), CalledFor(c), CalledFor(a).reply)
  <2>1. h[m].cs = "main"
    BY <1>3, <1>7, <1>9
  <2>2. \A i \in 0..n : Beyond(h[m + i], k[i], h[m].reply)
    BY <1>1, <1>2, <1>4, <1>5, <1>8, <2>1, HeardAfter, Zenon
  <2> QED BY <1>1, <1>2, <1>3, <1>4, <1>5, <1>7, <2>2
<1>10. ASSUME CalledFor(a).cs = "error" PROVE CalledFor(b) = CalledFor(a)
  <2>1. h[m].cs = "error"
    BY <1>3, <1>7, <1>10
  <2>2. h[Len(b)] = h[m]
    BY <1>1, <1>2, <1>5, <2>1, HeardNoMore, Zenon
  <2> QED BY <1>2, <1>3, <1>7, <2>2
<1> QED BY <1>9, <1>10 DEF b

\* What is whole, and whole again, is whole;
LEMMA WholeConcat ==
  ASSUME NEW a \in Seq(Symbol), NEW c \in Seq(Symbol), Whole(a), Whole(c)
  PROVE  Whole(a \o c)
BY CalledConcat DEF Whole, Beyond

\* and so are any number of whole requests after one another.
LEMMA WholeFlatten ==
  ASSUME NEW s \in Seq(Seq(Symbol)), \A i \in 1..Len(s) : Whole(s[i])
  PROVE  Whole(FlattenSeq(s))
<1> DEFINE W == Seq(Symbol)
           n == Len(s)
           P(k) == SubSeq(s, 1, k)
           Bad == {k \in 0..n : ~Whole(FlattenSeq(P(k)))}
<1>1. n \in Nat
  BY LenProperties
<1>2. \A k \in 1..n : P(k - 1) \in Seq(W) /\ s[k] \in W /\ P(k) = Append(P(k - 1), s[k])
  <2>1. \A k \in 1..n : 1 \in 1..k
    BY <1>1
  <2> QED BY <2>1, LongerByOne
<1>3. P(0) = <<>> /\ P(n) = s
  BY <1>1, SubSeqEmpty, SubSeqFull
<1>4. \A k \in 1..n : Whole(s[k])
  OBVIOUS
<1> HIDE DEF n, P
<1>5. Bad = {}
  <2> SUFFICES ASSUME Bad # {} PROVE FALSE
    OBVIOUS
  <2>1. Bad \in SUBSET Nat
    BY <1>1
  <2> HIDE DEF Bad
  <2>2. PICK k \in Bad : \A j \in Bad : k <= j
    BY <2>1, LeastNat
  <2>3. k \in 0..n /\ ~Whole(FlattenSeq(P(k)))
    BY <2>2 DEF Bad
  <2>4. k # 0
    <3>1. FlattenSeq(<<>>) = <<>>
      BY FlattenFew
    <3> QED BY <1>3, <2>3, <3>1, NothingCalled
  <2>5. k \in 1..n /\ k - 1 \in 0..n /\ ~(k <= k - 1)
    BY <1>1, <2>3, <2>4
  <2> DEFINE u == P(k - 1)
             x == s[k]
  <2>6. u \in Seq(W) /\ x \in W /\ P(k) = Append(u, x) /\ Whole(x)
    BY <1>2, <1>4, <2>5
  <2>7. Whole(FlattenSeq(u))
    BY <2>2, <2>5 DEF Bad
  <2> HIDE DEF u, x
  <2>8. FlattenSeq(u) \in W /\ FlattenSeq(Append(u, x)) = FlattenSeq(u) \o x
    BY <2>6, FlattenIsSeq, FlattenAppend
  <2> QED BY <2>3, <2>6, <2>7, <2>8, WholeConcat
<1>6. n \in 0..n
  BY <1>1
<1> QED BY <1>3, <1>5, <1>6

-----------------------------------------------------------------------------
(* The first frame of a read, and what is heard of it *)

\* There is no frame yet; m is what frame.rl's machine is, k what was heard.
Open(bytes, i, m, k) ==
  /\ m.end = 0 /\ m.error = FALSE /\ m.cs \in {"main", "first", "data", "error"}
  /\ k.cs = m.cs /\ k.reply = <<>>
  /\ m.cs = "data" => m.start \in 1..i /\ k.text = SubSeq(bytes, m.start, i)

\* All of it was read but its LRC.
Closed(bytes, i, m, k) ==
  /\ m.end = i /\ m.error = FALSE /\ m.cs = "lrc" /\ m.start \in 1..(i - 1)
  /\ k.cs = "lrc" /\ k.reply = <<>> /\ k.text = SubSeq(bytes, m.start, i - 1)

\* It was read; h has what was heard in every place.
Taken(bytes, i, m, h) ==
  /\ m.end \in 1..(i - 1) /\ m.cs = "final" /\ m.error = (bytes[m.end + 1] # "ok")
  /\ h[m.end + 1].cs = "main"
  /\ h[m.end + 1].reply = IF m.error THEN <<"NAK">> ELSE Call(SubSeq(bytes, m.start, m.end - 1))

InStep(bytes, i, r, h) ==
  \/ Open(bytes, i, r[i], h[i]) \/ Closed(bytes, i, r[i], h[i]) \/ Taken(bytes, i, r[i], h)

\* What one more byte does to an open frame.
LEMMA OpenMoves ==
  ASSUME NEW bytes \in Seq(Symbol), NEW i \in 1..Len(bytes), NEW m, NEW k \in Hearing,
         Open(bytes, i - 1, m, k)
  PROVE  \/ Open(bytes, i, Scanned(bytes, m, i), Heard(k, bytes[i]))
         \/ Closed(bytes, i, Scanned(bytes, m, i), Heard(k, bytes[i]))
<1> DEFINE n == Scanned(bytes, m, i)
           l == Heard(k, bytes[i])
           b == bytes[i]
<1>1. /\ m.end = 0 /\ m.error = FALSE /\ m.cs \in {"main", "first", "data", "error"}
      /\ k.cs = m.cs /\ k.reply = <<>>
      /\ m.cs = "data" => m.start \in 1..(i - 1) /\ k.text = SubSeq(bytes, m.start, i - 1)
  BY DEF Open
<1>2. b \in Symbol /\ i \in Nat \ {0}
  BY ElementOfSeq, LenProperties
<1>3. CASE m.cs = "error"
  <2>1. n = m
    BY <1>3 DEF Scanned
  <2>2. l = k
    BY <1>1, <1>2, <1>3, HeardIs
  <2> HIDE DEF n, l
  <2>3. Open(bytes, i, n, l)
    BY <1>1, <1>3, <2>1, <2>2 DEF Open
  <2> QED BY <2>3 DEF n, l
<1>4. CASE m.cs # "error"
  <2>1. Moves(m, n, b, i)
    BY <1>1, <1>4, ByteIs, Zenon
  <2>2. /\ l.cs = Step(k.cs, b) /\ l.reply = k.reply
        /\ l.text = IF Step(k.cs, b) = "data" THEN Append(k.text, b) ELSE k.text
    <3>1. k.cs \notin {"error", "lrc"}
      BY <1>1, <1>4
    <3> HIDE DEF b
    <3>2. Heard(k, b).cs = Step(k.cs, b) /\ Heard(k, b).reply = k.reply
      BY <1>2, <3>1, HeardIs, Zenon
    <3>3. Heard(k, b).text = IF Step(k.cs, b) = "data" THEN Append(k.text, b) ELSE k.text
      BY <1>2, <3>1, HeardIs, Zenon
    <3> QED BY <3>2, <3>3 DEF b
  <2> HIDE DEF n, l
  <2>3. /\ n.cs = Step(m.cs, b)
        /\ n.start = IF m.cs = "first" /\ n.cs = "data" THEN i ELSE m.start
        /\ n.end = IF n.cs = "lrc" THEN i ELSE m.end
        /\ n.error = (m.cs = "lrc" /\ b # "ok")
    BY <2>1 DEF Moves
  <2>4. n.error = FALSE
    BY <1>1, <2>3
  <2>5. CASE m.cs = "data" /\ b = "etx"
    <3>1. Step("data", b) = "lrc"
      BY <2>5 DEF Step
    <3>2. Closed(bytes, i, n, l)
      BY <1>1, <2>2, <2>3, <2>4, <2>5, <3>1 DEF Closed
    <3> QED BY <3>2 DEF n, l
  <2>6. CASE m.cs = "data" /\ b # "etx"
    <3>1. Step("data", b) = "data"
      BY <2>6 DEF Step
    <3>2. m.start \in 1..i /\ m.start \in 1..(i - 1) /\ i \in 1..Len(bytes)
      BY <1>1, <1>2, <2>6
    <3>3. SubSeq(bytes, m.start, i) = Append(SubSeq(bytes, m.start, i - 1), b)
      BY <3>2, LongerByOne
    <3>4. n.cs = "data" /\ n.start = m.start /\ n.end = 0 /\ l.cs = "data" /\ l.reply = <<>>
      BY <1>1, <2>2, <2>3, <2>6, <3>1
    <3>5. l.text = Append(k.text, b) /\ k.text = SubSeq(bytes, m.start, i - 1)
      BY <1>1, <2>2, <2>6, <3>1
    <3>6. Open(bytes, i, n, l)
      BY <2>4, <3>2, <3>3, <3>4, <3>5 DEF Open
    <3> QED BY <3>6 DEF n, l
  <2>7. CASE m.cs = "first" /\ b # "etx"
    <3>1. Step("first", b) = "data"
      BY <2>7 DEF Step
    <3>2. i \in 1..i /\ i \in 1..Len(bytes)
      BY <1>2
    <3>3. SubSeq(bytes, i, i) = Append(SubSeq(bytes, i, i - 1), b)
      BY <3>2, LongerByOne
    <3>4. SubSeq(bytes, i, i - 1) = <<>> /\ k.text = <<>>
      <4>1. k.text = <<>>
        BY <1>1, <2>7 DEF Hearing
      <4>2. i \in Int /\ i - 1 \in Int /\ i - 1 < i
        BY <1>2
      <4> QED BY <4>1, <4>2, SubSeqEmpty
    <3>5. n.cs = "data" /\ n.start = i /\ n.end = 0 /\ l.cs = "data" /\ l.reply = <<>>
      BY <1>1, <2>2, <2>3, <2>7, <3>1
    <3>6. l.text = Append(k.text, b)
      BY <1>1, <2>2, <2>7, <3>1
    <3>7. Open(bytes, i, n, l)
      BY <2>4, <3>2, <3>3, <3>4, <3>5, <3>6 DEF Open
    <3> QED BY <3>7 DEF n, l
  <2>8. CASE m.cs = "main" \/ (m.cs = "first" /\ b = "etx")
    <3>1. Step(m.cs, b) \in {"main", "first", "error"}
      BY <2>8 DEF Step
    <3>2. n.cs \in {"main", "first", "error"} /\ n.end = 0 /\ l.cs = n.cs /\ l.reply = <<>>
      BY <1>1, <2>2, <2>3, <3>1
    <3>3. Open(bytes, i, n, l)
      BY <2>4, <3>2 DEF Open
    <3> QED BY <3>3 DEF n, l
  <2>9. \/ m.cs = "data" /\ b = "etx"
        \/ m.cs = "data" /\ b # "etx"
        \/ m.cs = "first" /\ b # "etx"
        \/ m.cs = "main" \/ (m.cs = "first" /\ b = "etx")
    BY <1>1, <1>4
  <2> QED BY <2>5, <2>6, <2>7, <2>8, <2>9, Zenon
<1> QED BY <1>3, <1>4

\* The LRC, good or bad, and whatever follows.
LEMMA ClosedMoves ==
  ASSUME NEW bytes \in Seq(Symbol), NEW i \in 1..Len(bytes), NEW m, NEW h, Hears(bytes, h),
         \/ Closed(bytes, i - 1, m, h[i - 1])
         \/ Taken(bytes, i - 1, m, h)
  PROVE  Taken(bytes, i, Scanned(bytes, m, i), h)
<1> DEFINE n == Scanned(bytes, m, i)
           b == bytes[i]
           k == h[i - 1]
<1>1. b \in Symbol /\ i \in Nat \ {0} /\ i - 1 \in 0..Len(bytes)
  BY ElementOfSeq, LenProperties
<1>2. k \in Hearing /\ h[i] = Heard(k, b)
  BY <1>1 DEF Hears
<1>3. CASE Closed(bytes, i - 1, m, k)
  <2>1. /\ m.end = i - 1 /\ m.error = FALSE /\ m.cs = "lrc" /\ m.start \in 1..((i - 1) - 1)
        /\ k.cs = "lrc" /\ k.reply = <<>> /\ k.text = SubSeq(bytes, m.start, (i - 1) - 1)
    BY <1>3 DEF Closed
  <2>2. Moves(m, n, b, i)
    <3>1. m.cs # "error"
      BY <2>1
    <3> QED BY <2>1, <3>1, ByteIs, Zenon
  <2>3. /\ h[i].cs = "main"
        /\ h[i].reply = k.reply \o (IF b = "ok" THEN Call(k.text) ELSE <<"NAK">>)
    <3> HIDE DEF b, k
    <3>1. Heard(k, b).cs = "main"
      BY <1>1, <1>2, <2>1, HeardIs, Zenon
    <3>2. Heard(k, b).reply = k.reply \o (IF b = "ok" THEN Call(k.text) ELSE <<"NAK">>)
      BY <1>1, <1>2, <2>1, HeardIs, Zenon
    <3> QED BY <1>2, <3>1, <3>2, Zenon
  <2> HIDE DEF n, k
  <2>4. Step("lrc", b) = "final"
    BY DEF Step
  <2>5. n.cs = "final" /\ n.start = m.start /\ n.end = i - 1 /\ n.error = (b # "ok")
    BY <2>1, <2>2, <2>4 DEF Moves
  <2>6. n.end \in 1..(i - 1) /\ n.end + 1 = i
    <3>1. i - 1 \in 1..(i - 1) /\ (i - 1) + 1 = i
      BY <1>1, <2>1
    <3> QED BY <2>5, <3>1, Zenon
  <2>7. h[i].reply = IF b = "ok" THEN Call(k.text) ELSE <<"NAK">>
    <3> DEFINE said == IF b = "ok" THEN Call(k.text) ELSE <<"NAK">>
    <3>1. said \in Seq(Symbol)
      BY CallIsSeq, SymbolsAre, ShortSeqs
    <3>2. h[i].reply = <<>> \o said
      BY <2>1, <2>3
    <3> HIDE DEF said
    <3>3. h[i].reply = said
      BY <3>1, <3>2, ConcatEmptySeq
    <3> QED BY <3>3 DEF said
  <2>8. k.text = SubSeq(bytes, n.start, n.end - 1)
    BY <2>1, <2>5
  <2>9. h[i].reply = IF n.error THEN <<"NAK">> ELSE Call(SubSeq(bytes, n.start, n.end - 1))
    <3>1. CASE b = "ok"
      BY <2>5, <2>7, <2>8, <3>1
    <3>2. CASE b # "ok"
      BY <2>5, <2>7, <3>2
    <3> QED BY <3>1, <3>2
  <2>10. Taken(bytes, i, n, h)
    BY <2>3, <2>5, <2>6, <2>9 DEF Taken
  <2> QED BY <2>10 DEF n
<1>4. CASE Taken(bytes, i - 1, m, h)
  <2>1. m.end \in 1..((i - 1) - 1) /\ m.cs = "final" /\ m.error = (bytes[m.end + 1] # "ok")
    BY <1>4 DEF Taken
  <2>2. m.end \in 1..(i - 1)
    BY <1>1, <2>1
  <2>3. CASE m.error
    <3>1. n = m
      BY <2>3 DEF Scanned
    <3> HIDE DEF n
    <3>2. Taken(bytes, i, n, h)
      BY <1>4, <2>2, <3>1 DEF Taken
    <3> QED BY <3>2 DEF n
  <2>4. CASE ~m.error
    <3>1. m.error = FALSE
      BY <2>1, <2>4
    <3>2. m.cs # "error"
      BY <2>1
    <3>3. Moves(m, n, b, i)
      BY <3>1, <3>2, ByteIs, Zenon
    <3> HIDE DEF n, b
    <3>4. Step("final", b) = "final"
      BY DEF Step
    <3>5. n.cs = "final" /\ n.start = m.start /\ n.end = m.end /\ n.error = FALSE
      BY <2>1, <3>3, <3>4 DEF Moves
    <3>6. Taken(bytes, i, n, h)
      BY <1>4, <2>2, <3>1, <3>5 DEF Taken
    <3> QED BY <3>6 DEF n
  <2> QED BY <2>3, <2>4
<1> QED BY <1>3, <1>4

\* Both machines go byte by byte.
LEMMA GoInStep ==
  ASSUME NEW bytes \in Seq(Symbol), NEW r, Run("main", bytes, r), NEW h, Hears(bytes, h)
  PROVE  \A i \in 0..Len(bytes) : InStep(bytes, i, r, h)
<1> DEFINE n == Len(bytes)
           Bad == {i \in 0..n : ~InStep(bytes, i, r, h)}
<1>1. n \in Nat
  BY LenProperties
<1>2. /\ r[0].cs = "main" /\ r[0].end = 0 /\ r[0].error = FALSE
      /\ \A i \in 1..n : r[i] = Scanned(bytes, r[i - 1], i)
  BY RunGoes, Zenon
<1>3. /\ h[0] = Fresh
      /\ \A i \in 0..n : h[i] \in Hearing
      /\ \A i \in 1..n : h[i] = Heard(h[i - 1], bytes[i])
  BY DEF Hears
<1> HIDE DEF n
<1>4. Bad = {}
  <2> SUFFICES ASSUME Bad # {} PROVE FALSE
    OBVIOUS
  <2>1. Bad \in SUBSET Nat
    BY <1>1
  <2> HIDE DEF Bad
  <2>2. PICK i \in Bad : \A j \in Bad : i <= j
    BY <2>1, LeastNat
  <2>3. i \in 0..n /\ ~InStep(bytes, i, r, h)
    BY <2>2 DEF Bad
  <2>4. i # 0
    <3>1. h[0].cs = "main" /\ h[0].reply = <<>>
      BY <1>3 DEF Fresh
    <3>2. Open(bytes, 0, r[0], h[0])
      BY <1>2, <3>1 DEF Open
    <3> QED BY <2>3, <3>2 DEF InStep
  <2>5. i \in 1..n /\ i - 1 \in 0..n /\ ~(i <= i - 1)
    BY <1>1, <2>3, <2>4
  <2>6. InStep(bytes, i - 1, r, h)
    BY <2>2, <2>5 DEF Bad
  <2>7. r[i] = Scanned(bytes, r[i - 1], i) /\ h[i] = Heard(h[i - 1], bytes[i]) /\ h[i - 1] \in Hearing
    BY <1>2, <1>3, <2>5
  <2>8. CASE Open(bytes, i - 1, r[i - 1], h[i - 1])
    <3>1. i \in 1..Len(bytes)
      BY <2>5 DEF n
    <3>2. Open(bytes, i, r[i], h[i]) \/ Closed(bytes, i, r[i], h[i])
      BY <2>7, <2>8, <3>1, OpenMoves
    <3> QED BY <2>3, <3>2 DEF InStep
  <2>9. CASE Closed(bytes, i - 1, r[i - 1], h[i - 1]) \/ Taken(bytes, i - 1, r[i - 1], h)
    <3>1. i \in 1..Len(bytes)
      BY <2>5 DEF n
    <3>2. Taken(bytes, i, r[i], h)
      BY <2>7, <2>9, <3>1, ClosedMoves
    <3> QED BY <2>3, <3>2 DEF InStep
  <2> QED BY <2>6, <2>8, <2>9 DEF InStep
<1> QED BY <1>4 DEF n

\* What the first frame calls for.
Told(bytes, f) == IF f.e = "found" THEN Call(Inside(bytes, f)) ELSE <<"NAK">>

\* Of whole requests frob_frame_process finds what they call for first, or there is nothing.
LEMMA FirstCalled ==
  ASSUME NEW b \in Seq(Symbol), Whole(b), NEW f, f = frob_frame_process("main", b)
  PROVE  /\ f.e = "EAGAIN" => CalledFor(b).cs = f.cs /\ CalledFor(b).reply = <<>>
         /\ f.e # "EAGAIN" => /\ Behind(b, f) \in Seq(Symbol)
                              /\ Beyond(CalledFor(b), CalledFor(Behind(b, f)), Told(b, f))
<1> DEFINE n == Len(b)
           m == Exec("main", b)
<1>1. n \in Nat /\ "main" \in States
  BY LenProperties DEF States
<1>2. PICK r : Run("main", b, r) /\ m = r[n]
  BY <1>1, RunIs
<1>3. PICK h : Hears(b, h) /\ CalledFor(b) = h[n]
  BY HearsIs
<1>4. InStep(b, n, r, h)
  <2>1. n \in 0..n
    BY <1>1
  <2> QED BY <1>2, <1>3, <2>1, GoInStep
<1>5. /\ f.e = (CASE m.end = 0 -> "EAGAIN"
                  [] m.end # 0 /\ m.error -> "EBADMSG"
                  [] m.end # 0 /\ ~m.error /\ m.cs = "final" -> "found"
                  [] OTHER -> "EAGAIN")
      /\ f.cs = m.cs /\ f.start = m.start /\ f.end = m.end
  BY DEF frob_frame_process
<1> HIDE DEF m
<1>6. CASE Open(b, n, r[n], h[n])
  <2>1. m.end = 0 /\ h[n].cs = m.cs /\ h[n].reply = <<>>
    BY <1>2, <1>6 DEF Open
  <2>2. f.e = "EAGAIN"
    BY <1>5, <2>1
  <2> QED BY <1>3, <1>5, <2>1, <2>2
<1>7. CASE Closed(b, n, r[n], h[n])
  <2>1. h[n].cs = "lrc"
    BY <1>7 DEF Closed
  <2> QED BY <1>3, <2>1 DEF Whole
<1>8. CASE Taken(b, n, r[n], h)
  <2> DEFINE e == m.end + 1
             c == Behind(b, f)
  <2>1. /\ m.end \in 1..(n - 1) /\ m.cs = "final" /\ m.error = (b[e] # "ok")
        /\ h[e].cs = "main"
        /\ h[e].reply = IF m.error THEN <<"NAK">> ELSE Call(SubSeq(b, m.start, m.end - 1))
    BY <1>2, <1>8 DEF Taken
  <2>2. m.error \in BOOLEAN /\ m.end # 0
    BY <2>1
  <2>3. f.e = IF m.error THEN "EBADMSG" ELSE "found"
    BY <1>5, <2>1, <2>2
  <2>4. h[e].reply = Told(b, f)
    <3>1. Inside(b, f) = SubSeq(b, m.start, m.end - 1)
      BY <1>5 DEF Inside
    <3>2. CASE m.error
      BY <2>1, <2>3, <3>2 DEF Told
    <3>3. CASE ~m.error
      BY <2>1, <2>3, <3>1, <3>3 DEF Told
    <3> QED BY <3>2, <3>3
  <2>5. e \in 0..Len(b) /\ m.end + 2 = e + 1
    BY <1>1, <2>1
  <2>6. c = SubSeq(b, e + 1, Len(b))
    BY <1>5, <2>5 DEF Behind
  <2> HIDE DEF c, e
  <2>7. c \in Seq(Symbol) /\ Len(c) = Len(b) - e
    <3>1. e + 1 \in Nat \ {0} /\ Len(b) \in 0..Len(b)
      BY <1>1, <2>5
    <3>2. /\ SubSeq(b, e + 1, Len(b)) \in Seq(Symbol)
          /\ Len(SubSeq(b, e + 1, Len(b))) = IF e + 1 <= Len(b) THEN Len(b) - (e + 1) + 1 ELSE 0
      BY <3>1, PartIsSeq
    <3> QED BY <1>1, <2>5, <2>6, <3>2
  <2>8. PICK k : Hears(c, k) /\ CalledFor(c) = k[Len(c)]
    BY <2>7, HearsIs
  <2>9. \A i \in 0..Len(c) : Beyond(h[e + i], k[i], h[e].reply)
    BY <1>3, <2>1, <2>5, <2>6, <2>8, HeardAfter, Zenon
  <2>10. Len(c) \in 0..Len(c) /\ e + Len(c) = n
    BY <1>1, <2>5, <2>7
  <2>11. Beyond(h[e + Len(c)], k[Len(c)], h[e].reply)
    BY <2>9, <2>10, Zenon
  <2>12. Beyond(CalledFor(b), CalledFor(c), Told(b, f))
    BY <1>3, <2>4, <2>8, <2>10, <2>11
  <2>13. f.e # "EAGAIN"
    BY <2>3
  <2> QED BY <2>7, <2>12, <2>13 DEF c
<1> QED BY <1>4, <1>6, <1>7, <1>8 DEF InStep

\* Also when more is on its way.
LEMMA FirstOfMore ==
  ASSUME NEW b \in Seq(Symbol), NEW t \in Seq(Symbol), Whole(b),
         NEW f, f = frob_frame_process("main", b)
  PROVE  /\ f.e = "EAGAIN" /\ f.cs # "error" =>
              f.cs = "main" /\ Beyond(CalledFor(b \o t), CalledFor(t), <<>>)
         /\ f.e # "EAGAIN" =>
              /\ Behind(b, f) \in Seq(Symbol) /\ Whole(Behind(b, f))
              /\ Beyond(CalledFor(b \o t), CalledFor(Behind(b, f) \o t), Told(b, f))
<1> DEFINE c == Behind(b, f)
           R == Told(b, f)
<1>1. ASSUME f.e = "EAGAIN", f.cs # "error"
      PROVE  f.cs = "main" /\ Beyond(CalledFor(b \o t), CalledFor(t), <<>>)
  <2>1. CalledFor(b).cs = f.cs /\ CalledFor(b).reply = <<>>
    BY <1>1, FirstCalled
  <2>2. f.cs = "main"
    BY <1>1, <2>1 DEF Whole
  <2> QED BY <2>1, <2>2, CalledConcat
<1>2. ASSUME f.e # "EAGAIN"
      PROVE  c \in Seq(Symbol) /\ Whole(c) /\ Beyond(CalledFor(b \o t), CalledFor(c \o t), R)
  <2>1. c \in Seq(Symbol) /\ Beyond(CalledFor(b), CalledFor(c), R)
    BY <1>2, FirstCalled
  <2>2. R \in Seq(Symbol)
    BY CallIsSeq, SymbolsAre, ShortSeqs DEF Told
  <2> HIDE DEF c, R
  <2>3. Whole(c) /\ CalledFor(b).cs = CalledFor(c).cs
    BY <2>1 DEF Whole, Beyond
  <2>4. CASE CalledFor(c).cs = "main"
    <3>1. /\ Beyond(CalledFor(b \o t), CalledFor(t), CalledFor(b).reply)
          /\ Beyond(CalledFor(c \o t), CalledFor(t), CalledFor(c).reply)
      BY <2>1, <2>3, <2>4, CalledConcat
    <3> DEFINE x == CalledFor(c).reply
               y == CalledFor(t).reply
    <3>2. x \in Seq(Symbol) /\ y \in Seq(Symbol)
      BY <2>1, CalledTyped DEF Hearing
    <3>3. CalledFor(b).reply = R \o x
      BY <2>1 DEF Beyond
    <3>4. CalledFor(b \o t).reply = (R \o x) \o y /\ CalledFor(c \o t).reply = x \o y
      BY <3>1, <3>3 DEF Beyond
    <3>5. CalledFor(b \o t).cs = CalledFor(c \o t).cs /\ CalledFor(b \o t).text = CalledFor(c \o t).text
      BY <3>1 DEF Beyond
    <3> HIDE DEF x, y
    <3>6. (R \o x) \o y = R \o (x \o y)
      BY <2>2, <3>2, ConcatAssociative, SMTT(30)
    <3> QED BY <2>1, <2>3, <3>4, <3>5, <3>6 DEF Beyond
  <2>5. CASE CalledFor(c).cs = "error"
    <3>1. CalledFor(b \o t) = CalledFor(b) /\ CalledFor(c \o t) = CalledFor(c)
      BY <2>1, <2>3, <2>5, CalledConcat
    <3> QED BY <2>1, <2>3, <3>1
  <2> QED BY <2>3, <2>4, <2>5 DEF Whole
<1> QED BY <1>1, <1>2

-----------------------------------------------------------------------------
(* What is due and what was said *)

\* Payments among what was said.
Owed(s) == Len(Keep(s, Payments))

(***************************************************************************)
(* d and u are due for what stands in an output, in the payment channel,   *)
(* and for what is called for by the bytes that m has heard; and, once the *)
(* machine will be in its error state, for more that is never read.        *)
(***************************************************************************)
Balance(out, np, m, d, u) ==
  \E rest \in Seq(Said), n \in Nat :
    /\ d = Keep(out \o m.reply, Said) \o rest
    /\ u = Owed(out \o m.reply) + Owed(np) + n
    /\ m.cs = "main" => rest = <<>> /\ n = 0

\* What is kept of two sequences.
LEMMA KeptOfBoth ==
  ASSUME NEW s \in Seq(Symbol), NEW t \in Seq(Symbol)
  PROVE  /\ Keep(s, Said) \in Seq(Said) /\ Owed(s) \in Nat
         /\ Keep(s \o t, Said) = Keep(s, Said) \o Keep(t, Said)
         /\ Owed(s \o t) = Owed(s) + Owed(t)
<1> DEFINE a == Keep(s, Payments)
           b == Keep(t, Payments)
<1>1. Keep(s, Said) \in Seq(Said) /\ a \in Seq(Payments) /\ b \in Seq(Payments) /\ Len(a) \in Nat
  BY KeptIsSeq
<1>2. Keep(s \o t, Said) = Keep(s, Said) \o Keep(t, Said) /\ Keep(s \o t, Payments) = a \o b
  BY KeepConcat
<1> HIDE DEF a, b
<1>3. Len(a \o b) = Len(a) + Len(b)
  BY <1>1, ConcatProperties
<1> QED BY <1>1, <1>2, <1>3 DEF Owed, a, b

\* A sequence is the beginning of what it begins.
LEMMA PrefixOf ==
  ASSUME NEW S, NEW s \in Seq(S), NEW t \in Seq(S), NEW d, d = s \o t
  PROVE  IsPrefix(s, d) /\ SubSeq(d, Len(s) + 1, Len(d)) = t
<1> DEFINE l == Len(s)
           a == SubSeq(d, 1, l)
           b == SubSeq(d, l + 1, Len(d))
<1>1. /\ d \in Seq(S) /\ Len(d) = Len(s) + Len(t) /\ Len(s) \in Nat /\ Len(t) \in Nat
      /\ \A i \in 1..(Len(s) + Len(t)) : d[i] = IF i <= Len(s) THEN s[i] ELSE t[i - Len(s)]
  BY ConcatProperties, LenProperties
<1>2. Len(s) \in 0..Len(d) /\ 1 \in Nat \ {0} /\ Len(s) \in 0..Len(s)
  BY <1>1
<1>3. a \in Seq(S) /\ b \in Seq(S) /\ a \o b = d /\ Len(a) = l
  <2>1. d \in Seq(S) /\ l \in 0..Len(d)
    BY <1>1, <1>2
  <2> HIDE DEF l
  <2> QED BY <2>1, CutInTwo
<1>4. /\ \A i \in 1..(l - 1 + 1) : a[i] = d[1 + i - 1]
      /\ SubSeq(s, 1, l) \in Seq(S) /\ Len(SubSeq(s, 1, l)) = IF 1 <= l THEN l - 1 + 1 ELSE 0
      /\ \A i \in 1..(l - 1 + 1) : SubSeq(s, 1, l)[i] = s[1 + i - 1]
  BY <1>1, <1>2, PartIsSeq
<1>5. \A i \in 1..l : a[i] = s[i] /\ SubSeq(s, 1, l)[i] = s[i]
  BY <1>1, <1>4
<1>6. Len(SubSeq(s, 1, l)) = l
  BY <1>1, <1>4
<1>7. a = s
  <2> HIDE DEF a
  <2> QED BY <1>3, <1>5, SeqEqual
<1>8. SubSeq(s, 1, l) = s
  BY <1>4, <1>5, <1>6, SeqEqual
<1>9. b = t
  <2> HIDE DEF a, b
  <2>1. s \o b = s \o t
    BY <1>3, <1>7
  <2> QED BY <1>3, <2>1, ConcatSimplifications
<1>10. Len(s) <= Len(d)
  BY <1>1
<1> QED BY <1>7, <1>8, <1>9, <1>10 DEF IsPrefix

\* Of three after one another it does not matter which two come together first.
LEMMA SaidInAnyOrder ==
  ASSUME NEW a \in Seq(Said), NEW b \in Seq(Said), NEW c \in Seq(Said)
  PROVE  (a \o b) \o c = a \o (b \o c)
BY ConcatAssociative

\* Something is said that was called for.
LEMMA BalanceMoves ==
  ASSUME NEW out \in Seq(Symbol), NEW np \in Seq(Symbol), NEW add \in Seq(Symbol),
         NEW pay \in Seq(Symbol), NEW r \in Seq(Symbol), NEW m \in Hearing, NEW k \in Hearing,
         NEW d, NEW u, Balance(out, np, m, d, u), Beyond(m, k, r),
         Keep(add, Said) = Keep(r, Said), Owed(add) + Owed(pay) = Owed(r)
  PROVE  Balance(out \o add, np \o pay, k, d, u)
<1>1. PICK rest \in Seq(Said), n \in Nat :
        /\ d = Keep(out \o m.reply, Said) \o rest
        /\ u = Owed(out \o m.reply) + Owed(np) + n
        /\ m.cs = "main" => rest = <<>> /\ n = 0
  BY DEF Balance
<1> DEFINE x == k.reply
           A == Keep(out, Said)
           B == Keep(add, Said)
           X == Keep(x, Said)
<1>2. x \in Seq(Symbol) /\ m.reply = r \o x /\ m.cs = k.cs
  BY DEF Hearing, Beyond
<1> HIDE DEF x
<1>3. r \o x \in Seq(Symbol) /\ out \o add \in Seq(Symbol)
  BY <1>2, ConcatProperties
<1>4. /\ Keep(out \o (r \o x), Said) = A \o Keep(r \o x, Said)
      /\ Owed(out \o (r \o x)) = Owed(out) + Owed(r \o x)
  BY <1>3, KeptOfBoth
<1>5. /\ Keep(r \o x, Said) = B \o X /\ Owed(r \o x) = Owed(r) + Owed(x)
      /\ Owed(r) \in Nat
  BY <1>2, KeptOfBoth
<1>6. /\ Keep((out \o add) \o x, Said) = Keep(out \o add, Said) \o X
      /\ Owed((out \o add) \o x) = Owed(out \o add) + Owed(x)
  BY <1>2, <1>3, KeptOfBoth
<1>7. Keep(out \o add, Said) = A \o B /\ Owed(out \o add) = Owed(out) + Owed(add)
  BY KeptOfBoth
<1>8. Owed(np \o pay) = Owed(np) + Owed(pay) /\ Owed(np) \in Nat /\ Owed(pay) \in Nat
  BY KeptOfBoth
<1>9. A \in Seq(Said) /\ B \in Seq(Said) /\ Owed(out) \in Nat /\ Owed(add) \in Nat
  BY KeptOfBoth
<1>10. X \in Seq(Said) /\ Owed(x) \in Nat
  BY <1>2, KeptOfBoth
<1> HIDE DEF A, B, X
<1>11. (A \o B) \o X = A \o (B \o X)
  <2>1. A \in Seq(Said) /\ B \in Seq(Said) /\ X \in Seq(Said)
    BY <1>9, <1>10
  <2> QED BY <2>1, SaidInAnyOrder
<1>12. d = Keep((out \o add) \o x, Said) \o rest
  BY <1>1, <1>2, <1>4, <1>5, <1>6, <1>7, <1>11
<1>13. Owed(out \o m.reply) + Owed(np) + n = Owed((out \o add) \o x) + Owed(np \o pay) + n
  <2> DEFINE o == Owed(out)
             q == Owed(r)
             y == Owed(x)
             e == Owed(add)
             p == Owed(np)
             z == Owed(pay)
  <2>1. o \in Nat /\ q \in Nat /\ y \in Nat /\ e \in Nat /\ p \in Nat /\ z \in Nat /\ e + z = q
    BY <1>5, <1>8, <1>9, <1>10
  <2>2. (Owed(out) + (Owed(r) + Owed(x))) + Owed(np) + n
          = ((Owed(out) + Owed(add)) + Owed(x)) + (Owed(np) + Owed(pay)) + n
    <3> HIDE DEF o, q, y, e, p, z
    <3>1. (o + (q + y)) + p + n = ((o + e) + y) + (p + z) + n
      BY <2>1
    <3> QED BY <3>1 DEF o, q, y, e, p, z
  <2>3. Owed(out \o m.reply) = Owed(out) + (Owed(r) + Owed(x))
    BY <1>2, <1>4, <1>5
  <2>4. Owed((out \o add) \o x) = (Owed(out) + Owed(add)) + Owed(x)
    BY <1>6, <1>7
  <2> QED BY <1>8, <2>2, <2>3, <2>4, Zenon
<1>14. /\ u = Owed((out \o add) \o x) + Owed(np \o pay) + n
       /\ k.cs = "main" => rest = <<>> /\ n = 0
  BY <1>1, <1>2, <1>13
<1> QED BY <1>12, <1>14 DEF Balance, x

\* All that stands in MAIN's output is said.
LEMMA BalanceWritten ==
  ASSUME NEW out \in Seq(Symbol), NEW np \in Seq(Symbol), NEW m \in Hearing,
         NEW d, NEW u, Balance(out, np, m, d, u)
  PROVE  LET got == Keep(out, Said)
         IN  /\ IsPrefix(got, d) /\ ~(Owed(out) > u)
             /\ Balance(<<>>, np, m, SubSeq(d, Len(got) + 1, Len(d)), u - Owed(out))
<1>1. PICK rest \in Seq(Said), n \in Nat :
        /\ d = Keep(out \o m.reply, Said) \o rest
        /\ u = Owed(out \o m.reply) + Owed(np) + n
        /\ m.cs = "main" => rest = <<>> /\ n = 0
  BY DEF Balance
<1> DEFINE x == m.reply
           A == Keep(out, Said)
           X == Keep(x, Said)
           e == <<>>
<1>2. x \in Seq(Symbol)
  BY DEF Hearing
<1> HIDE DEF x
<1>3. e \o x = x
  BY <1>2, ConcatEmptySeq
<1>4. /\ A \in Seq(Said) /\ X \in Seq(Said) /\ Keep(out \o x, Said) = A \o X
      /\ Owed(out \o x) = Owed(out) + Owed(x)
      /\ Owed(out) \in Nat /\ Owed(x) \in Nat /\ Owed(np) \in Nat
  BY <1>2, KeptOfBoth
<1> HIDE DEF A, e
<1>5. (A \o X) \o rest = A \o (X \o rest) /\ X \o rest \in Seq(Said)
  <2>1. A \in Seq(Said) /\ X \in Seq(Said) /\ rest \in Seq(Said)
    BY <1>4
  <2> HIDE DEF X
  <2>2. (A \o X) \o rest = A \o (X \o rest)
    BY <2>1, ConcatAssociative, SMTT(30)
  <2>3. X \o rest \in Seq(Said)
    BY <2>1, ConcatProperties
  <2> QED BY <2>2, <2>3
<1>6. d = A \o (X \o rest)
  BY <1>1, <1>4, <1>5 DEF x
<1>7. IsPrefix(A, d) /\ SubSeq(d, Len(A) + 1, Len(d)) = X \o rest
  <2> HIDE DEF X
  <2> QED BY <1>4, <1>5, <1>6, PrefixOf, ZenonT(30)
<1>8. u = (Owed(out) + Owed(x)) + Owed(np) + n
  BY <1>1, <1>4 DEF x
<1>9. ~(Owed(out) > u) /\ u - Owed(out) = Owed(x) + Owed(np) + n
  <2>1. \A o, y, p, z, w \in Nat : w = (o + y) + p + z => ~(o > w) /\ w - o = y + p + z
    OBVIOUS
  <2>2. u \in Nat
    BY <1>4, <1>8
  <2> QED BY <1>4, <1>8, <2>1, <2>2
<1>10. Balance(e, np, m, X \o rest, u - Owed(out))
  BY <1>1, <1>3, <1>9 DEF Balance, x
<1> QED BY <1>7, <1>9, <1>10 DEF A, e

\* All that stands in the payment channel is handed over.
LEMMA BalancePaid ==
  ASSUME NEW out \in Seq(Symbol), NEW np \in Seq(Symbol), NEW m \in Hearing,
         NEW d, NEW u, Balance(out, np, m, d, u)
  PROVE  ~(Owed(np) > u) /\ Balance(out, <<>>, m, d, u - Owed(np))
<1>1. PICK rest \in Seq(Said), n \in Nat :
        /\ d = Keep(out \o m.reply, Said) \o rest
        /\ u = Owed(out \o m.reply) + Owed(np) + n
        /\ m.cs = "main" => rest = <<>> /\ n = 0
  BY DEF Balance
<1> DEFINE a == Owed(out \o m.reply)
           e == <<>>
<1>2. m.reply \in Seq(Symbol)
  BY DEF Hearing
<1>3. out \o m.reply \in Seq(Symbol)
  BY <1>2, ConcatProperties
<1>4. a \in Nat /\ Owed(np) \in Nat
  BY <1>3, KeptOfBoth
<1>5. Owed(e) = 0
  BY KeepFew DEF Owed
<1>6. ~(Owed(np) > u) /\ u - Owed(np) = a + Owed(e) + n
  <2>1. \A o, p, z, w \in Nat : w = o + p + z => ~(p > w) /\ w - p = o + 0 + z
    OBVIOUS
  <2>2. u \in Nat
    BY <1>1, <1>4
  <2> HIDE DEF a, e
  <2>3. u = a + Owed(np) + n
    BY <1>1 DEF a
  <2> QED BY <1>4, <1>5, <2>1, <2>2, <2>3
<1>7. Balance(out, e, m, d, u - Owed(np))
  BY <1>1, <1>6 DEF Balance, a
<1> QED BY <1>6, <1>7 DEF e

\* More is called for, by bytes that stand behind all the others.
LEMMA BalanceGrows ==
  ASSUME NEW out \in Seq(Symbol), NEW np \in Seq(Symbol), NEW m \in Hearing, NEW e \in Hearing,
         NEW k \in Hearing, m.cs \in {"main", "error"},
         m.cs = "main" => Beyond(k, e, m.reply), m.cs = "error" => k = m,
         NEW d, NEW u, Balance(out, np, m, d, u)
  PROVE  Balance(out, np, k, d \o Keep(e.reply, Said), u + Owed(e.reply))
<1>1. PICK rest \in Seq(Said), n \in Nat :
        /\ d = Keep(out \o m.reply, Said) \o rest
        /\ u = Owed(out \o m.reply) + Owed(np) + n
        /\ m.cs = "main" => rest = <<>> /\ n = 0
  BY DEF Balance
<1> DEFINE x == out \o m.reply
           y == e.reply
           X == Keep(x, Said)
           Y == Keep(y, Said)
<1>2. m.reply \in Seq(Symbol) /\ y \in Seq(Symbol)
  BY DEF Hearing
<1>3. x \in Seq(Symbol)
  BY <1>2, ConcatProperties
<1> HIDE DEF x, y
<1>4. /\ X \in Seq(Said) /\ Y \in Seq(Said) /\ Keep(x \o y, Said) = X \o Y
      /\ Owed(x \o y) = Owed(x) + Owed(y)
      /\ Owed(x) \in Nat /\ Owed(y) \in Nat /\ Owed(np) \in Nat
  BY <1>2, <1>3, KeptOfBoth
<1>5. d = X \o rest /\ u = Owed(x) + Owed(np) + n
  BY <1>1 DEF x
<1> HIDE DEF X, Y
<1>6. CASE m.cs = "main"
  <2>1. rest = <<>> /\ n = 0
    BY <1>1, <1>6
  <2>2. d = X
    BY <1>4, <1>5, <2>1, ConcatEmptySeq
  <2>3. k.reply = m.reply \o y
    BY <1>6 DEF Beyond, y
  <2> DEFINE r == m.reply
  <2>4. out \o k.reply = x \o y
    <3>1. r \in Seq(Symbol) /\ y \in Seq(Symbol)
      BY <1>2
    <3>2. k.reply = r \o y /\ x = out \o r
      BY <2>3 DEF x
    <3> HIDE DEF r
    <3>3. (out \o r) \o y = out \o (r \o y)
      BY <3>1, ConcatAssociative, SMTT(30)
    <3> QED BY <3>2, <3>3
  <2> DEFINE z == <<>>
  <2>5. z \in Seq(Said) /\ (X \o Y) \o z = X \o Y
    <3>1. X \o Y \in Seq(Said)
      BY <1>4, ConcatProperties
    <3> QED BY <3>1, ShortSeqs, ConcatEmptySeq
  <2>6. u + Owed(y) = Owed(x \o y) + Owed(np) + 0
    <3>1. \A o, p, q \in Nat : (o + p + 0) + q = (o + q) + p + 0
      OBVIOUS
    <3> QED BY <1>4, <1>5, <2>1, <3>1
  <2> HIDE DEF z
  <2>7. /\ d \o Y = Keep(out \o k.reply, Said) \o z
        /\ u + Owed(y) = Owed(out \o k.reply) + Owed(np) + 0
    BY <1>4, <2>2, <2>4, <2>5, <2>6
  <2>8. Balance(out, np, k, d \o Y, u + Owed(y))
    BY <2>5, <2>7 DEF Balance, z
  <2> QED BY <2>8 DEF y, Y
<1>7. CASE m.cs = "error"
  <2>1. k = m
    BY <1>7
  <2>2. (X \o rest) \o Y = X \o (rest \o Y) /\ rest \o Y \in Seq(Said)
    <3>1. X \in Seq(Said) /\ rest \in Seq(Said) /\ Y \in Seq(Said)
      BY <1>4
    <3>2. (X \o rest) \o Y = X \o (rest \o Y)
      BY <3>1, ConcatAssociative
    <3>3. rest \o Y \in Seq(Said)
      BY <3>1, ConcatProperties
    <3> QED BY <3>2, <3>3
  <2>3. u + Owed(y) = Owed(x) + Owed(np) + (n + Owed(y)) /\ n + Owed(y) \in Nat
    <3> DEFINE o == Owed(x)
               p == Owed(np)
               q == Owed(y)
    <3>1. o \in Nat /\ p \in Nat /\ q \in Nat /\ u = o + p + n
      BY <1>4, <1>5
    <3> HIDE DEF o, p, q
    <3>2. u + q = o + p + (n + q) /\ n + q \in Nat
      BY <3>1
    <3> QED BY <3>2 DEF o, p, q
  <2>4. d \o Y = Keep(out \o k.reply, Said) \o (rest \o Y)
    BY <1>5, <2>1, <2>2 DEF x, X
  <2>5. Balance(out, np, k, d \o Y, u + Owed(y))
    BY <1>7, <2>1, <2>2, <2>3, <2>4 DEF Balance, x
  <2> QED BY <2>5 DEF y, Y
<1> QED BY <1>6, <1>7

\* When nothing is said to the peer any more.
LEMMA BalanceRemains ==
  ASSUME NEW out \in Seq(Symbol), NEW np \in Seq(Symbol), NEW m \in Hearing,
         NEW d, NEW u, Balance(out, np, m, d, u)
  PROVE  d \in Seq(Said) /\ u \in Nat /\ Owed(np) <= u
<1>1. PICK rest \in Seq(Said), n \in Nat :
        /\ d = Keep(out \o m.reply, Said) \o rest
        /\ u = Owed(out \o m.reply) + Owed(np) + n
  BY DEF Balance
<1> DEFINE x == out \o m.reply
<1>2. m.reply \in Seq(Symbol)
  BY DEF Hearing
<1>3. x \in Seq(Symbol)
  BY <1>2, ConcatProperties
<1>4. Keep(x, Said) \in Seq(Said) /\ Owed(x) \in Nat /\ Owed(np) \in Nat
  BY <1>3, KeptOfBoth
<1>5. Keep(x, Said) \o rest \in Seq(Said)
  BY <1>4, ConcatProperties
<1> HIDE DEF x
<1>6. d = Keep(x, Said) \o rest /\ u = Owed(x) + Owed(np) + n
  BY <1>1 DEF x
<1> QED BY <1>4, <1>5, <1>6

-----------------------------------------------------------------------------
(* The invariant *)

\* What MAIN's input still calls for: what was read of it, and what is on its way.
Unread == buf["FI_MAIN"] \o FlattenSeq(inbox)

\* What is said to the payment channel, and what a polite peer owes.
Silent ==
  /\ owes \in Seq({AckBytes, PongBytes})
  /\ Keep(buf["NO_PAYMENT"], Said) = Nothing
  /\ buf["NO_PAYMENT"] # Nothing => "NO_PAYMENT" \in fd

\* What is watched is open, and what was read of MAIN is handed to process_main.
Handed ==
  /\ pc = "io" => wset \subseteq fd /\ rset \subseteq fd
  /\ buf["FI_MAIN"] # Nothing /\ "FI_MAIN" \in fd =>
       \/ pc = "io" /\ "FI_MAIN" \notin todo /\ "FI_MAIN" \in rset
       \/ pc = "process" /\ "FI_MAIN" \in todo

\* Whole requests only are in MAIN's input and on their way to it.
Uncut ==
  /\ machine = "main" /\ Whole(buf["FI_MAIN"])
  /\ \A i \in 1..Len(inbox) : Whole(inbox[i])

\* What is due is on MAIN, or is called for by what was not yet processed.
Sums == Balance(buf["FO_MAIN"], buf["NO_PAYMENT"], CalledFor(Unread), due, unpaid)

\* After the connection is closed there is only the payment channel.
Remains == due \in Seq(Said) /\ unpaid \in Nat /\ Owed(buf["NO_PAYMENT"]) <= unpaid

Straight == ~jammed /\ Uncut /\ (IF "FO_MAIN" \in fd THEN Sums ELSE Remains)

AnswersInv ==
  /\ ~astray /\ (~regular => due = Nothing /\ unpaid = 0)
  /\ Silent
  /\ process = "up" => Handed /\ (regular => Straight)

(***************************************************************************)
(* A NAK typed on a console whose output is read took back what is on      *)
(* MAIN, whose descriptor stays watched: answers are lost, but before      *)
(* anything else is said the assert that there is something to write ends  *)
(* the process.                                                            *)
(***************************************************************************)
Doomed ==
  /\ process = "up" /\ pc = "io" /\ todo # {} /\ First(todo) = "FO_MAIN"
  /\ "FO_MAIN" \in wset /\ buf["FO_MAIN"] = Nothing
  /\ ~astray /\ (~regular => due = Nothing /\ unpaid = 0)
  /\ Silent

\* What is not yet processed are symbols, and whole requests.
LEMMA UnreadIs ==
  ASSUME EngineInv
  PROVE  /\ Unread \in Seq(Symbol) /\ CalledFor(Unread) \in Hearing
         /\ {"FI_MAIN", "FO_MAIN", "NO_PAYMENT", "CO_MASTER", "II_SIGNAL", "CI_MASTER"} \subseteq Channel
         /\ buf \in [Channel -> Seq(Symbol)] /\ inbox \in Seq(Seq(Symbol))
         /\ FlattenSeq(inbox) \in Seq(Symbol)
         /\ Uncut => CalledFor(Unread).cs \in {"main", "error"}
<1>1. Inner /\ Outer
  BY DEF EngineInv, Base
<1>2. {"FI_MAIN", "FO_MAIN", "NO_PAYMENT", "CO_MASTER", "II_SIGNAL", "CI_MASTER"} \subseteq Channel
  BY Channels DEF Inputs
<1>3. buf \in [Channel -> Seq(Symbol)] /\ inbox \in Seq(Seq(Symbol))
  BY <1>1 DEF Inner, Outer
<1> DEFINE a == buf["FI_MAIN"]
           t == FlattenSeq(inbox)
<1>4. a \in Seq(Symbol) /\ t \in Seq(Symbol)
  BY <1>2, <1>3, FlattenIsSeq
<1>5. Uncut => Whole(a) /\ Whole(t)
  BY <1>3, WholeFlatten DEF Uncut
<1> HIDE DEF a, t
<1>6. a \o t \in Seq(Symbol)
  BY <1>4, ConcatProperties
<1>7. CalledFor(a \o t) \in Hearing
  BY <1>6, CalledTyped
<1>8. Uncut => Whole(a \o t)
  BY <1>4, <1>5, WholeConcat
<1>9. Unread = a \o t
  BY DEF Unread, a, t
<1> QED BY <1>2, <1>3, <1>4, <1>6, <1>7, <1>8, <1>9 DEF Whole, t

\* Acknowledges and answers are what is said.
LEMMA SaidWhat ==
  /\ Said = {"ACK", "NAK", "T2", "T4", "T5", "D5", "B2"}
  /\ Payments = {"S1", "S2"}
<1>1. /\ DOMAIN Response = {"T1", "T3", "T4", "D4", "B1", "T2", "T5"}
      /\ Response["T1"] = "T2" /\ Response["T3"] = "T4" /\ Response["T4"] = "T5"
      /\ Response["D4"] = "D5" /\ Response["B1"] = "B2"
      /\ Response["T2"] = "" /\ Response["T5"] = ""
  BY DEF Response
<1> DEFINE R == {Response[t] : t \in DOMAIN Response}
<1>2. R = {"T2", "T4", "T5", "D5", "B2", ""}
  BY <1>1
<1> HIDE DEF R
<1>3. R \ {""} = {"T2", "T4", "T5", "D5", "B2"}
  BY <1>2
<1>4. Said = {"ACK", "NAK"} \cup (R \ {""})
  BY DEF Said, R
<1> QED BY <1>3, <1>4 DEF Payments

\* Of nothing nothing is kept.
LEMMA NothingKept == Keep(Nothing, Said) = Nothing /\ Owed(Nothing) = 0
<1>1. Keep(Nothing, Said) = Nothing /\ Keep(Nothing, Payments) = Nothing
  BY KeepFew DEF Nothing
<1> QED BY <1>1, ShortSeqs DEF Owed, Nothing

-----------------------------------------------------------------------------
(* The console *)

\* What is typed, and the prompt.
Typed == {"prompt", "char", "lf", "nak"}

\* A console's output has nothing else.
Typing == buf["CO_MASTER"] \in Seq(Typed) /\ lines \in Seq(Seq(Typed))

\* To the peer that says nothing.
LEMMA TypedIsSilent ==
  ASSUME NEW s \in Seq(Typed)
  PROVE  Keep(s, Said) = Nothing /\ Owed(s) = 0
<1>1. \A x \in Typed : x \notin Said /\ x \notin Payments
  BY SaidWhat DEF Typed
<1>2. Len(s) \in Nat /\ DOMAIN s = 1..Len(s) /\ \A i \in DOMAIN s : s[i] \in Typed
  BY LenProperties, ElementOfSeq
<1>3. ASSUME NEW K, \A x \in Typed : x \notin K
      PROVE  Keep(s, K) = <<>>
  <2>1. Picked(s, K) = Picked(s, {})
    BY <1>2, <1>3 DEF Picked
  <2>2. Keep(s, K) = Keep(s, {})
    BY <2>1, PickedIs
  <2>3. Keep(s, {}) \in Seq({})
    BY KeptIsSeq
  <2> DEFINE e == Keep(s, {})
  <2> HIDE DEF e
  <2>4. e \in Seq({})
    BY <2>3 DEF e
  <2>5. e = <<>>
    <3>1. Len(e) \in Nat /\ \A i \in 1..Len(e) : e[i] \in {}
      BY <2>4, LenProperties, ElementOfSeq
    <3>2. Len(e) = 0
      BY <3>1
    <3> QED BY <2>4, <3>2, EmptySeq
  <2> QED BY <2>2, <2>5 DEF e
<1>4. Keep(s, Said) = <<>> /\ Keep(s, Payments) = <<>>
  BY <1>1, <1>3
<1> QED BY <1>4, ShortSeqs DEF Owed, Nothing

\* The console's output gets a prompt, or a line that is read.
LEMMA TypingStep == EngineInv /\ Typing /\ [Next]_vars => Typing'
<1> SUFFICES ASSUME EngineInv, Typing, [Next]_vars PROVE Typing'
  OBVIOUS
<1>0. buf \in [Channel -> Seq(Symbol)]
  BY DEF EngineInv, Base, Inner
<1>1. {"II_SIGNAL", "CO_MASTER", "CI_MASTER", "FI_MAIN", "FO_MAIN"} \subseteq Channel
  BY Channels DEF Inputs
<1>2. buf["CO_MASTER"] \in Seq(Typed) /\ lines \in Seq(Seq(Typed))
  BY DEF Typing
<1>3. <<>> \in Seq(Typed) /\ <<"prompt">> \in Seq(Typed)
  BY ShortSeqs DEF Typed
<1>4. ASSUME buf'["CO_MASTER"] \in {buf["CO_MASTER"], <<>>, buf["CO_MASTER"] \o <<"prompt">>},
             lines' = lines
      PROVE  Typing'
  <2>1. buf["CO_MASTER"] \o <<"prompt">> \in Seq(Typed)
    BY <1>2, <1>3, Appended
  <2> QED BY <1>2, <1>3, <1>4, <2>1 DEF Typing
<1>5. CASE UNCHANGED vars
  BY <1>4, <1>5 DEF vars, io, world
<1>6. CASE \/ \E how : process = "up" /\ Ends(how)
           \/ SelectReports \/ MainEnds \/ IoDone \/ RoundDone
           \/ PeerSends \/ PeerReplies \/ PeerHangsUp
           \/ (\E timer \in {"timer_ack", "timer_ping"} : TimerExpires(timer)) \/ Interrupt
  <2>1. buf' = buf /\ lines' = lines
    BY <1>6 DEF Ends, SelectReports, MainEnds, IoDone, RoundDone, PeerSends,
                PeerReplies, PeerHangsUp, TimerExpires, Interrupt, io, world
  <2> QED BY <1>4, <2>1
<1>7. CASE Pings
  <2>1. buf' = [buf EXCEPT !["FO_MAIN"] = @ \o Message("T1")] /\ lines' = lines
    BY <1>7 DEF Pings, Put
  <2>2. buf'["CO_MASTER"] = buf["CO_MASTER"]
    BY <1>0, <1>1, <2>1
  <2> QED BY <1>4, <2>1, <2>2
<1>8. CASE \E c \in Outputs : PendingWrite(c)
  <2>1. PICK c \in Outputs : buf' = [buf EXCEPT ![c] = <<>>] /\ lines' = lines
    BY <1>8 DEF PendingWrite
  <2>2. buf'["CO_MASTER"] \in {buf["CO_MASTER"], <<>>}
    BY <1>0, <1>1, <2>1
  <2> QED BY <1>4, <2>1, <2>2
<1>9. CASE ReadSignals
  <2>1. buf' = [buf EXCEPT !["II_SIGNAL"] = @ \o alarms] /\ lines' = lines
    BY <1>9 DEF ReadSignals, Put, world
  <2>2. buf'["CO_MASTER"] = buf["CO_MASTER"]
    BY <1>0, <1>1, <2>1
  <2> QED BY <1>4, <2>1, <2>2
<1>10. CASE MainRead
  <2>1. PICK a : Took("FI_MAIN", a) /\ lines' = lines
    BY <1>10 DEF MainRead
  <2>2. buf'["CO_MASTER"] = buf["CO_MASTER"]
    BY <1>1, <2>1, TookFrame
  <2> QED BY <1>4, <2>1, <2>2
<1>11. CASE \E c \in {"CO_MASTER", "CI_MASTER"} : ConsoleRead(c)
  <2>1. PICK c \in {"CO_MASTER", "CI_MASTER"} : ConsoleRead(c)
    BY <1>11
  <2>2. PICK a \in Seq(Typed) : Took(c, a) /\ lines' \in Seq(Seq(Typed))
    BY <1>2, <2>1, LineRead, Zenon
  <2>3. CASE c = "CI_MASTER"
    <3>1. buf'["CO_MASTER"] = buf["CO_MASTER"]
      BY <1>1, <2>2, <2>3, TookFrame
    <3> QED BY <1>2, <2>2, <3>1 DEF Typing
  <2>4. CASE c = "CO_MASTER"
    <3>1. Typed \subseteq Symbol
      BY SymbolsAre DEF Typed
    <3>2. a \in Seq(Symbol)
      BY <3>1, SeqOfMore
    <3>3. buf'["CO_MASTER"] = buf["CO_MASTER"] \o a
      BY <2>2, <2>4, <3>2, ReadIs
    <3>4. buf["CO_MASTER"] \o a \in Seq(Typed)
      BY <1>2, Appended
    <3> QED BY <2>2, <3>3, <3>4 DEF Typing
  <2> QED BY <2>3, <2>4
<1>12. CASE ConsoleCloses
  <2>1. buf' = buf /\ lines' = <<>>
    BY <1>12 DEF ConsoleCloses
  <2>2. <<>> \in Seq(Seq(Typed))
    BY ShortSeqs
  <2> QED BY <1>2, <2>1, <2>2 DEF Typing
<1>13. CASE process_signal
  <2>1. /\ buf' = [buf EXCEPT !["II_SIGNAL"] = <<>>,
                              !["CO_MASTER"] = IF Interrupted THEN Append(@, "prompt") ELSE @]
        /\ lines' = lines
    BY <1>13 DEF process_signal, world
  <2>2. buf'["CO_MASTER"] \in {buf["CO_MASTER"], Append(buf["CO_MASTER"], "prompt")}
    BY <1>0, <1>1, <2>1
  <2>3. Append(buf["CO_MASTER"], "prompt") = buf["CO_MASTER"] \o <<"prompt">>
    BY <1>2, AppendIsConcat DEF Typed
  <2> QED BY <1>4, <2>1, <2>2, <2>3
<1>14. CASE process_master
  <2>1. buf' = [buf EXCEPT !["CO_MASTER"] = @ \o <<"prompt">>] /\ lines' = lines
    BY <1>14 DEF process_master, Put, world
  <2>2. buf'["CO_MASTER"] = buf["CO_MASTER"] \o <<"prompt">>
    BY <1>0, <1>1, <2>1
  <2> QED BY <1>4, <2>1, <2>2
<1>15. CASE process_main
  <2>1. buf'["CO_MASTER"] = buf["CO_MASTER"]
    BY <1>15, MainFrame
  <2>2. PICK f : \/ AckOverruns(f) \/ BadLrc(f) \/ EmptyMessage(f) \/ BadParse(f) \/ Pong(f) \/ Responds(f)
                 \/ AnswerFails(f) \/ Forwards(f) \/ PaymentBusy(f) \/ BusyFails(f) \/ Unhandled(f)
                 \/ MainDone(f)
    BY <1>15 DEF process_main
  <2>3. CASE AckOverruns(f) \/ BadLrc(f) \/ BadParse(f) \/ Pong(f) \/ MainDone(f)
    BY <1>4, <2>1, <2>3 DEF AckOverruns, BadLrc, BadParse, Pong, MainDone, world
  <2>4. CASE Responds(f) \/ Forwards(f) \/ PaymentBusy(f)
    BY <1>4, <2>1, <2>4 DEF Responds, Forwards, PaymentBusy, world
  <2>5. CASE EmptyMessage(f) \/ AnswerFails(f) \/ BusyFails(f) \/ Unhandled(f)
    <3>1. UNCHANGED world
      BY <2>5 DEF EmptyMessage, AnswerFails, BusyFails, Unhandled, Ends
    <3>2. lines' = lines
      BY <3>1 DEF world
    <3> QED BY <1>4, <2>1, <3>2
  <2> QED BY <2>2, <2>3, <2>4, <2>5
<1>16. CASE UserTypes
  <2>1. PICK line \in {<<"char", "char", "lf">>, <<"nak", "lf">>, <<>>} : lines' = Append(lines, line)
    BY <1>16 DEF UserTypes
  <2>2. line \in Seq(Typed)
    <3>1. <<"char", "char", "lf">> \in Seq(Typed) /\ <<"nak", "lf">> \in Seq(Typed)
      BY DEF Typed
    <3> QED BY <1>3, <2>1, <3>1
  <2>3. lines' \in Seq(Seq(Typed))
    BY <1>2, <2>1, <2>2, AppendProperties
  <2>4. buf' = buf
    BY <1>16 DEF UserTypes, io
  <2> QED BY <1>2, <2>3, <2>4 DEF Typing
<1>17. CASE Next
  BY <1>6, <1>7, <1>8, <1>9, <1>10, <1>11, <1>12, <1>13, <1>14, <1>15, <1>16, <1>17, StepIs
<1> QED BY <1>5, <1>17

\* It is so always.
LEMMA TypingAlways == Spec => []Typing
<1>1. Init => Typing
  <2> SUFFICES ASSUME Init PROVE Typing
    OBVIOUS
  <2>1. buf = [c \in Channel |-> <<>>] /\ lines = <<>>
    BY DEF Init
  <2>2. "CO_MASTER" \in Channel
    BY Channels DEF Inputs
  <2>3. <<>> \in Seq(Typed) /\ <<>> \in Seq(Seq(Typed))
    BY ShortSeqs
  <2> QED BY <2>1, <2>2, <2>3 DEF Typing
<1> QED BY <1>1, TypingStep, EngineAlways, PTL DEF Spec

-----------------------------------------------------------------------------
(* Steps that say nothing *)

\* What is not yet processed may be moved, and the connection closed.
LEMMA Untouched ==
  ASSUME EngineInv, AnswersInv, process = "up",
         UNCHANGED <<due, unpaid, astray, regular, jammed, owes>>,
         "FO_MAIN" \in fd' => "FO_MAIN" \in fd,
         "NO_PAYMENT" \in fd => "NO_PAYMENT" \in fd',
         buf'["NO_PAYMENT"] = buf["NO_PAYMENT"],
         regular /\ Straight => /\ Uncut' /\ Unread' = Unread
                                /\ "FO_MAIN" \in fd => buf'["FO_MAIN"] = buf["FO_MAIN"],
         Handed'
  PROVE  AnswersInv'
<1>1. Silent'
  BY DEF AnswersInv, Silent
<1>2. ASSUME regular PROVE Straight'
  <2>1. Straight /\ ~jammed /\ Uncut
    BY <1>2 DEF AnswersInv, Straight
  <2>2. Uncut' /\ Unread' = Unread /\ ("FO_MAIN" \in fd => buf'["FO_MAIN"] = buf["FO_MAIN"])
    BY <1>2, <2>1
  <2>3. CASE "FO_MAIN" \in fd
    <3>1. Sums
      BY <2>1, <2>3 DEF Straight
    <3>2. Sums'
      BY <2>2, <2>3, <3>1 DEF Sums
    <3>3. Remains'
      BY <3>1, UnreadIs, BalanceRemains DEF Sums, Remains
    <3> QED BY <2>1, <2>2, <3>2, <3>3 DEF Straight
  <2>4. CASE "FO_MAIN" \notin fd
    <3>1. Remains
      BY <2>1, <2>4 DEF Straight
    <3>2. Remains'
      BY <3>1 DEF Remains
    <3> QED BY <2>1, <2>2, <2>4, <3>2 DEF Straight
  <2> QED BY <2>3, <2>4
<1> QED BY <1>1, <1>2 DEF AnswersInv

\* The same, when MAIN's input is as it was.
LEMMA Unmoved ==
  ASSUME EngineInv, AnswersInv, process = "up",
         UNCHANGED <<due, unpaid, astray, regular, jammed, owes, inbox, machine>>,
         "FO_MAIN" \in fd' => "FO_MAIN" \in fd,
         "NO_PAYMENT" \in fd => "NO_PAYMENT" \in fd',
         buf'["NO_PAYMENT"] = buf["NO_PAYMENT"], buf'["FI_MAIN"] = buf["FI_MAIN"],
         ~jammed /\ "FO_MAIN" \in fd => buf'["FO_MAIN"] = buf["FO_MAIN"],
         Handed'
  PROVE  AnswersInv'
<1>1. ASSUME Straight
      PROVE  /\ Uncut' /\ Unread' = Unread
             /\ "FO_MAIN" \in fd => buf'["FO_MAIN"] = buf["FO_MAIN"]
  BY <1>1 DEF Straight, Uncut, Unread
<1> QED BY <1>1, Untouched

\* From here on nothing is said about what the peer gets.
LEMMA Forgotten ==
  ASSUME AnswersInv, Forgets, UNCHANGED <<owes, fd>>,
         buf'["NO_PAYMENT"] = buf["NO_PAYMENT"], process = "up", Handed'
  PROVE  AnswersInv'
BY DEF AnswersInv, Forgets, Silent, Nothing

\* The process ends.
LEMMA Stopped ==
  ASSUME AnswersInv, NEW how, Ends(how), how # "up"
  PROVE  AnswersInv'
<1>1. /\ process' # "up"
      /\ UNCHANGED <<fd, buf, owes, due, unpaid, astray, regular>>
  BY DEF Ends, io, world, history
<1> QED BY <1>1 DEF AnswersInv, Silent

-----------------------------------------------------------------------------
(* wait_for_io *)

\* When select is entered there is nothing to process.
LEMMA AllProcessed ==
  ASSUME Handed, pc = "select", "FI_MAIN" \in fd
  PROVE  buf["FI_MAIN"] = Nothing
BY DEF Handed

\* Nothing is said, or an output was full.
LEMMA SelectExact == ASSUME EngineInv, AnswersInv, SelectReports PROVE AnswersInv'
<1>1. PICK full \in SUBSET wset :
        /\ Jams(full) /\ wset' = wset \ full
        /\ "FI_MAIN" \in Readable => "FI_MAIN" \in todo'
  BY DEF SelectReports
<1>2. /\ process = "up" /\ process' = "up" /\ pc = "select" /\ pc' = "io"
      /\ wset \subseteq fd /\ rset' = Readable /\ Readable \subseteq fd
      /\ UNCHANGED <<fd, buf, machine, inbox, owes>>
  BY DEF SelectReports, At, Readable
<1>3. Handed
  BY <1>2 DEF AnswersInv
<1>4. Handed'
  <2>1. wset' \subseteq fd' /\ rset' \subseteq fd'
    BY <1>1, <1>2
  <2>2. ASSUME buf["FI_MAIN"] # Nothing, "FI_MAIN" \in fd PROVE FALSE
    BY <1>2, <1>3, <2>2, AllProcessed
  <2> QED BY <1>2, <2>1, <2>2 DEF Handed
<1>5. CASE full = {}
  <2>1. UNCHANGED <<due, unpaid, astray, regular, jammed>>
    BY <1>1, <1>5 DEF Jams, history
  <2> QED BY <1>2, <1>4, <2>1, Unmoved
<1>6. CASE full # {}
  <2>1. Forgets
    BY <1>1, <1>6 DEF Jams
  <2> QED BY <1>2, <1>4, <2>1, Forgotten
<1> QED BY <1>5, <1>6

\* A ping is no answer.
LEMMA PingIs ==
  LET t == Message("T1")
  IN  t \in Seq(Symbol) /\ Keep(t, Said) = Nothing /\ Owed(t) = 0
<1>1. {"stx", "T1"} \subseteq Symbol
  BY SymbolsAre
<1>2. /\ "stx" \notin Said /\ "T1" \notin Said
      /\ "stx" \notin Payments /\ "T1" \notin Payments
  BY SaidWhat
<1> DEFINE e == <<>>
<1>3. e \o e = e
  BY ShortSeqs, ConcatEmptySeq
<1> HIDE DEF e
<1>4. Keep(<<"stx", "T1">>, Said) = e \o e /\ Keep(<<"stx", "T1">>, Payments) = e \o e
  BY <1>2, KeepFew, ZenonT(30) DEF e
<1>5. Len(e) = 0
  BY ShortSeqs DEF e
<1> QED BY <1>1, <1>3, <1>4, <1>5, ShortSeqs DEF Message, Owed, Nothing, e

\* A ping goes out.
LEMMA PingsExact == ASSUME EngineInv, AnswersInv, Pings PROVE AnswersInv'
<1>1. /\ process = "up" /\ process' = "up" /\ pc = "select" /\ pc' = "io"
      /\ "FO_MAIN" \in fd /\ wset \subseteq fd /\ Jams(wset)
      /\ buf' = [buf EXCEPT !["FO_MAIN"] = @ \o Message("T1")]
      /\ wset' = {"FO_MAIN"} /\ rset' = {}
      /\ UNCHANGED <<fd, machine, inbox, owes>>
  BY DEF Pings, TimesOut, NothingReady, At, MayPing, Put, Commission
<1>2. /\ {"FI_MAIN", "FO_MAIN", "NO_PAYMENT", "CO_MASTER"} \subseteq Channel
      /\ buf \in [Channel -> Seq(Symbol)]
  BY UnreadIs
<1>3. /\ buf'["FO_MAIN"] = buf["FO_MAIN"] \o Message("T1")
      /\ buf'["FI_MAIN"] = buf["FI_MAIN"] /\ buf'["NO_PAYMENT"] = buf["NO_PAYMENT"]
  BY <1>1, <1>2
<1>4. Handed
  BY <1>1 DEF AnswersInv
<1>5. Handed'
  BY <1>1, <1>3, <1>4 DEF Handed
<1>6. CASE wset # {}
  <2>1. Forgets
    BY <1>1, <1>6 DEF Jams
  <2> QED BY <1>1, <1>3, <1>5, <2>1, Forgotten
<1>7. CASE wset = {}
  <2>1. UNCHANGED <<due, unpaid, astray, regular, jammed>>
    BY <1>1, <1>7 DEF Jams, history
  <2>2. Silent'
    BY <1>1, <1>3 DEF AnswersInv, Silent
  <2>3. ASSUME regular PROVE Straight'
    <3>1. ~jammed /\ Uncut /\ Sums
      BY <1>1, <2>3 DEF AnswersInv, Straight
    <3>2. Uncut' /\ Unread' = Unread
      BY <1>1, <1>3, <3>1 DEF Uncut, Unread
    <3> DEFINE t == Message("T1")
               m == CalledFor(Unread)
               u == buf["FO_MAIN"]
               v == buf["NO_PAYMENT"]
               e == Nothing
    <3>3. t \in Seq(Symbol) /\ Keep(t, Said) = Nothing /\ Owed(t) = 0
      BY PingIs
    <3>4. m \in Hearing /\ u \in Seq(Symbol) /\ v \in Seq(Symbol) /\ e \in Seq(Symbol)
      BY <1>2, UnreadIs, ShortSeqs DEF Nothing
    <3>5. Keep(e, Said) = Nothing /\ Owed(e) = 0
      BY NothingKept
    <3>6. Balance(u, v, m, due, unpaid)
      BY <3>1 DEF Sums
    <3> HIDE DEF t, m, u, v, e
    <3>7. Beyond(m, m, e)
      <4>1. m.reply \in Seq(Symbol)
        BY <3>4 DEF Hearing
      <4>2. e \o m.reply = m.reply
        BY <4>1, ConcatEmptySeq DEF e, Nothing
      <4> QED BY <4>2 DEF Beyond
    <3>8. Keep(t, Said) = Keep(e, Said) /\ Owed(t) + Owed(e) = Owed(e)
      BY <3>3, <3>5
    <3>9. Balance(u \o t, v \o e, m, due, unpaid)
      BY <3>3, <3>4, <3>6, <3>7, <3>8, BalanceMoves
    <3>10. v \o e = v
      BY <3>4, ConcatEmptySeq DEF e, Nothing
    <3>11. Sums'
      BY <1>3, <2>1, <3>2, <3>9, <3>10 DEF Sums, u, v, t, m
    <3> QED BY <1>1, <2>1, <3>1, <3>2, <3>11 DEF Straight
  <2> QED BY <1>5, <2>1, <2>2, <2>3 DEF AnswersInv
<1> QED BY <1>6, <1>7

\* Whatever wait_for_io does.
LEMMA WaitExact == ASSUME EngineInv, AnswersInv, WaitForIo PROVE AnswersInv'
<1>1. CASE SelectReports
  BY <1>1, SelectExact
<1>2. CASE Pings
  BY <1>2, PingsExact
<1>3. CASE SelectFails \/ SelectPolls \/ PingsExhausted
  <2>1. Ends("select") \/ Ends("returned") \/ Ends("exhausted")
    BY <1>3 DEF SelectFails, SelectPolls, PingsExhausted
  <2> QED BY <2>1, Stopped
<1>4. CASE PingImpossible
  <2>1. process' # "up" /\ UNCHANGED <<io, world, history>>
    BY <1>4 DEF PingImpossible, Ends
  <2>2. UNCHANGED <<fd, buf, owes, due, unpaid, astray, regular>>
    BY <2>1 DEF io, world, history
  <2> QED BY <2>1, <2>2 DEF AnswersInv, Silent
<1> QED BY <1>1, <1>2, <1>3, <1>4 DEF WaitForIo

-----------------------------------------------------------------------------
(* perform_pending_io *)

\* A polite peer owes acknowledges and answers to pings, and nothing else.
LEMMA DebtOwed ==
  ASSUME NEW items \in Seq(Symbol)
  PROVE  Debt(items) \in Seq({AckBytes, PongBytes})
<1> DEFINE a == AckBytes
           t == PongBytes
           n == Len(items)
           d == [i \in DOMAIN items |->
                   CASE items[i] = "stx" -> <<a>>
                     [] items[i] = "T1"  -> <<t>>
                     [] OTHER            -> <<>>]
           W == {a, t}
           V == Seq(W)
<1>1. n \in Nat /\ DOMAIN items = 1..n
  BY LenProperties
<1>2. Debt(items) = FlattenSeq(d)
  BY DEF Debt, AckBytes, PongBytes
<1>3. a \in W /\ t \in W
  OBVIOUS
<1> HIDE DEF a, t, W, n
<1>4. <<a>> \in V /\ <<t>> \in V /\ <<>> \in V
  BY <1>3, ShortSeqs
<1> HIDE DEF V
<1>5. \A i \in 1..n : d[i] \in V
  BY <1>1, <1>4
<1>6. d \in [1..n -> V]
  BY <1>1, <1>5
<1> HIDE DEF d
<1>7. d \in Seq(V)
  BY <1>1, <1>6, SegmentIsSeq
<1> QED BY <1>2, <1>7, FlattenIsSeq DEF V, W, a, t

\* What is written to the user, or handed over for payment, was not due to the peer.
LEMMA DeliversAside ==
  ASSUME NEW c, Delivers(c), regular, ~astray, due \in Seq(Said), Keep(buf[c], Said) = Nothing,
         ~(Owed(buf[c]) > unpaid)
  PROVE  due' = due /\ unpaid' = unpaid - Owed(buf[c]) /\ ~astray'
<1> DEFINE e == Nothing
<1>1. e \in Seq(Said) /\ Len(e) = 0
  BY ShortSeqs DEF Nothing
<1>2. e \o due = due
  BY ConcatEmptySeq DEF Nothing
<1> HIDE DEF e
<1>3. IsPrefix(e, due) /\ SubSeq(due, Len(e) + 1, Len(due)) = due
  BY <1>1, <1>2, PrefixOf, ZenonT(30)
<1> QED BY <1>3 DEF Delivers, Owed, e

\* A write empties its output.
LEMMA WriteIs ==
  ASSUME EngineInv, AnswersInv, NEW c \in Outputs, PendingWrite(c)
  PROVE  /\ process = "up" /\ process' = "up" /\ pc = "io" /\ c \in fd /\ Delivers(c)
         /\ UNCHANGED <<fd, machine, inbox, regular, jammed>>
         /\ buf'[c] = Nothing /\ \A d \in Channel : d # c => buf'[d] = buf[d]
         /\ c \in {"NO_PAYMENT", "CO_MASTER", "FO_MAIN"}
         /\ Silent' /\ Handed'
<1>1. /\ process = "up" /\ process' = "up" /\ pc = "io" /\ pc' = "io" /\ c \in wset /\ Delivers(c)
      /\ todo' \in {todo, todo \ {c}} /\ wset' = wset \ {c}
      /\ buf' = [buf EXCEPT ![c] = Nothing]
      /\ owes' = IF c = "FO_MAIN" /\ manner = "polite" THEN owes \o Debt(buf[c]) ELSE owes
      /\ UNCHANGED <<fd, rset, machine, inbox, regular, jammed>>
  BY DEF PendingWrite, At, Nothing
<1>2. /\ {"FI_MAIN", "FO_MAIN", "NO_PAYMENT", "CO_MASTER"} \subseteq Channel
      /\ buf \in [Channel -> Seq(Symbol)]
  BY UnreadIs
<1>3. c \in {"NO_PAYMENT", "CO_MASTER", "FO_MAIN"}
  BY Channels
<1>4. buf'[c] = Nothing /\ \A d \in Channel : d # c => buf'[d] = buf[d]
  BY <1>1, <1>2, <1>3
<1>5. Silent /\ Handed
  BY <1>1 DEF AnswersInv
<1>6. Handed'
  BY <1>1, <1>2, <1>3, <1>4, <1>5 DEF Handed
<1>7. owes' \in Seq({AckBytes, PongBytes})
  <2> DEFINE V == {AckBytes, PongBytes}
             x == Debt(buf[c])
  <2>1. owes \in Seq(V)
    BY <1>5 DEF Silent
  <2>2. x \in Seq(V)
    BY <1>2, <1>3, DebtOwed
  <2> HIDE DEF V, x
  <2>3. owes \o x \in Seq(V)
    BY <2>1, <2>2, ConcatProperties
  <2> QED BY <1>1, <2>1, <2>3 DEF V, x
<1>8. Silent'
  BY <1>1, <1>2, <1>3, <1>4, <1>5, <1>7, NothingKept DEF Silent
<1> QED BY <1>1, <1>3, <1>4, <1>5, <1>6, <1>8 DEF Handed

\* The peer gets what is due to it.
LEMMA WriteMainExact ==
  ASSUME EngineInv, AnswersInv, PendingWrite("FO_MAIN"), regular
  PROVE  AnswersInv'
<1>1. "FO_MAIN" \in Outputs
  BY Channels
<1>2. /\ process' = "up" /\ "FO_MAIN" \in fd /\ Delivers("FO_MAIN") /\ Silent' /\ Handed'
      /\ UNCHANGED <<fd, machine, inbox, regular, jammed>>
      /\ buf'["FO_MAIN"] = Nothing
      /\ buf'["FI_MAIN"] = buf["FI_MAIN"] /\ buf'["NO_PAYMENT"] = buf["NO_PAYMENT"]
  BY <1>1, WriteIs, UnreadIs
<1>3. ~astray /\ ~jammed /\ Uncut /\ Sums
  BY <1>1, <1>2, WriteIs DEF AnswersInv, Straight
<1>4. Uncut' /\ Unread' = Unread
  BY <1>2, <1>3 DEF Uncut, Unread
<1> DEFINE out == buf["FO_MAIN"]
           np == buf["NO_PAYMENT"]
           m == CalledFor(Unread)
           got == Keep(out, Said)
           d == SubSeq(due, Len(got) + 1, Len(due))
<1>5. out \in Seq(Symbol) /\ np \in Seq(Symbol) /\ m \in Hearing
  BY UnreadIs
<1>6. Balance(out, np, m, due, unpaid)
  BY <1>3 DEF Sums
<1>7. IsPrefix(got, due) /\ ~(Owed(out) > unpaid) /\ Balance(<<>>, np, m, d, unpaid - Owed(out))
  <2> HIDE DEF out, np, m
  <2> QED BY <1>5, <1>6, BalanceWritten
<1>8. due' = d /\ unpaid' = unpaid - Owed(out) /\ ~astray'
  BY <1>2, <1>3, <1>7 DEF Delivers, Owed
<1>9. Sums'
  BY <1>2, <1>4, <1>7, <1>8 DEF Sums, Nothing
<1> QED BY <1>2, <1>3, <1>4, <1>8, <1>9 DEF AnswersInv, Straight

\* The user gets a prompt, or the payment channel its messages.
LEMMA WriteAsideExact ==
  ASSUME EngineInv, AnswersInv, Typing,
         NEW c \in {"NO_PAYMENT", "CO_MASTER"}, PendingWrite(c), regular
  PROVE  AnswersInv'
<1>1. c \in Outputs /\ "FO_MAIN" # c /\ "FI_MAIN" # c
  BY Channels
<1>2. /\ process' = "up" /\ process = "up" /\ Delivers(c) /\ Silent' /\ Handed'
      /\ UNCHANGED <<fd, machine, inbox, regular, jammed>>
      /\ buf'[c] = Nothing /\ \A d \in Channel : d # c => buf'[d] = buf[d]
  BY <1>1, WriteIs
<1>3. ~astray /\ Silent /\ Straight /\ ~jammed /\ Uncut
  BY <1>2 DEF AnswersInv, Straight
<1>4. /\ {"FI_MAIN", "FO_MAIN", "NO_PAYMENT", "CO_MASTER"} \subseteq Channel
      /\ buf["FO_MAIN"] \in Seq(Symbol) /\ buf["NO_PAYMENT"] \in Seq(Symbol)
      /\ CalledFor(Unread) \in Hearing
  BY UnreadIs
<1>5. Uncut' /\ Unread' = Unread
  BY <1>1, <1>2, <1>3, <1>4 DEF Uncut, Unread
<1>6. Remains
  <2>1. CASE "FO_MAIN" \in fd
    BY <1>3, <1>4, <2>1, BalanceRemains DEF Straight, Sums, Remains
  <2> QED BY <1>3, <2>1 DEF Straight
<1>7. Keep(buf[c], Said) = Nothing
  BY <1>3, TypedIsSilent DEF Silent, Typing
<1>8. CASE c = "CO_MASTER"
  <2>1. Owed(buf[c]) = 0
    BY <1>8, TypedIsSilent DEF Typing
  <2>2. due' = due /\ unpaid' = unpaid - 0 /\ ~astray'
    BY <1>2, <1>3, <1>6, <1>7, <2>1, DeliversAside DEF Remains
  <2>3. unpaid' = unpaid
    BY <1>6, <2>2 DEF Remains
  <2>4. Straight'
    BY <1>2, <1>3, <1>4, <1>5, <1>8, <2>2, <2>3 DEF Straight, Sums, Remains
  <2> QED BY <1>2, <2>2, <2>4 DEF AnswersInv
<1>9. CASE c = "NO_PAYMENT"
  <2>1. Owed(buf[c]) \in Nat /\ unpaid \in Nat /\ ~(Owed(buf[c]) > unpaid)
    BY <1>4, <1>6, <1>9, KeptOfBoth DEF Remains
  <2>2. due' = due /\ unpaid' = unpaid - Owed(buf[c]) /\ ~astray'
    BY <1>2, <1>3, <1>6, <1>7, <2>1, DeliversAside DEF Remains
  <2>3. "FO_MAIN" \in fd => Sums'
    <3>1. ASSUME "FO_MAIN" \in fd
          PROVE  Balance(buf["FO_MAIN"], <<>>, CalledFor(Unread), due, unpaid - Owed(buf[c]))
      BY <1>3, <1>4, <1>9, <3>1, BalancePaid DEF Straight, Sums
    <3> QED BY <1>2, <1>4, <1>5, <1>9, <2>2, <3>1 DEF Sums, Nothing
  <2>4. Remains'
    <3>1. Owed(buf'["NO_PAYMENT"]) = 0
      BY <1>2, <1>9, NothingKept
    <3>2. unpaid' \in Nat
      BY <2>1, <2>2
    <3> QED BY <1>6, <2>2, <3>1, <3>2 DEF Remains
  <2>5. Straight'
    BY <1>2, <1>3, <1>5, <2>3, <2>4 DEF Straight
  <2> QED BY <1>2, <2>2, <2>5 DEF AnswersInv
<1> QED BY <1>8, <1>9

\* Whatever is written.
LEMMA WriteExact ==
  ASSUME EngineInv, AnswersInv, Typing, NEW c \in Outputs, PendingWrite(c)
  PROVE  AnswersInv'
<1>1. CASE regular
  BY <1>1, Channels, WriteMainExact, WriteAsideExact
<1>2. CASE ~regular
  <2>1. process = "up" /\ Delivers(c) /\ Silent' /\ Handed' /\ regular' = regular
    BY WriteIs
  <2>2. UNCHANGED <<due, unpaid, astray>>
    BY <1>2, <2>1 DEF Delivers
  <2> QED BY <1>2, <2>1, <2>2 DEF AnswersInv
<1> QED BY <1>1, <1>2

\* Signals are read.
LEMMA SignalsExact == ASSUME EngineInv, AnswersInv, ReadSignals PROVE AnswersInv'
<1>1. /\ process = "up" /\ process' = "up" /\ pc = "io" /\ pc' = "io" /\ todo' = todo \ {"II_SIGNAL"}
      /\ buf' = [buf EXCEPT !["II_SIGNAL"] = @ \o alarms]
      /\ UNCHANGED <<fd, wset, rset, machine, inbox, owes, due, unpaid, astray, regular, jammed>>
  BY DEF ReadSignals, Visits, At, Put, world, history
<1>2. /\ buf'["FO_MAIN"] = buf["FO_MAIN"] /\ buf'["FI_MAIN"] = buf["FI_MAIN"]
      /\ buf'["NO_PAYMENT"] = buf["NO_PAYMENT"]
  BY <1>1, UnreadIs
<1>3. Handed'
  BY <1>1, <1>2 DEF AnswersInv, Handed
<1> QED BY <1>1, <1>2, <1>3, Unmoved

\* The console goes.
LEMMA ConsoleClosesExact == ASSUME EngineInv, AnswersInv, ConsoleCloses PROVE AnswersInv'
<1>1. /\ process = "up" /\ process' = "up" /\ pc = "io" /\ pc' = "io" /\ todo' = todo \ {"CI_MASTER"}
      /\ fd' = fd \ {"CI_MASTER", "CO_MASTER"} /\ rset' = rset \ {"CI_MASTER"}
      /\ UNCHANGED <<buf, wset, machine, inbox, owes, due, unpaid, astray, regular, jammed>>
  BY DEF ConsoleCloses, Visits, At, history
<1>2. wset = {} /\ rset \subseteq Inputs /\ "CO_MASTER" \notin Inputs
  <2>1. "CI_MASTER" \in Inputs /\ Visits("CI_MASTER")
    BY DEF Inputs, ConsoleCloses
  <2>2. wset = {}
    BY <2>1, InputVisited
  <2> QED BY <2>2 DEF EngineInv, Base, Inner, Inputs
<1>3. Handed'
  BY <1>1, <1>2 DEF AnswersInv, Handed
<1> QED BY <1>1, <1>3, Unmoved

\* Something is read while all that was to be written is written.
LEMMA ReadExact ==
  ASSUME EngineInv, NEW c \in {"CI_MASTER", "FI_MAIN"}, NEW bytes \in Seq(Symbol),
         Visits(c), Took(c, bytes)
  PROVE  /\ pc = "io" /\ todo' = todo \ {c} /\ buf'[c] = buf[c] \o bytes
         /\ \A d \in Channel : d \notin {c, "FO_MAIN"} => buf'[d] = buf[d]
         /\ ~jammed /\ "FO_MAIN" \in fd => buf'["FO_MAIN"] = buf["FO_MAIN"]
         /\ c \in rset
<1>1. c \in Inputs
  BY DEF Inputs
<1>2. /\ pc = "io" /\ c \in todo /\ todo' = todo \ {c}
      /\ ~jammed => \A d \in Outputs \cap fd : d # "CO_MASTER" => buf[d] = Nothing
  BY <1>1, InputVisited DEF Nothing
<1>3. /\ TakesBack(bytes) \/ Adds(bytes)
      /\ buf'[c] = buf[c] \o bytes
      /\ \A d \in Channel : d \notin {c, "FO_MAIN"} => buf'[d] = buf[d]
  BY ReadIs
<1>4. ~jammed /\ "FO_MAIN" \in fd => buf'["FO_MAIN"] = buf["FO_MAIN"]
  BY <1>2, <1>3, Channels DEF TakesBack, Adds
<1>5. c \in rset
  BY <1>1, <1>2 DEF EngineInv, Base, Stage
<1> QED BY <1>2, <1>3, <1>4, <1>5

\* A line for the console's input is not for process_main, even when it counts as an acknowledge.
LEMMA ConsoleInExact == ASSUME EngineInv, AnswersInv, ConsoleRead("CI_MASTER") PROVE AnswersInv'
<1>1. PICK a \in Seq(Symbol) : Visits("CI_MASTER") /\ Took("CI_MASTER", a)
  BY ConsoleReadIs
<1>2. /\ process = "up" /\ process' = "up" /\ pc' = pc
      /\ UNCHANGED <<fd, wset, rset, machine, inbox, owes, due, unpaid, astray, regular, jammed>>
  BY <1>1 DEF ConsoleRead, Visits, At, history
<1>3. /\ pc = "io" /\ todo' = todo \ {"CI_MASTER"}
      /\ \A d \in Channel : d \notin {"CI_MASTER", "FO_MAIN"} => buf'[d] = buf[d]
      /\ ~jammed /\ "FO_MAIN" \in fd => buf'["FO_MAIN"] = buf["FO_MAIN"]
  BY <1>1, ReadExact
<1>4. buf'["FI_MAIN"] = buf["FI_MAIN"] /\ buf'["NO_PAYMENT"] = buf["NO_PAYMENT"]
  BY <1>3, UnreadIs
<1>5. Handed'
  BY <1>2, <1>3, <1>4 DEF AnswersInv, Handed
<1> QED BY <1>2, <1>3, <1>4, <1>5, Unmoved

\* After CO_MASTER comes FO_MAIN.
LEMMA MainNext ==
  ASSUME NEW C, C \subseteq Channel, First(C) = "CO_MASTER", "FO_MAIN" \in C
  PROVE  First(C \ {"CO_MASTER"}) = "FO_MAIN"
<1> DEFINE D == C \ {"CO_MASTER"}
           Ahead(B, i) == Order[i] \in B /\ \A j \in 1..(i - 1) : Order[j] \notin B
<1>0. /\ DOMAIN Order = 1..6
      /\ Order[1] = "NO_PAYMENT" /\ Order[2] = "CO_MASTER" /\ Order[3] = "FO_MAIN"
      /\ Order[4] = "II_SIGNAL" /\ Order[5] = "CI_MASTER" /\ Order[6] = "FI_MAIN"
  BY DEF Order
<1>1. "NO_PAYMENT" \notin C
  <2>1. SUFFICES ASSUME "NO_PAYMENT" \in C PROVE FALSE
    OBVIOUS
  <2>2. Ahead(C, 1) /\ \A i \in 1..6 : Ahead(C, i) => i = 1
    BY <1>0, <2>1
  <2>3. First(C) = Order[CHOOSE i \in 1..6 : Ahead(C, i)]
    BY <1>0 DEF First
  <2> HIDE DEF Ahead
  <2>4. (CHOOSE i \in 1..6 : Ahead(C, i)) = 1
    BY <2>2
  <2> QED BY <1>0, <2>3, <2>4
<1>2. Ahead(D, 3) /\ \A i \in 1..6 : Ahead(D, i) => i = 3
  <2>1. "NO_PAYMENT" \notin D /\ "CO_MASTER" \notin D /\ "FO_MAIN" \in D
    BY <1>1
  <2> HIDE DEF D
  <2> QED BY <1>0, <2>1
<1>3. First(D) = Order[CHOOSE i \in 1..6 : Ahead(D, i)]
  BY <1>0 DEF First
<1> HIDE DEF D, Ahead
<1>4. (CHOOSE i \in 1..6 : Ahead(D, i)) = 3
  BY <1>2
<1>5. First(D) = "FO_MAIN"
  BY <1>0, <1>3, <1>4
<1> QED BY <1>5 DEF D

\* One for its output, which comes before MAIN's, may take back what is watched there.
LEMMA ConsoleOutExact ==
  ASSUME EngineInv, AnswersInv, ConsoleRead("CO_MASTER")
  PROVE  AnswersInv' \/ Doomed'
<1>0. Inner /\ Stage /\ Watched /\ "FO_MAIN" \in Outputs /\ "FO_MAIN" \in Channel
  BY Channels DEF EngineInv, Base, Inputs
<1>1. PICK a \in Seq(Symbol) : Visits("CO_MASTER") /\ Took("CO_MASTER", a)
  BY ConsoleReadIs
<1>2. /\ process = "up" /\ process' = "up" /\ pc' = pc /\ "CO_MASTER" \notin wset
      /\ todo # {} /\ First(todo) = "CO_MASTER"
      /\ UNCHANGED <<fd, wset, rset, machine, inbox, owes, due, unpaid, astray, regular, jammed>>
  BY <1>1 DEF ConsoleRead, Visits, At, history
<1>3. pc = "io" /\ todo' = todo \ {"CO_MASTER"}
  BY <1>1, <1>2, SharedIs
<1>4. /\ TakesBack(a) \/ Adds(a)
      /\ \A d \in Channel : d \notin {"CO_MASTER", "FO_MAIN"} => buf'[d] = buf[d]
  BY <1>1, ReadIs
<1>5. buf'["FI_MAIN"] = buf["FI_MAIN"] /\ buf'["NO_PAYMENT"] = buf["NO_PAYMENT"]
  BY <1>4, UnreadIs
<1>6. Handed'
  BY <1>2, <1>3, <1>5 DEF AnswersInv, Handed
<1>7. CASE Adds(a) \/ "FO_MAIN" \notin wset
  <2>1. ~jammed /\ "FO_MAIN" \in fd => buf'["FO_MAIN"] = buf["FO_MAIN"]
    <3>1. CASE Adds(a)
      BY <3>1 DEF Adds
    <3>2. CASE TakesBack(a) /\ "FO_MAIN" \notin wset
      BY <1>0, <3>2 DEF TakesBack, Watched, Nothing
    <3> QED BY <1>4, <1>7, <3>1, <3>2
  <2> QED BY <1>2, <1>5, <1>6, <2>1, Unmoved
<1>8. CASE TakesBack(a) /\ "FO_MAIN" \in wset
  <2>1. "FO_MAIN" \in todo /\ todo \subseteq Channel
    BY <1>0, <1>3, <1>8 DEF Stage, Inner
  <2>2. First(todo') = "FO_MAIN" /\ todo' # {}
    BY <1>2, <1>3, <2>1, MainNext
  <2>3. Silent'
    BY <1>2, <1>5 DEF AnswersInv, Silent
  <2>4. ~astray' /\ (~regular' => due' = Nothing /\ unpaid' = 0)
    BY <1>2 DEF AnswersInv
  <2> QED BY <1>2, <1>3, <1>8, <2>2, <2>3, <2>4 DEF Doomed, TakesBack
<1> QED BY <1>4, <1>7, <1>8

\* Then the write of MAIN comes next, and fails its assert.
LEMMA DoomedStep == ASSUME EngineInv, Doomed, [Next]_vars PROVE AnswersInv' \/ Doomed'
<1>1. /\ process = "up" /\ pc = "io" /\ todo # {} /\ First(todo) = "FO_MAIN"
      /\ buf["FO_MAIN"] = <<>> /\ "FO_MAIN" \in wset
  BY DEF Doomed, Nothing
<1>2. ASSUME UNCHANGED <<io, round, owes, due, unpaid, astray, regular>>
      PROVE  Doomed'
  BY <1>2 DEF Doomed, Silent, io, round
<1>3. ASSUME NEW how, how # "up", Ends(how) PROVE AnswersInv'
  <2>1. process' # "up" /\ UNCHANGED <<fd, buf, owes, due, unpaid, astray, regular>>
    BY <1>3 DEF Ends, io, world, history
  <2> QED BY <2>1 DEF AnswersInv, Doomed, Silent
<1>4. CASE UNCHANGED vars
  BY <1>2, <1>4 DEF vars, world, history
<1>5. CASE World
  <2>1. PICK timer \in {"timer_ack", "timer_ping"} : TimerExpires(timer)
    BY <1>1, <1>5 DEF World, Blocked
  <2> QED BY <1>2, <2>1 DEF TimerExpires, world, history
<1>6. CASE PerformPendingIo
  <2>1. ~\E c \in Outputs : PendingWrite(c)
    BY <1>1 DEF PendingWrite
  <2>2. ~ReadSignals /\ ~ConsoleCloses /\ ~MainRead /\ ~MainEnds
    BY <1>1 DEF ReadSignals, ConsoleCloses, MainRead, MainEnds, Visits
  <2>3. ~OutputRead /\ ~IoDone /\ ~\E c \in {"CO_MASTER", "CI_MASTER"} : ConsoleRead(c)
    BY <1>1 DEF OutputRead, IoDone, ConsoleRead, Visits
  <2>4. CASE ArmsTwice \/ \E c \in Outputs : WritesNothing(c) \/ WritesBeyond(c)
    <3>1. Ends("duplicate alarm") \/ Ends("empty write") \/ Ends("no room")
      BY <2>4 DEF ArmsTwice, WritesNothing, WritesBeyond
    <3> QED BY <1>3, <3>1
  <2> QED BY <1>6, <2>1, <2>2, <2>3, <2>4 DEF PerformPendingIo
<1>7. ~WaitForIo
  BY <1>1 DEF WaitForIo, SelectReports, SelectFails, SelectPolls, PingsExhausted, PingImpossible,
              Pings, TimesOut, NothingReady, At
<1>8. ~process_signal /\ ~process_master /\ ~process_main /\ ~RoundDone
  BY <1>1 DEF process_signal, process_master, process_main, RoundDone, Handles, InMain, At
<1> QED BY <1>4, <1>5, <1>6, <1>7, <1>8 DEF Next, Program

\* Requests move from the connection to MAIN's input.
LEMMA MainWholeExact ==
  ASSUME EngineInv, AnswersInv, MainRead, NEW k \in 1..Len(inbox),
         Took("FI_MAIN", FlattenSeq(SubSeq(inbox, 1, k))),
         inbox' = SubSeq(inbox, k + 1, Len(inbox)), UNCHANGED history
  PROVE  AnswersInv'
<1>1. /\ process = "up" /\ process' = "up" /\ pc' = pc /\ Visits("FI_MAIN")
      /\ UNCHANGED <<fd, wset, rset, machine, owes, due, unpaid, astray, regular, jammed>>
  BY DEF MainRead, Visits, At, history
<1> DEFINE W == Seq(Symbol)
           n == Len(inbox)
           a == SubSeq(inbox, 1, k)
           b == SubSeq(inbox, k + 1, n)
           x == FlattenSeq(a)
           y == FlattenSeq(b)
           z == buf["FI_MAIN"]
<1>2. inbox \in Seq(W) /\ z \in W /\ "FI_MAIN" \in Channel
  BY UnreadIs
<1>3. n \in Nat /\ k \in 0..n
  BY <1>2, LenProperties
<1> HIDE DEF W
<1>4. a \in Seq(W) /\ b \in Seq(W) /\ a \o b = inbox
  BY <1>2, <1>3, CutInTwo
<1>5. /\ Len(a) = k /\ \A i \in 1..k : a[i] = inbox[i]
      /\ Len(b) = n - k /\ \A i \in 1..(n - k) : b[i] = inbox[k + i]
  <2>1. 1 \in Nat \ {0} /\ k + 1 \in Nat \ {0} /\ n \in 0..Len(inbox)
    BY <1>3
  <2>2. Len(a) = (IF 1 <= k THEN k - 1 + 1 ELSE 0) /\ \A i \in 1..(k - 1 + 1) : a[i] = inbox[1 + i - 1]
    BY <1>2, <1>3, <2>1, PartIsSeq
  <2>3. /\ Len(b) = (IF k + 1 <= n THEN n - (k + 1) + 1 ELSE 0)
        /\ \A i \in 1..(n - (k + 1) + 1) : b[i] = inbox[(k + 1) + i - 1]
    BY <1>2, <2>1, PartIsSeq
  <2> HIDE DEF a, b, n
  <2>4. Len(a) = k /\ Len(b) = n - k
    BY <1>3, <2>2, <2>3
  <2>5. \A i \in 1..k : a[i] = inbox[i]
    BY <1>3, <2>2
  <2>6. ASSUME NEW i \in 1..(n - k) PROVE b[i] = inbox[k + i]
    <3>1. i \in 1..(n - (k + 1) + 1) /\ (k + 1) + i - 1 = k + i
      BY <1>3
    <3> QED BY <2>3, <3>1
  <2> QED BY <2>4, <2>5, <2>6
<1> HIDE DEF a, b
<1>6. x \in W /\ y \in W /\ FlattenSeq(inbox) = x \o y
  BY <1>4, FlattenIsSeq, FlattenConcat DEF W
<1>7. /\ pc = "io" /\ todo' = todo \ {"FI_MAIN"} /\ buf'["FI_MAIN"] = z \o x
      /\ \A d \in Channel : d \notin {"FI_MAIN", "FO_MAIN"} => buf'[d] = buf[d]
      /\ ~jammed /\ "FO_MAIN" \in fd => buf'["FO_MAIN"] = buf["FO_MAIN"]
      /\ "FI_MAIN" \in rset
  <2>1. Took("FI_MAIN", x)
    BY DEF a
  <2> HIDE DEF x
  <2> QED BY <1>1, <1>6, <2>1, ReadExact DEF W
<1>8. buf'["NO_PAYMENT"] = buf["NO_PAYMENT"]
  BY <1>7, UnreadIs
<1>9. Handed'
  BY <1>1, <1>7 DEF AnswersInv, Handed
<1>10. inbox' = b
  BY DEF b
<1>11. Unread' = Unread
  <2> HIDE DEF x, y, z
  <2>1. (z \o x) \o y = z \o (x \o y)
    <3>1. z \in Seq(Symbol) /\ x \in Seq(Symbol) /\ y \in Seq(Symbol)
      BY <1>2, <1>6 DEF W
    <3> QED BY <3>1, ConcatAssociative, SMTT(30)
  <2>2. Unread = z \o (x \o y)
    BY <1>6 DEF Unread, z
  <2>3. Unread' = (z \o x) \o y
    BY <1>7, <1>10 DEF Unread, y
  <2> QED BY <2>1, <2>2, <2>3
<1>12. ASSUME Uncut PROVE Uncut'
  <2>1. machine = "main" /\ Whole(z) /\ \A i \in 1..n : Whole(inbox[i])
    BY <1>12 DEF Uncut
  <2>2. \A i \in 1..Len(a) : Whole(a[i])
    <3> HIDE DEF n
    <3>1. \A i \in 1..k : i \in 1..n
      BY <1>3
    <3> QED BY <1>5, <2>1, <3>1
  <2>3. \A i \in 1..Len(b) : Whole(b[i])
    <3> HIDE DEF n
    <3>1. \A i \in 1..(n - k) : k + i \in 1..n
      BY <1>3
    <3> QED BY <1>5, <2>1, <3>1
  <2>4. Whole(x)
    BY <1>4, <2>2, WholeFlatten DEF W
  <2>5. Whole(z \o x)
    <3> HIDE DEF x, z
    <3> QED BY <1>2, <1>6, <2>1, <2>4, WholeConcat DEF W
  <2> QED BY <1>1, <1>7, <1>10, <2>1, <2>3, <2>5 DEF Uncut
<1>13. ASSUME Straight
       PROVE  /\ Uncut' /\ Unread' = Unread
              /\ "FO_MAIN" \in fd => buf'["FO_MAIN"] = buf["FO_MAIN"]
  BY <1>7, <1>11, <1>12, <1>13 DEF Straight
<1> QED BY <1>1, <1>8, <1>9, <1>13, Untouched

\* A part of a request is read.
LEMMA MainCutExact ==
  ASSUME EngineInv, AnswersInv, MainRead, NEW n \in Cuts, n < Len(Head(inbox)),
         Took("FI_MAIN", SubSeq(Head(inbox), 1, n)), Irregular
  PROVE  AnswersInv'
<1>1. /\ process = "up" /\ process' = "up" /\ pc' = pc /\ Visits("FI_MAIN") /\ inbox # Nothing
      /\ UNCHANGED <<fd, wset, rset, owes>>
  BY DEF MainRead, Visits, At, Nothing
<1> DEFINE h == Head(inbox)
           x == SubSeq(h, 1, n)
           W == Seq(Symbol)
<1>2. inbox \in Seq(W)
  BY UnreadIs
<1> HIDE DEF W
<1>3. h \in W
  BY <1>1, <1>2, HeadTailProperties DEF Nothing
<1>4. Len(h) \in Nat /\ n \in Nat
  BY <1>3, LenProperties, CutsAssumption DEF W
<1> HIDE DEF h
<1>5. x \in Seq(Symbol)
  <2>1. n \in 0..Len(h)
    BY <1>4 DEF h
  <2> QED BY <1>3, <2>1, CutInTwo DEF W
<1>6. Took("FI_MAIN", x)
  BY DEF h
<1> HIDE DEF x
<1>7. /\ pc = "io" /\ todo' = todo \ {"FI_MAIN"} /\ "FI_MAIN" \in rset
      /\ \A d \in Channel : d \notin {"FI_MAIN", "FO_MAIN"} => buf'[d] = buf[d]
  BY <1>1, <1>5, <1>6, ReadExact
<1>8. buf'["NO_PAYMENT"] = buf["NO_PAYMENT"]
  BY <1>7, UnreadIs
<1>9. Handed'
  BY <1>1, <1>7 DEF AnswersInv, Handed
<1> QED BY <1>1, <1>8, <1>9, Forgotten DEF Irregular

\* What is read of MAIN.
LEMMA MainExact == ASSUME EngineInv, AnswersInv, MainRead PROVE AnswersInv'
<1>1. CASE \E k \in 1..Len(inbox) :
             /\ Took("FI_MAIN", FlattenSeq(SubSeq(inbox, 1, k)))
             /\ inbox' = SubSeq(inbox, k + 1, Len(inbox))
             /\ UNCHANGED history
  BY <1>1, MainWholeExact
<1>2. CASE \E n \in Cuts :
             /\ n < Len(Head(inbox))
             /\ Took("FI_MAIN", SubSeq(Head(inbox), 1, n))
             /\ Irregular
  BY <1>2, MainCutExact
<1> QED BY <1>1, <1>2 DEF MainRead

\* The connection is closed; from then on there is only the payment channel.
LEMMA MainEndsExact == ASSUME EngineInv, AnswersInv, MainEnds PROVE AnswersInv'
<1>1. /\ process = "up" /\ process' = "up" /\ pc = "io" /\ pc' = "io" /\ todo' = todo \ {"FI_MAIN"}
      /\ fd' = fd \ {"FO_MAIN", "FI_MAIN"} /\ rset' = rset \ {"FI_MAIN"}
      /\ UNCHANGED <<buf, wset, machine, inbox, owes, due, unpaid, astray, regular, jammed>>
  BY DEF MainEnds, close_main_channel, Visits, At, world, history
<1>2. wset = {} /\ rset \subseteq Inputs /\ "FO_MAIN" \notin Inputs
  <2>1. "FI_MAIN" \in Inputs /\ Visits("FI_MAIN")
    BY DEF Inputs, MainEnds
  <2>2. wset = {}
    BY <2>1, InputVisited
  <2> QED BY <2>2 DEF EngineInv, Base, Inner, Inputs
<1>3. Handed'
  BY <1>1, <1>2 DEF AnswersInv, Handed
<1> QED BY <1>1, <1>3, Unmoved

\* On to the handlers.
LEMMA DoneExact == ASSUME EngineInv, AnswersInv, IoDone PROVE AnswersInv'
<1>1. /\ process = "up" /\ process' = "up" /\ pc = "io" /\ pc' = "process" /\ todo' = rset
      /\ UNCHANGED <<fd, buf, rset, machine, inbox, owes, due, unpaid, astray, regular, jammed>>
  BY DEF IoDone, At, world, history
<1>2. Handed'
  BY <1>1 DEF AnswersInv, Handed
<1> QED BY <1>1, <1>2, Unmoved

\* Whatever perform_pending_io does.
LEMMA PendingExact ==
  ASSUME EngineInv, AnswersInv, Typing, PerformPendingIo
  PROVE  AnswersInv' \/ Doomed'
<1>1. CASE \E c \in Outputs : PendingWrite(c)
  BY <1>1, WriteExact
<1>2. CASE (\E c \in Outputs : WritesNothing(c) \/ WritesBeyond(c)) \/ ArmsTwice
  <2>1. Ends("empty write") \/ Ends("no room") \/ Ends("duplicate alarm")
    BY <1>2 DEF WritesNothing, WritesBeyond, ArmsTwice
  <2> QED BY <2>1, Stopped
<1>3. CASE ReadSignals
  BY <1>3, SignalsExact
<1>4. CASE ConsoleCloses
  BY <1>4, ConsoleClosesExact
<1>5. CASE \E c \in {"CO_MASTER", "CI_MASTER"} : ConsoleRead(c)
  BY <1>5, ConsoleInExact, ConsoleOutExact
<1>6. CASE MainRead
  BY <1>6, MainExact
<1>7. CASE MainEnds
  BY <1>7, MainEndsExact
<1>8. CASE IoDone
  BY <1>8, DoneExact
<1>9. CASE OutputRead
  <2>1. process' # "up" /\ UNCHANGED <<io, world, history>>
    BY <1>9 DEF OutputRead, Ends
  <2>2. UNCHANGED <<fd, buf, owes, due, unpaid, astray, regular>>
    BY <2>1 DEF io, world, history
  <2> QED BY <2>1, <2>2 DEF AnswersInv, Silent
<1> QED BY <1>1, <1>2, <1>3, <1>4, <1>5, <1>6, <1>7, <1>8, <1>9 DEF PerformPendingIo

-----------------------------------------------------------------------------
(* The handlers *)

\* A console may be opened, and the connection be closed.
LEMMA SignalExact == ASSUME EngineInv, AnswersInv, process_signal PROVE AnswersInv'
<1> DEFINE m == IF Interrupted THEN Append(buf["CO_MASTER"], "prompt") ELSE buf["CO_MASTER"]
           closes == "FO_MAIN" \in fd /\ Alarm = "timer_ping"
<1>1. /\ process = "up" /\ pc = "process" /\ pc' = "process" /\ todo' = todo \ {"II_SIGNAL"}
      /\ buf' = [buf EXCEPT !["II_SIGNAL"] = Nothing, !["CO_MASTER"] = m]
      /\ fd' = (fd \cup Opened) \ (IF closes THEN {"FO_MAIN", "FI_MAIN"} ELSE {})
      /\ UNCHANGED <<machine, inbox, owes, due, unpaid, astray, regular, jammed>>
  BY DEF process_signal, Handles, At, world, history, Nothing
<1> HIDE DEF m, closes
<1>2. /\ buf'["FO_MAIN"] = buf["FO_MAIN"] /\ buf'["FI_MAIN"] = buf["FI_MAIN"]
      /\ buf'["NO_PAYMENT"] = buf["NO_PAYMENT"]
  BY <1>1, UnreadIs
<1>3. /\ "FO_MAIN" \in fd' => "FO_MAIN" \in fd
      /\ "FI_MAIN" \in fd' => "FI_MAIN" \in fd
      /\ "NO_PAYMENT" \in fd => "NO_PAYMENT" \in fd'
  BY <1>1 DEF Opened
<1>4. Handed'
  BY <1>1, <1>2, <1>3 DEF AnswersInv, Handed
<1> QED BY <1>1, <1>2, <1>3, <1>4, Unmoved

\* The console gets its prompt.
LEMMA MasterExact == ASSUME EngineInv, AnswersInv, process_master PROVE AnswersInv'
<1>1. /\ process = "up" /\ pc = "process" /\ pc' = "process"
      /\ todo' = todo \ {"CI_MASTER"} /\ buf' = [buf EXCEPT !["CO_MASTER"] = @ \o <<"prompt">>]
      /\ UNCHANGED <<fd, machine, inbox, owes, due, unpaid, astray, regular, jammed>>
  BY DEF process_master, Handles, At, Put, world, history
<1>2. /\ buf'["FO_MAIN"] = buf["FO_MAIN"] /\ buf'["FI_MAIN"] = buf["FI_MAIN"]
      /\ buf'["NO_PAYMENT"] = buf["NO_PAYMENT"]
  BY <1>1, UnreadIs
<1>3. Handed'
  BY <1>1, <1>2 DEF AnswersInv, Handed
<1> QED BY <1>1, <1>2, <1>3, Unmoved

\* What is appended on MAIN, and to the payment channel, is what r calls for.
Covers(add, pay, r) ==
  /\ add \in Seq(Symbol) /\ pay \in Seq(Symbol) /\ r \in Seq(Symbol)
  /\ Keep(pay, Said) = Nothing
  /\ Keep(add, Said) = Keep(r, Said) /\ Owed(add) + Owed(pay) = Owed(r)

\* What was called for first is appended, and its bytes are gone.
LEMMA TakenExact ==
  ASSUME EngineInv, AnswersInv, process = "up", "FO_MAIN" \in fd, Handed',
         UNCHANGED <<fd, inbox, owes, due, unpaid, astray, regular, jammed>>,
         NEW add, NEW pay, NEW r, Covers(add, pay, r), pay # Nothing => "NO_PAYMENT" \in fd,
         buf'["FO_MAIN"] = buf["FO_MAIN"] \o add, buf'["NO_PAYMENT"] = buf["NO_PAYMENT"] \o pay,
         Uncut => /\ machine' = "main" /\ Whole(buf'["FI_MAIN"]) /\ Unread' \in Seq(Symbol)
                  /\ Beyond(CalledFor(Unread), CalledFor(Unread'), r)
  PROVE  AnswersInv'
<1> DEFINE out == buf["FO_MAIN"]
           np == buf["NO_PAYMENT"]
           m == CalledFor(Unread)
           k == CalledFor(Unread')
<1>1. out \in Seq(Symbol) /\ np \in Seq(Symbol) /\ m \in Hearing
  BY UnreadIs
<1>2. /\ add \in Seq(Symbol) /\ pay \in Seq(Symbol) /\ r \in Seq(Symbol)
      /\ Keep(pay, Said) = Nothing
      /\ Keep(add, Said) = Keep(r, Said) /\ Owed(add) + Owed(pay) = Owed(r)
  BY DEF Covers
<1>3. Silent'
  <2>1. Silent
    BY DEF AnswersInv
  <2>2. Keep(np \o pay, Said) = Nothing
    <3> DEFINE e == Nothing
    <3>1. Keep(np \o pay, Said) = Keep(np, Said) \o Keep(pay, Said)
      BY <1>1, <1>2, KeptOfBoth
    <3>2. e \o e = e
      BY ShortSeqs, ConcatEmptySeq DEF Nothing
    <3> QED BY <1>2, <2>1, <3>1, <3>2 DEF Silent
  <2>3. np \o pay # Nothing => np # Nothing \/ pay # Nothing
    <3> HIDE DEF np
    <3> QED BY <1>1, <1>2, ConcatEqualIffEmpty DEF Nothing
  <2> QED BY <2>1, <2>2, <2>3 DEF Silent
<1>4. ASSUME regular PROVE Straight'
  <2>1. ~jammed /\ Uncut /\ Sums
    BY <1>4 DEF AnswersInv, Straight
  <2>2. Uncut'
    BY <2>1 DEF Uncut
  <2>3. k \in Hearing /\ Beyond(m, k, r)
    BY <2>1, CalledTyped
  <2>4. Balance(out, np, m, due, unpaid)
    BY <2>1 DEF Sums
  <2>5. Balance(out \o add, np \o pay, k, due, unpaid)
    <3> HIDE DEF out, np, m, k
    <3> QED BY <1>1, <1>2, <2>3, <2>4, BalanceMoves
  <2>6. Sums'
    BY <2>5 DEF Sums
  <2> QED BY <2>1, <2>2, <2>6 DEF Straight
<1> QED BY <1>3, <1>4 DEF AnswersInv

\* What process_main does of its own besides, whatever it finds.
InPlace ==
  /\ UNCHANGED <<fd, pc, todo, process, inbox, owes>>
  /\ machine' = "main"

\* process_main stays where it is while it finds frames.
LEMMA InMainHanded ==
  ASSUME EngineInv, AnswersInv, InMain, UNCHANGED <<fd, pc, todo>>
  PROVE  Handed'
<1>1. process = "up" /\ pc = "process"
  BY InMainIs
<1>2. "FI_MAIN" \in todo
  BY <1>1, Handled DEF InMain, At
<1> QED BY <1>1, <1>2 DEF Handed

\* A frame that is found is taken, and what it calls for is appended.
LEMMA FrameExact ==
  ASSUME EngineInv, AnswersInv, InMain, InPlace,
         UNCHANGED <<due, unpaid, astray, regular, jammed>>,
         NEW f, f = frob_frame_process(machine, buf["FI_MAIN"]), f.e # "EAGAIN",
         NEW add, NEW pay, Covers(add, pay, Told(buf["FI_MAIN"], f)),
         pay # Nothing => "NO_PAYMENT" \in fd,
         buf' = [buf EXCEPT !["FI_MAIN"] = fnext(f), !["FO_MAIN"] = @ \o add, !["NO_PAYMENT"] = @ \o pay]
  PROVE  AnswersInv'
<1>1. process = "up" /\ "FO_MAIN" \in fd /\ Handed'
  BY InMainIs, InMainHanded DEF InPlace
<1>2. /\ UNCHANGED <<fd, pc, todo, process, inbox, owes>> /\ machine' = "main"
  BY DEF InPlace
<1>3. /\ buf'["FI_MAIN"] = fnext(f) /\ buf'["FO_MAIN"] = buf["FO_MAIN"] \o add
      /\ buf'["NO_PAYMENT"] = buf["NO_PAYMENT"] \o pay
  BY UnreadIs
<1> DEFINE b == buf["FI_MAIN"]
           t == FlattenSeq(inbox)
           c == Behind(b, f)
           r == Told(b, f)
<1>4. b \in Seq(Symbol) /\ t \in Seq(Symbol)
  BY UnreadIs
<1>5. ASSUME Uncut
      PROVE  /\ Whole(buf'["FI_MAIN"]) /\ Unread' \in Seq(Symbol)
             /\ Beyond(CalledFor(Unread), CalledFor(Unread'), r)
  <2>1. Whole(b) /\ f = frob_frame_process("main", b)
    BY <1>5 DEF Uncut
  <2>2. fnext(f) = c /\ Unread = b \o t
    BY DEF fnext, Unread
  <2>3. Unread' = c \o t
    BY <1>2, <1>3, <2>2 DEF Unread
  <2>4. c \in Seq(Symbol) /\ Whole(c) /\ Beyond(CalledFor(b \o t), CalledFor(c \o t), r)
    <3> HIDE DEF b, t
    <3> QED BY <1>4, <2>1, FirstOfMore
  <2>5. c \o t \in Seq(Symbol)
    <3> HIDE DEF c, t
    <3> QED BY <1>4, <2>4, ConcatProperties
  <2> HIDE DEF b, t, c, r
  <2> QED BY <1>3, <2>2, <2>3, <2>4, <2>5
<1> HIDE DEF b, t, c
<1>6. Covers(add, pay, r)
  BY DEF b
<1> HIDE DEF r
<1> QED BY <1>1, <1>2, <1>3, <1>5, <1>6, TakenExact

\* What a message calls for, by its type.
LEMMA CallIs ==
  ASSUME NEW text
  PROVE  LET type == Parsed(text)
         IN  /\ type \in DOMAIN Response /\ Response[type] # "" =>
                  Call(text) = <<"ACK", Response[type]>>
             /\ type \in DOMAIN Response /\ Response[type] = "" => Call(text) = <<"ACK">>
             /\ type = "none" => Call(text) = <<"ACK">>
             /\ Destination(type) = "NO_PAYMENT" => Call(text) = <<"ACK", "S1">>
<1> DEFINE type == Parsed(text)
<1>1. DOMAIN Response = {"T1", "T3", "T4", "D4", "B1", "T2", "T5"}
  BY DEF Response
<1>2. Call(text) = (CASE type \in DOMAIN Response /\ Response[type] # "" -> <<"ACK", Response[type]>>
                      [] type = "S1" -> <<"ACK", "S1">>
                      [] OTHER -> <<"ACK">>)
  BY DEF Call
<1>3. Destination(type) = "NO_PAYMENT" => type = "S1"
  BY DEF Destination
<1> HIDE DEF type
<1>4. type = "S1" => type \notin DOMAIN Response
  BY <1>1
<1>5. type = "none" => type \notin DOMAIN Response
  BY <1>1
<1>6. type \in DOMAIN Response => type # "S1"
  BY <1>4
<1>7. /\ type \in DOMAIN Response /\ Response[type] # "" => Call(text) = <<"ACK", Response[type]>>
      /\ type \in DOMAIN Response /\ Response[type] = "" => Call(text) = <<"ACK">>
  BY <1>2, <1>6
<1>8. type = "none" => Call(text) = <<"ACK">>
  BY <1>2, <1>5
<1>9. type = "S1" => Call(text) = <<"ACK", "S1">>
  BY <1>2, <1>4
<1> QED BY <1>3, <1>7, <1>8, <1>9 DEF type

\* Acknowledge and answer are what is called for; so is S2 for an S1, and an S1 handed over.
LEMMA CoversAre ==
  /\ \A x \in {"ACK", "NAK"} : Covers(<<x>>, Nothing, <<x>>)
  /\ Covers(Nothing, Nothing, Nothing)
  /\ \A x \in {"T2", "T4", "T5", "D5", "B2"} :
       Covers(<<"ACK">> \o Message(x), Nothing, <<"ACK", x>>)
  /\ Covers(<<"ACK">> \o Message("S2"), Nothing, <<"ACK", "S1">>)
  /\ Covers(<<"ACK">>, Message("S1"), <<"ACK", "S1">>)
<1> DEFINE e == Nothing
           a == <<"ACK">>
           SX == {"T2", "T4", "T5", "D5", "B2"}
<1>1. {"ACK", "NAK", "stx", "S1", "S2"} \cup SX \subseteq Symbol
  <2>1. SX \subseteq Symbol
    BY SaidAre DEF Answered
  <2> QED BY <2>1, SymbolsAre
<1>2. e \in Seq(Symbol) /\ Keep(e, Said) = e /\ Owed(e) = 0
  BY NothingKept, ShortSeqs DEF Nothing
<1>3. ASSUME NEW x \in Symbol
      PROVE  /\ <<x>> \in Seq(Symbol)
             /\ x \in Said => Keep(<<x>>, Said) = <<x>>
             /\ x \notin Said => Keep(<<x>>, Said) = e
             /\ x \in Payments => Owed(<<x>>) = 1
             /\ x \notin Payments => Owed(<<x>>) = 0
  <2>1. /\ Keep(<<x>>, Said) = IF x \in Said THEN <<x>> ELSE <<>>
        /\ Keep(<<x>>, Payments) = IF x \in Payments THEN <<x>> ELSE <<>>
    BY KeepFew
  <2> QED BY <2>1, ShortSeqs DEF Owed, Nothing
<1>4. \A s, t \in Seq(Symbol) : /\ Keep(s \o t, Said) = Keep(s, Said) \o Keep(t, Said)
                               /\ Owed(s \o t) = Owed(s) + Owed(t) /\ s \o t \in Seq(Symbol)
  BY KeptOfBoth, ConcatProperties
<1>5. ASSUME NEW x \in Symbol, NEW y \in Symbol
      PROVE  /\ <<x, y>> \in Seq(Symbol)
             /\ Keep(<<x, y>>, Said) = Keep(<<x>>, Said) \o Keep(<<y>>, Said)
             /\ Owed(<<x, y>>) = Owed(<<x>>) + Owed(<<y>>)
  <2>1. <<x, y>> = <<x>> \o <<y>>
    BY OneThenMore
  <2> QED BY <1>3, <1>4, <2>1, ZenonT(30)
<1>6. ASSUME NEW x \in Symbol
      PROVE  <<x>> \o e = <<x>> /\ e \o <<x>> = <<x>> /\ e \o e = e
  BY <1>2, <1>3, ConcatEmptySeq DEF Nothing
<1> HIDE DEF e
<1>7. ASSUME NEW x \in {"ACK", "NAK"} PROVE Covers(<<x>>, e, <<x>>)
  <2>1. x \in Symbol /\ x \notin Payments
    BY <1>1, SaidWhat
  <2> QED BY <1>2, <1>3, <2>1 DEF Covers, e
<1>8. Covers(e, e, e)
  BY <1>2 DEF Covers, e
<1>9. /\ Keep(a, Said) = a /\ Owed(a) = 0 /\ a \in Seq(Symbol)
      /\ Keep(<<"stx">>, Said) = e /\ Owed(<<"stx">>) = 0
      /\ Keep(<<"S1">>, Said) = e /\ Owed(<<"S1">>) = 1
      /\ Keep(<<"S2">>, Said) = e /\ Owed(<<"S2">>) = 1
  <2>1. /\ "ACK" \in Said /\ "stx" \notin Said /\ "S1" \notin Said /\ "S2" \notin Said
        /\ "ACK" \notin Payments /\ "stx" \notin Payments /\ "S1" \in Payments /\ "S2" \in Payments
    BY SaidWhat
  <2> QED BY <1>1, <1>3, <2>1
<1> HIDE DEF a
<1>10. ASSUME NEW x \in Symbol
       PROVE  /\ Message(x) \in Seq(Symbol) /\ a \o Message(x) \in Seq(Symbol)
              /\ Keep(Message(x), Said) = e \o Keep(<<x>>, Said)
              /\ Owed(Message(x)) = Owed(<<"stx">>) + Owed(<<x>>)
              /\ Keep(a \o Message(x), Said) = a \o (e \o Keep(<<x>>, Said))
              /\ Owed(a \o Message(x)) = Owed(a) + (Owed(<<"stx">>) + Owed(<<x>>))
              /\ <<"ACK", x>> \in Seq(Symbol)
              /\ Keep(<<"ACK", x>>, Said) = a \o Keep(<<x>>, Said)
              /\ Owed(<<"ACK", x>>) = Owed(a) + Owed(<<x>>)
  <2>1. /\ Message(x) \in Seq(Symbol) /\ Keep(Message(x), Said) = e \o Keep(<<x>>, Said)
        /\ Owed(Message(x)) = Owed(<<"stx">>) + Owed(<<x>>)
    <3>1. "stx" \in Symbol
      BY <1>1
    <3>2. /\ <<"stx", x>> \in Seq(Symbol)
          /\ Keep(<<"stx", x>>, Said) = Keep(<<"stx">>, Said) \o Keep(<<x>>, Said)
          /\ Owed(<<"stx", x>>) = Owed(<<"stx">>) + Owed(<<x>>)
      BY <1>5, <3>1
    <3> QED BY <1>9, <3>2 DEF Message
  <2>2. /\ a \o Message(x) \in Seq(Symbol)
        /\ Keep(a \o Message(x), Said) = a \o (e \o Keep(<<x>>, Said))
        /\ Owed(a \o Message(x)) = Owed(a) + (Owed(<<"stx">>) + Owed(<<x>>))
    <3>1. a \in Seq(Symbol) /\ Message(x) \in Seq(Symbol)
      BY <1>9, <2>1
    <3>2. /\ a \o Message(x) \in Seq(Symbol)
          /\ Keep(a \o Message(x), Said) = Keep(a, Said) \o Keep(Message(x), Said)
          /\ Owed(a \o Message(x)) = Owed(a) + Owed(Message(x))
      BY <1>4, <3>1
    <3> QED BY <1>9, <2>1, <3>2
  <2>3. /\ <<"ACK", x>> \in Seq(Symbol) /\ Keep(<<"ACK", x>>, Said) = a \o Keep(<<x>>, Said)
        /\ Owed(<<"ACK", x>>) = Owed(a) + Owed(<<x>>)
    <3>1. "ACK" \in Symbol
      BY <1>1
    <3>2. /\ <<"ACK", x>> \in Seq(Symbol)
          /\ Keep(<<"ACK", x>>, Said) = Keep(<<"ACK">>, Said) \o Keep(<<x>>, Said)
          /\ Owed(<<"ACK", x>>) = Owed(<<"ACK">>) + Owed(<<x>>)
      BY <1>5, <3>1
    <3> QED BY <1>9, <3>2 DEF a
  <2> QED BY <2>1, <2>2, <2>3
<1>11. ASSUME NEW x \in SX PROVE Covers(a \o Message(x), e, <<"ACK", x>>)
  <2>1. x \in Symbol /\ x \in Said /\ x \notin Payments
    BY <1>1, SaidWhat
  <2>2. Keep(<<x>>, Said) = <<x>> /\ Owed(<<x>>) = 0 /\ e \o <<x>> = <<x>>
    BY <1>3, <1>6, <2>1
  <2>3. Keep(a \o Message(x), Said) = Keep(<<"ACK", x>>, Said)
    BY <1>10, <2>1, <2>2
  <2>4. Owed(a \o Message(x)) = 0 /\ Owed(<<"ACK", x>>) = 0
    <3>1. Owed(a) = 0 /\ Owed(<<"stx">>) = 0 /\ Owed(<<x>>) = 0
      BY <1>9, <2>2
    <3>2. /\ Owed(a \o Message(x)) = Owed(a) + (Owed(<<"stx">>) + Owed(<<x>>))
          /\ Owed(<<"ACK", x>>) = Owed(a) + Owed(<<x>>)
      BY <1>10, <2>1
    <3> QED BY <3>1, <3>2
  <2>5. a \o Message(x) \in Seq(Symbol) /\ <<"ACK", x>> \in Seq(Symbol)
    BY <1>10, <2>1
  <2> QED BY <1>2, <2>3, <2>4, <2>5 DEF Covers, e
<1>12. /\ "S1" \in Symbol /\ "S2" \in Symbol /\ e \o e = e
  BY <1>1, <1>6
<1>13. Covers(a \o Message("S2"), e, <<"ACK", "S1">>)
  <2>1. Keep(a \o Message("S2"), Said) = Keep(<<"ACK", "S1">>, Said)
    BY <1>9, <1>10, <1>12
  <2>2. Owed(a \o Message("S2")) = 1 /\ Owed(<<"ACK", "S1">>) = 1
    <3>1. /\ Owed(a) = 0 /\ Owed(<<"stx">>) = 0
          /\ Owed(<<"S1">>) = 1 /\ Owed(<<"S2">>) = 1
      BY <1>9
    <3>2. /\ Owed(a \o Message("S2")) = Owed(a) + (Owed(<<"stx">>) + Owed(<<"S2">>))
          /\ Owed(<<"ACK", "S1">>) = Owed(a) + Owed(<<"S1">>)
      BY <1>10, <1>12
    <3> QED BY <3>1, <3>2
  <2>3. a \o Message("S2") \in Seq(Symbol) /\ <<"ACK", "S1">> \in Seq(Symbol)
    BY <1>10, <1>12
  <2> QED BY <1>2, <2>1, <2>2, <2>3 DEF Covers, e
<1>14. Covers(a, Message("S1"), <<"ACK", "S1">>)
  <2>1. Keep(<<"ACK", "S1">>, Said) = a /\ Keep(Message("S1"), Said) = e
    <3>1. a \o e = a
      BY <1>1, <1>6 DEF a
    <3>2. Keep(<<"ACK", "S1">>, Said) = a \o e
      BY <1>9, <1>10, <1>12
    <3>3. Keep(Message("S1"), Said) = e \o e
      BY <1>9, <1>10, <1>12
    <3> QED BY <1>12, <3>1, <3>2, <3>3
  <2>2. Owed(Message("S1")) = 1 /\ Owed(<<"ACK", "S1">>) = 1
    <3>1. Owed(a) = 0 /\ Owed(<<"stx">>) = 0 /\ Owed(<<"S1">>) = 1
      BY <1>9
    <3>2. /\ Owed(Message("S1")) = Owed(<<"stx">>) + Owed(<<"S1">>)
          /\ Owed(<<"ACK", "S1">>) = Owed(a) + Owed(<<"S1">>)
      BY <1>10, <1>12
    <3> QED BY <3>1, <3>2
  <2>3. Message("S1") \in Seq(Symbol) /\ <<"ACK", "S1">> \in Seq(Symbol)
    BY <1>10, <1>12
  <2> QED BY <1>9, <2>1, <2>2, <2>3 DEF Covers, e
<1> QED BY <1>7, <1>8, <1>11, <1>13, <1>14 DEF a, e

\* Nothing more is said, or said about it, because there was no room for it.
LEMMA SkippedExact ==
  ASSUME EngineInv, AnswersInv, InMain, InPlace, Irregular,
         NEW u, NEW v,
         buf' = [buf EXCEPT !["FI_MAIN"] = u, !["FO_MAIN"] = v]
  PROVE  AnswersInv'
<1>1. process = "up" /\ Handed'
  BY InMainIs, InMainHanded DEF InPlace
<1>2. buf'["NO_PAYMENT"] = buf["NO_PAYMENT"]
  BY UnreadIs
<1> QED BY <1>1, <1>2, Forgotten DEF InPlace, Irregular

\* What is appended is appended on MAIN only.
LEMMA TakesExact ==
  ASSUME EngineInv, AnswersInv, InMain, InPlace,
         UNCHANGED <<due, unpaid, astray, regular, jammed>>,
         NEW f, f = frob_frame_process(machine, buf["FI_MAIN"]), f.e # "EAGAIN",
         NEW add, Covers(add, Nothing, Told(buf["FI_MAIN"], f)), Takes(f, add)
  PROVE  AnswersInv'
<1>1. buf' = [buf EXCEPT !["FI_MAIN"] = fnext(f), !["FO_MAIN"] = @ \o add]
  BY DEF Takes
<1>2. /\ {"FI_MAIN", "FO_MAIN", "NO_PAYMENT"} \subseteq Channel
      /\ buf \in [Channel -> Seq(Symbol)]
  BY UnreadIs
<1>3. buf["NO_PAYMENT"] \o Nothing = buf["NO_PAYMENT"]
  BY <1>2, ConcatEmptySeq DEF Nothing
<1>4. buf' = [buf EXCEPT !["FI_MAIN"] = fnext(f), !["FO_MAIN"] = @ \o add, !["NO_PAYMENT"] = @ \o Nothing]
  BY <1>1, <1>2, <1>3
<1> QED BY <1>4, FrameExact

\* A frame that is spoilt, or that no machine takes, is acknowledged.
LEMMA RefusedExact ==
  ASSUME EngineInv, AnswersInv, InMain, NEW f, f = frob_frame_process(machine, buf["FI_MAIN"]),
         BadLrc(f) \/ BadParse(f)
  PROVE  AnswersInv'
<1>1. InPlace /\ UNCHANGED <<due, unpaid, astray, regular, jammed>> /\ f.e # "EAGAIN"
  BY DEF BadLrc, BadParse, Takes, Renewed, Good, InPlace, round, world, history
<1>2. CASE BadLrc(f)
  <2>1. Takes(f, <<"NAK">>) /\ Told(buf["FI_MAIN"], f) = <<"NAK">>
    BY <1>2 DEF BadLrc, Told
  <2>2. Covers(<<"NAK">>, Nothing, <<"NAK">>)
    BY CoversAre
  <2> QED BY <1>1, <2>1, <2>2, TakesExact
<1>3. CASE BadParse(f)
  <2>1. /\ Takes(f, <<"ACK">>) /\ f.e = "found"
        /\ Parsed(Inside(buf["FI_MAIN"], f)) = "none"
    BY <1>3 DEF BadParse, Good, Type, Text
  <2>2. Told(buf["FI_MAIN"], f) = <<"ACK">>
    BY <2>1, CallIs DEF Told
  <2>3. Covers(<<"ACK">>, Nothing, <<"ACK">>)
    BY CoversAre
  <2> QED BY <1>1, <2>1, <2>2, <2>3, TakesExact
<1> QED BY <1>2, <1>3

\* A T2 is acknowledged.
LEMMA PongExact ==
  ASSUME EngineInv, AnswersInv, InMain, NEW f, f = frob_frame_process(machine, buf["FI_MAIN"]), Pong(f)
  PROVE  AnswersInv'
<1>1. InPlace /\ UNCHANGED <<due, unpaid, astray, regular, jammed>> /\ f.e # "EAGAIN"
  BY DEF Pong, Takes, Renewed, Good, InPlace, round, world, history
<1>2. /\ Takes(f, <<"ACK">>) /\ f.e = "found"
      /\ Parsed(Inside(buf["FI_MAIN"], f)) = "T2"
  BY DEF Pong, Good, Type, Text
<1>3. "T2" \in DOMAIN Response /\ Response["T2"] = ""
  BY DEF Response
<1>4. Told(buf["FI_MAIN"], f) = <<"ACK">>
  BY <1>2, <1>3, CallIs DEF Told
<1>5. Covers(<<"ACK">>, Nothing, <<"ACK">>)
  BY CoversAre
<1> QED BY <1>1, <1>2, <1>4, <1>5, TakesExact

\* What has an answer is answered, if there is room.
LEMMA RespondsExact ==
  ASSUME EngineInv, AnswersInv, InMain, NEW f, f = frob_frame_process(machine, buf["FI_MAIN"]), Responds(f)
  PROVE  AnswersInv'
<1> DEFINE type == Type(f)
           r == Response[type]
           answer == Answer(f)
           R == Told(buf["FI_MAIN"], f)
<1>1. /\ UNCHANGED <<fd, pc, todo, process, inbox, owes>> /\ f.e = "found"
      /\ type \in DOMAIN Response
      /\ answer = IF r = "" THEN <<>> ELSE Message(r)
  BY DEF Responds, Local, Good, Answer, round, world
<1>2. \/ Irregular /\ \E v : Takes(f, v)
      \/ Takes(f, <<"ACK">>) /\ UNCHANGED history /\ answer = <<>>
      \/ Takes(f, <<"ACK">> \o answer) /\ UNCHANGED history /\ answer # <<>>
  <2>1. IF answer = <<>> \/ Skipped(answer)
          THEN /\ Takes(f, <<"ACK">>)
               /\ IF answer = <<>> THEN UNCHANGED history ELSE Irregular
          ELSE /\ Takes(f, <<"ACK">> \o (IF Spare = 0 THEN <<>> ELSE answer))
               /\ IF Spare = 0 THEN Irregular ELSE UNCHANGED history
    BY DEF Responds
  <2> HIDE DEF answer
  <2>2. CASE answer = <<>>
    BY <2>1, <2>2
  <2>3. CASE answer # <<>> /\ Skipped(answer)
    BY <2>1, <2>3
  <2>4. CASE answer # <<>> /\ ~Skipped(answer) /\ Spare = 0
    BY <2>1, <2>4
  <2>5. CASE answer # <<>> /\ ~Skipped(answer) /\ Spare # 0
    BY <2>1, <2>5
  <2> QED BY <2>2, <2>3, <2>4, <2>5
<1> HIDE DEF answer
<1>3. InPlace
  <2>1. machine' = "main"
    BY <1>2, Zenon DEF Takes, Renewed
  <2> QED BY <1>1, <2>1 DEF InPlace
<1>4. type = Parsed(Inside(buf["FI_MAIN"], f)) /\ R = Call(Inside(buf["FI_MAIN"], f))
  BY <1>1 DEF Type, Text, Told
<1>5. /\ r # "" => R = <<"ACK", r>>
      /\ r = "" => R = <<"ACK">>
  BY <1>1, <1>4, CallIs
<1>6. CASE Irregular /\ \E v : Takes(f, v)
  <2>1. PICK v : buf' = [buf EXCEPT !["FI_MAIN"] = fnext(f), !["FO_MAIN"] = @ \o v]
    BY <1>6 DEF Takes
  <2> QED BY <1>3, <1>6, <2>1, SkippedExact
<1>7. CASE Takes(f, <<"ACK">>) /\ UNCHANGED history /\ answer = <<>>
  <2>1. r = ""
    <3>1. CASE r # ""
      <4>1. <<"stx", r>> = <<>>
        BY <1>1, <1>7, <3>1 DEF Message
      <4> QED BY <4>1
    <3> QED BY <3>1
  <2>2. R = <<"ACK">>
    BY <1>5, <2>1
  <2>3. Covers(<<"ACK">>, Nothing, R)
    BY <2>2, CoversAre
  <2>4. UNCHANGED <<due, unpaid, astray, regular, jammed>>
    BY <1>7 DEF history
  <2> HIDE DEF r, type
  <2> QED BY <1>1, <1>3, <1>7, <2>3, <2>4, TakesExact
<1>8. CASE Takes(f, <<"ACK">> \o answer) /\ UNCHANGED history /\ answer # <<>>
  <2>1. r # "" /\ answer = Message(r)
    BY <1>1, <1>8
  <2>2. R = <<"ACK", r>>
    BY <1>5, <2>1
  <2>3. r \in {"T2", "T4", "T5", "D5", "B2"}
    <3>1. /\ DOMAIN Response = {"T1", "T3", "T4", "D4", "B1", "T2", "T5"}
          /\ Response["T1"] = "T2" /\ Response["T3"] = "T4" /\ Response["T4"] = "T5"
          /\ Response["D4"] = "D5" /\ Response["B1"] = "B2"
          /\ Response["T2"] = "" /\ Response["T5"] = ""
      BY DEF Response
    <3> HIDE DEF type
    <3> QED BY <1>1, <2>1, <3>1
  <2>4. Covers(<<"ACK">> \o answer, Nothing, R)
    <3> HIDE DEF r
    <3> QED BY <2>1, <2>2, <2>3, CoversAre
  <2>5. UNCHANGED <<due, unpaid, astray, regular, jammed>>
    BY <1>8 DEF history
  <2> HIDE DEF r, type
  <2> QED BY <1>1, <1>3, <1>8, <2>4, <2>5, TakesExact
<1> QED BY <1>2, <1>6, <1>7, <1>8

\* An S1 is handed over.
LEMMA ForwardsExact ==
  ASSUME EngineInv, AnswersInv, InMain, NEW f, f = frob_frame_process(machine, buf["FI_MAIN"]), Forwards(f)
  PROVE  AnswersInv'
<1> DEFINE skipped == 2 >= Free("NO_PAYMENT")
           b == buf["FO_MAIN"]
<1>1. /\ UNCHANGED <<fd, pc, todo, process, inbox, owes>> /\ f.e = "found"
      /\ machine' = "main" /\ "NO_PAYMENT" \in fd /\ Destination(Type(f)) = "NO_PAYMENT"
      /\ buf' = [buf EXCEPT !["FI_MAIN"] = fnext(f), !["FO_MAIN"] = Append(@, "ACK"),
                            !["NO_PAYMENT"] = IF skipped THEN @ ELSE @ \o Message("S1")]
      /\ IF skipped THEN Irregular ELSE UNCHANGED history
  BY DEF Forwards, Good, Renewed, round, world
<1>2. InPlace
  BY <1>1 DEF InPlace
<1>3. /\ {"FI_MAIN", "FO_MAIN", "NO_PAYMENT"} \subseteq Channel
      /\ buf \in [Channel -> Seq(Symbol)] /\ b \in Seq(Symbol) /\ "ACK" \in Symbol
  BY UnreadIs, SymbolsAre
<1>4. Append(b, "ACK") = b \o <<"ACK">>
  <2> HIDE DEF b
  <2> QED BY <1>3, AppendIsConcat
<1>5. CASE skipped
  <2>1. buf' = [buf EXCEPT !["FI_MAIN"] = fnext(f), !["FO_MAIN"] = Append(@, "ACK")]
    BY <1>1, <1>3, <1>5
  <2>2. Irregular
    BY <1>1, <1>5
  <2> QED BY <1>2, <2>1, <2>2, SkippedExact
<1>6. CASE ~skipped
  <2>1. buf' = [buf EXCEPT !["FI_MAIN"] = fnext(f), !["FO_MAIN"] = @ \o <<"ACK">>,
                           !["NO_PAYMENT"] = @ \o Message("S1")]
    BY <1>1, <1>3, <1>4, <1>6
  <2>2. UNCHANGED <<due, unpaid, astray, regular, jammed>>
    BY <1>1, <1>6 DEF history
  <2>3. Told(buf["FI_MAIN"], f) = <<"ACK", "S1">>
    BY <1>1, CallIs DEF Told, Type, Text
  <2>4. Covers(<<"ACK">>, Message("S1"), Told(buf["FI_MAIN"], f))
    BY <2>3, CoversAre
  <2> QED BY <1>1, <1>2, <2>1, <2>2, <2>4, FrameExact
<1> QED BY <1>5, <1>6

\* Or it is refused with an S2.
LEMMA BusyExact ==
  ASSUME EngineInv, AnswersInv, InMain, NEW f, f = frob_frame_process(machine, buf["FI_MAIN"]), PaymentBusy(f)
  PROVE  AnswersInv'
<1> DEFINE skipped == 2 >= Spare
           add == IF skipped THEN <<"ACK">> ELSE <<"ACK">> \o Message("S2")
<1>1. /\ UNCHANGED <<fd, pc, todo, process, inbox, owes>> /\ f.e = "found"
      /\ Takes(f, add) /\ Destination(Type(f)) = "NO_PAYMENT"
      /\ IF skipped THEN Irregular ELSE UNCHANGED history
  BY DEF PaymentBusy, Good, round, world
<1> HIDE DEF skipped
<1>2. InPlace
  BY <1>1 DEF InPlace, Takes, Renewed
<1>3. CASE skipped
  <2>1. buf' = [buf EXCEPT !["FI_MAIN"] = fnext(f), !["FO_MAIN"] = @ \o add]
    BY <1>1 DEF Takes
  <2>2. Irregular
    BY <1>1, <1>3
  <2> QED BY <1>2, <2>1, <2>2, SkippedExact
<1>4. CASE ~skipped
  <2>1. UNCHANGED <<due, unpaid, astray, regular, jammed>>
    BY <1>1, <1>4 DEF history
  <2>2. Told(buf["FI_MAIN"], f) = <<"ACK", "S1">>
    BY <1>1, CallIs DEF Told, Type, Text
  <2>3. Covers(add, Nothing, Told(buf["FI_MAIN"], f))
    BY <1>4, <2>2, CoversAre
  <2> HIDE DEF add
  <2> QED BY <1>1, <1>2, <2>1, <2>3, TakesExact
<1> QED BY <1>3, <1>4

\* There is no frame left, nor the beginning of one; or the machine is lost.
LEMMA MainDoneExact ==
  ASSUME EngineInv, AnswersInv, InMain, NEW f, f = frob_frame_process(machine, buf["FI_MAIN"]), MainDone(f)
  PROVE  AnswersInv'
<1>1. /\ UNCHANGED <<fd, pc, process, inbox, owes>> /\ f.e = "EAGAIN"
      /\ todo' = todo \ {"FI_MAIN"} /\ machine' = f.cs
      /\ buf' = [buf EXCEPT !["FI_MAIN"] = Nothing]
      /\ IF f.cs = "error" THEN Irregular ELSE UNCHANGED history
  BY DEF MainDone, world, Nothing
<1>2. /\ process = "up" /\ pc = "process" /\ "FO_MAIN" \in fd
  BY InMainIs
<1>3. /\ buf'["FI_MAIN"] = Nothing /\ buf'["FO_MAIN"] = buf["FO_MAIN"]
      /\ buf'["NO_PAYMENT"] = buf["NO_PAYMENT"]
  BY <1>1, UnreadIs
<1>4. Handed'
  BY <1>1, <1>2, <1>3 DEF Handed
<1>5. CASE f.cs = "error"
  <2>1. Irregular
    BY <1>1, <1>5
  <2> QED BY <1>1, <1>2, <1>3, <1>4, <2>1, Forgotten DEF Irregular
<1>6. CASE f.cs # "error"
  <2> DEFINE b == buf["FI_MAIN"]
             t == FlattenSeq(inbox)
             u == buf["FO_MAIN"]
             v == buf["NO_PAYMENT"]
             e == Nothing
  <2>1. UNCHANGED <<due, unpaid, astray, regular, jammed>>
    BY <1>1, <1>6 DEF history
  <2>2. b \in Seq(Symbol) /\ t \in Seq(Symbol) /\ u \in Seq(Symbol) /\ v \in Seq(Symbol)
    BY UnreadIs
  <2>3. Covers(e, e, e)
    BY CoversAre
  <2>4. Unread = b \o t /\ Unread' = e \o t
    BY <1>1, <1>3 DEF Unread
  <2>5. Whole(e)
    BY NothingCalled DEF Nothing
  <2>6. e \o t = t /\ u \o e = u /\ v \o e = v
    <3> HIDE DEF t, u, v
    <3> QED BY <2>2, ConcatEmptySeq DEF Nothing
  <2>7. ASSUME Uncut
        PROVE  machine' = "main" /\ Beyond(CalledFor(b \o t), CalledFor(t), e)
    <3>1. Whole(b) /\ f = frob_frame_process("main", b)
      BY <2>7 DEF Uncut
    <3> HIDE DEF b, t
    <3> QED BY <1>1, <1>6, <2>2, <3>1, FirstOfMore DEF Nothing
  <2>8. buf'["FO_MAIN"] = buf["FO_MAIN"] \o e /\ buf'["NO_PAYMENT"] = buf["NO_PAYMENT"] \o e
    BY <1>3, <2>6
  <2>9. ASSUME Uncut
        PROVE  /\ machine' = "main" /\ Whole(buf'["FI_MAIN"]) /\ Unread' \in Seq(Symbol)
               /\ Beyond(CalledFor(Unread), CalledFor(Unread'), e)
    <3> HIDE DEF b, t, u, v
    <3> QED BY <1>3, <2>2, <2>4, <2>5, <2>6, <2>7, <2>9
  <2>10. UNCHANGED <<fd, inbox, owes>> /\ e = Nothing
    BY <1>1
  <2> HIDE DEF b, t, u, v, e
  <2> QED BY <1>2, <1>3, <1>4, <2>1, <2>3, <2>8, <2>9, <2>10, TakenExact
<1> QED BY <1>5, <1>6

\* Whatever process_main finds.
LEMMA ProcessExact == ASSUME EngineInv, AnswersInv, process_main PROVE AnswersInv'
<1>1. PICK f :
        /\ f = frob_frame_process(machine, buf["FI_MAIN"])
        /\ \/ AckOverruns(f) \/ BadLrc(f) \/ EmptyMessage(f) \/ BadParse(f) \/ Pong(f) \/ Responds(f)
           \/ AnswerFails(f) \/ Forwards(f) \/ PaymentBusy(f) \/ BusyFails(f) \/ Unhandled(f)
           \/ MainDone(f)
  BY DEF process_main, InMain, At
<1>2. InMain
  BY DEF process_main
<1>3. CASE EmptyMessage(f) \/ AnswerFails(f) \/ BusyFails(f) \/ Unhandled(f)
  <2>1. process' # "up" /\ UNCHANGED <<io, world, history>>
    BY <1>3 DEF EmptyMessage, AnswerFails, BusyFails, Unhandled, Ends
  <2>2. UNCHANGED <<fd, buf, owes, due, unpaid, astray, regular>>
    BY <2>1 DEF io, world, history
  <2> QED BY <2>1, <2>2 DEF AnswersInv, Silent
<1>10. CASE AckOverruns(f)
  <2>1. PICK add : Takes(f, add)
    BY <1>10 DEF AckOverruns
  <2>2. process' # "up" /\ UNCHANGED <<fd, owes, due, unpaid, astray, regular>>
    BY <1>10 DEF AckOverruns, world, history
  <2>3. buf'["NO_PAYMENT"] = buf["NO_PAYMENT"]
    BY <2>1, UnreadIs DEF Takes
  <2> QED BY <2>2, <2>3 DEF AnswersInv, Silent
<1>4. CASE BadLrc(f) \/ BadParse(f)
  BY <1>1, <1>2, <1>4, RefusedExact
<1>5. CASE Pong(f)
  BY <1>1, <1>2, <1>5, PongExact
<1>6. CASE Responds(f)
  BY <1>1, <1>2, <1>6, RespondsExact
<1>7. CASE Forwards(f)
  BY <1>1, <1>2, <1>7, ForwardsExact
<1>8. CASE PaymentBusy(f)
  BY <1>1, <1>2, <1>8, BusyExact
<1>9. CASE MainDone(f)
  BY <1>1, <1>2, <1>9, MainDoneExact
<1> QED BY <1>1, <1>3, <1>4, <1>5, <1>6, <1>7, <1>8, <1>9, <1>10

\* The round ends.
LEMMA RoundExact == ASSUME EngineInv, AnswersInv, RoundDone PROVE AnswersInv'
<1>1. /\ process = "up" /\ process' = "up" /\ pc = "process" /\ pc' = "select" /\ todo \cap fd = {}
      /\ UNCHANGED <<fd, buf, machine, inbox, owes, due, unpaid, astray, regular, jammed>>
  BY DEF RoundDone, At, world, history
<1>2. Handed'
  BY <1>1 DEF AnswersInv, Handed
<1> QED BY <1>1, <1>2, Unmoved

-----------------------------------------------------------------------------
(* The world *)

\* A byte before a frame, or in it.
LEMMA HeardNext ==
  ASSUME NEW m \in Hearing, NEW byte \in Symbol, NEW n, n = Heard(m, byte),
         NEW cs \in {"main", "first", "data"}, m.cs = cs, m.reply = <<>>
  PROVE  /\ n.cs = Step(cs, byte) /\ n.reply = <<>>
         /\ Step(cs, byte) = "data" => n.text = Append(m.text, byte)
         /\ Step(cs, byte) # "data" => n.text = m.text
<1>1. m.cs \notin {"error", "lrc"}
  OBVIOUS
<1>2. /\ Heard(m, byte).cs = Step(m.cs, byte) /\ Heard(m, byte).reply = m.reply
      /\ Heard(m, byte).text = IF Step(m.cs, byte) = "data" THEN Append(m.text, byte) ELSE m.text
  BY <1>1, HeardIs, Zenon
<1> QED BY <1>2

\* An acknowledge calls for nothing.
LEMMA AckCalls ==
  AckBytes \in Seq(Symbol) /\ Whole(AckBytes) /\ CalledFor(AckBytes).reply = <<>>
<1> DEFINE b == AckBytes
<1>1. b \in Seq(Symbol) /\ Len(b) = 1 /\ b[1] = "ack" /\ "ack" \in Symbol
  BY SymbolsAre, ShortSeqs DEF AckBytes
<1> HIDE DEF b
<1>2. PICK h : Hears(b, h) /\ CalledFor(b) = h[Len(b)]
  BY <1>1, HearsIs
<1>3. h[0] = Fresh /\ h[0] \in Hearing /\ h[1] = Heard(h[0], "ack") /\ CalledFor(b) = h[1]
  <2>1. 0 \in 0..1 /\ 1 \in 1..1 /\ 1 - 1 = 0
    OBVIOUS
  <2> QED BY <1>1, <1>2, <2>1 DEF Hears
<1>4. h[0].cs = "main" /\ h[0].reply = <<>>
  BY <1>3 DEF Fresh
<1>5. h[1].cs = Step("main", "ack") /\ h[1].reply = <<>>
  BY <1>1, <1>3, <1>4, HeardNext
<1>6. Step("main", "ack") = "main"
  BY DEF Step
<1> QED BY <1>1, <1>3, <1>5, <1>6 DEF Whole, b

\* One element and then another.
LEMMA LongerAgain ==
  ASSUME NEW S, NEW x \in S, NEW y \in S
  PROVE  Append(<<x>>, y) = <<x, y>>
<1> DEFINE s == <<x>>
           t == <<x, y>>
<1>1. s \in Seq(S) /\ Len(s) = 1 /\ s[1] = x
  BY ShortSeqs
<1>2. t \in Seq(S) /\ Len(t) = 2 /\ t[1] = x /\ t[2] = y
  BY ShortSeqs
<1> HIDE DEF s, t
<1> DEFINE u == Append(s, y)
<1>3. u \in Seq(S) /\ Len(u) = 2 /\ u[1] = s[1] /\ u[2] = y
  <2>1. /\ Append(s, y) \in Seq(S) /\ Len(Append(s, y)) = Len(s) + 1
        /\ \A i \in 1..Len(s) : Append(s, y)[i] = s[i]
    BY <1>1, AppendProperties
  <2>2. Append(s, y)[Len(s) + 1] = y
    BY <1>1, AppendProperties
  <2> HIDE DEF u
  <2>3. 1 \in 1..Len(s) /\ Len(s) + 1 = 2
    BY <1>1
  <2> QED BY <2>1, <2>2, <2>3 DEF u
<1> HIDE DEF u
<1>4. \A i \in 1..2 : u[i] = t[i]
  BY <1>1, <1>2, <1>3
<1>5. u = t
  BY <1>2, <1>3, <1>4, SeqEqual
<1> QED BY <1>5 DEF s, t, u

\* The answer to a ping calls for its acknowledge.
LEMMA PongCalls ==
  PongBytes \in Seq(Symbol) /\ Whole(PongBytes) /\ CalledFor(PongBytes).reply = <<"ACK">>
<1> DEFINE b == PongBytes
<1>1. /\ b \in Seq(Symbol) /\ Len(b) = 5
      /\ b[1] = "stx" /\ b[2] = "tok" /\ b[3] = "T2" /\ b[4] = "etx" /\ b[5] = "ok"
      /\ {"stx", "tok", "T2", "etx", "ok"} \subseteq Symbol
  BY SymbolsAre DEF PongBytes
<1> HIDE DEF b
<1>2. PICK h : Hears(b, h) /\ CalledFor(b) = h[Len(b)]
  BY <1>1, HearsIs
<1>3. /\ h[0] = Fresh /\ \A i \in 0..5 : h[i] \in Hearing
      /\ \A i \in 1..5 : h[i] = Heard(h[i - 1], b[i])
  BY <1>1, <1>2 DEF Hears
<1>4. /\ h[1] = Heard(h[0], "stx") /\ h[2] = Heard(h[1], "tok") /\ h[3] = Heard(h[2], "T2")
      /\ h[4] = Heard(h[3], "etx") /\ h[5] = Heard(h[4], "ok") /\ CalledFor(b) = h[5]
  <2>1. /\ h[1] = Heard(h[1 - 1], b[1]) /\ h[2] = Heard(h[2 - 1], b[2])
        /\ h[3] = Heard(h[3 - 1], b[3]) /\ h[4] = Heard(h[4 - 1], b[4])
        /\ h[5] = Heard(h[5 - 1], b[5])
    BY <1>3
  <2>2. 1 - 1 = 0 /\ 2 - 1 = 1 /\ 3 - 1 = 2 /\ 4 - 1 = 3 /\ 5 - 1 = 4
    OBVIOUS
  <2> QED BY <1>1, <1>2, <2>1, <2>2
<1>5. /\ h[0] \in Hearing /\ h[1] \in Hearing /\ h[2] \in Hearing /\ h[3] \in Hearing
      /\ h[4] \in Hearing
  BY <1>3
<1>6. Step("main", "stx") = "first" /\ Step("first", "tok") = "data"
      /\ Step("data", "T2") = "data" /\ Step("data", "etx") = "lrc"
  BY DEF Step
<1> DEFINE Is(m, cs, text) == m.cs = cs /\ m.text = text /\ m.reply = <<>>
<1>7. Is(h[0], "main", <<>>)
  BY <1>3 DEF Fresh
<1>8. Is(h[1], "first", <<>>)
  BY <1>1, <1>4, <1>5, <1>6, <1>7, HeardNext
<1>9. Is(h[2], "data", <<"tok">>)
  <2>1. Append(<<>>, "tok") = <<"tok">>
    OBVIOUS
  <2> QED BY <1>1, <1>4, <1>5, <1>6, <1>8, <2>1, HeardNext
<1>10. Is(h[3], "data", <<"tok", "T2">>)
  <2>1. Append(<<"tok">>, "T2") = <<"tok", "T2">>
    BY <1>1, LongerAgain
  <2> DEFINE m == h[2]
             n == h[3]
             byte == "T2"
             w == <<"tok">>
  <2>2. /\ m \in Hearing /\ byte \in Symbol /\ n = Heard(m, byte) /\ m.cs = "data"
        /\ m.reply = <<>> /\ m.text = w /\ Step("data", byte) = "data"
    BY <1>1, <1>4, <1>5, <1>6, <1>9
  <2> HIDE DEF m, n, byte, w
  <2>3. n.cs = Step("data", byte) /\ n.reply = <<>> /\ n.text = Append(m.text, byte)
    BY <2>2, HeardNext
  <2>4. n.cs = "data" /\ n.reply = <<>> /\ n.text = Append(w, byte)
    BY <2>2, <2>3
  <2>5. Append(w, byte) = <<"tok", "T2">>
    BY <2>1 DEF w, byte
  <2> QED BY <2>4, <2>5 DEF n
<1>11. Is(h[4], "lrc", <<"tok", "T2">>)
  BY <1>1, <1>4, <1>5, <1>6, <1>10, HeardNext
<1> DEFINE t == <<"tok", "T2">>
           a == <<"ACK">>
<1>12. Call(t) = a
  <2>1. Len(t) = 2 /\ t[1] = "tok" /\ t[2] = "T2" /\ "T2" \in Parseable
    BY DEF Parseable, Response
  <2>2. Parsed(t) = "T2"
    BY <2>1 DEF Parsed
  <2> HIDE DEF t
  <2> QED BY <2>2 DEF Call, Response
<1>13. a \in Seq(Symbol)
  BY SymbolsAre, ShortSeqs
<1> HIDE DEF t, a
<1>14. h[5].cs = "main" /\ h[5].reply = h[4].reply \o a
  <2> DEFINE m == h[4]
             byte == "ok"
  <2>1. m \in Hearing /\ byte \in Symbol /\ m.cs = "lrc" /\ h[5] = Heard(m, byte) /\ m.text = t
    BY <1>1, <1>4, <1>5, <1>11 DEF t
  <2>2. byte = "ok"
    OBVIOUS
  <2> HIDE DEF m, byte
  <2>3. /\ Heard(m, byte).cs = "main"
        /\ Heard(m, byte).reply = m.reply \o (IF byte = "ok" THEN Call(m.text) ELSE <<"NAK">>)
    BY <2>1, HeardIs, Zenon
  <2> QED BY <1>12, <2>1, <2>2, <2>3 DEF m
<1>15. h[4].reply \o a = a
  BY <1>11, <1>13, ConcatEmptySeq
<1> QED BY <1>1, <1>4, <1>14, <1>15 DEF Whole, b, a

\* Something whole comes behind what is on its way, and what it calls for is due.
LEMMA MoreExpected ==
  ASSUME EngineInv, AnswersInv, process = "up", pc = "select",
         NEW bytes \in Seq(Symbol), Whole(bytes), Expects(CalledFor(bytes).reply),
         FlattenSeq(inbox') = FlattenSeq(inbox) \o bytes, Uncut => Uncut',
         UNCHANGED <<fd, buf, wset, rset, pc, todo, astray, regular, jammed>>,
         owes' \in Seq({AckBytes, PongBytes})
  PROVE  AnswersInv'
<1>1. Silent' /\ Handed'
  BY DEF AnswersInv, Silent, Handed
<1>2. CASE ~regular
  <2>1. due' = due /\ unpaid' = unpaid
    BY <1>2 DEF Expects
  <2> QED BY <1>1, <1>2, <2>1 DEF AnswersInv
<1>3. CASE regular
  <2> DEFINE m == CalledFor(Unread)
             e == CalledFor(bytes)
             k == CalledFor(Unread \o bytes)
             u == buf["FO_MAIN"]
             v == buf["NO_PAYMENT"]
             K == Keep(e.reply, Said)
  <2>1. ~jammed /\ Uncut /\ (IF "FO_MAIN" \in fd THEN Sums ELSE Remains)
    BY <1>3 DEF AnswersInv, Straight
  <2>2. due' = due \o K /\ unpaid' = unpaid + Owed(e.reply)
    BY <1>3 DEF Expects, Owed
  <2>3. /\ Unread \in Seq(Symbol) /\ u \in Seq(Symbol) /\ v \in Seq(Symbol)
        /\ m \in Hearing /\ m.cs \in {"main", "error"}
    BY <2>1, UnreadIs
  <2>4. e \in Hearing /\ e.reply \in Seq(Symbol)
    BY CalledTyped DEF Hearing
  <2>5. k \in Hearing
    <3>1. Unread \o bytes \in Seq(Symbol)
      BY <2>3, ConcatProperties
    <3> QED BY <3>1, CalledTyped
  <2>6. m.cs = "main" => Beyond(k, e, m.reply)
    BY <2>3, CalledConcat
  <2>7. m.cs = "error" => k = m
    BY <2>3, CalledConcat
  <2>8. Unread' = Unread \o bytes
    <3> DEFINE a == buf["FI_MAIN"]
               t == FlattenSeq(inbox)
    <3>1. a \in Seq(Symbol) /\ t \in Seq(Symbol)
      BY UnreadIs
    <3>2. Unread = a \o t /\ Unread' = a \o (t \o bytes)
      BY DEF Unread
    <3> HIDE DEF a, t
    <3>3. (a \o t) \o bytes = a \o (t \o bytes)
      BY <3>1, ConcatAssociative
    <3> QED BY <3>2, <3>3
  <2>9. K \in Seq(Said) /\ Owed(e.reply) \in Nat /\ Owed(v) \in Nat
    BY <2>3, <2>4, KeptOfBoth
  <2>10. CASE "FO_MAIN" \in fd
    <3>1. Balance(u, v, m, due, unpaid)
      BY <2>1, <2>10 DEF Sums
    <3> HIDE DEF m, e, k, u, v
    <3>2. Balance(u, v, k, due \o K, unpaid + Owed(e.reply))
      BY <2>3, <2>4, <2>5, <2>6, <2>7, <3>1, BalanceGrows
    <3>3. Sums'
      BY <2>2, <2>8, <3>2 DEF Sums, k, u, v
    <3> QED BY <1>1, <1>3, <2>1, <2>10, <3>3 DEF AnswersInv, Straight
  <2>11. CASE "FO_MAIN" \notin fd
    <3>1. due \in Seq(Said) /\ unpaid \in Nat /\ Owed(v) <= unpaid
      BY <2>1, <2>11 DEF Remains
    <3> DEFINE o == Owed(e.reply)
               p == Owed(v)
    <3> HIDE DEF K, o, p
    <3>2. due \o K \in Seq(Said)
      BY <2>9, <3>1, ConcatProperties
    <3>3. o \in Nat /\ p \in Nat /\ p <= unpaid
      BY <2>9, <3>1 DEF o, p
    <3>4. unpaid + o \in Nat /\ p <= unpaid + o
      BY <3>1, <3>3
    <3>5. Remains'
      BY <2>2, <3>2, <3>4 DEF Remains, o, p
    <3> QED BY <1>1, <1>3, <2>1, <2>11, <3>5 DEF AnswersInv, Straight
  <2> QED BY <2>10, <2>11
<1> QED BY <1>2, <1>3

\* The peer sends a request.
LEMMA SendsExact == ASSUME EngineInv, AnswersInv, pc = "select", PeerSends PROVE AnswersInv'
<1>1. PICK q \in Requests \cup Polite : inbox' = Append(inbox, q.bytes) /\ Expects(q.reply)
  BY DEF PeerSends
<1>2. /\ process = "up"
      /\ UNCHANGED <<fd, buf, wset, rset, machine, pc, todo, owes, astray, regular, jammed>>
  BY DEF PeerSends, io, round
<1> DEFINE W == Seq(Symbol)
           b == q.bytes
<1>3. b \in Seq(Symbol) /\ Whole(b) /\ q.reply = CalledFor(b).reply
  BY RequestsAre, ReplyAssumption DEF Whole
<1>4. Expects(CalledFor(b).reply)
  BY <1>1, <1>3
<1>5. inbox \in Seq(W) /\ b \in W
  BY <1>3, UnreadIs
<1> HIDE DEF b
<1>6. inbox' = Append(inbox, b)
  BY <1>1 DEF b
<1>7. FlattenSeq(inbox') = FlattenSeq(inbox) \o b
  BY <1>5, <1>6, FlattenAppend
<1>8. ASSUME Uncut PROVE Uncut'
  <2> HIDE DEF W
  <2>1. /\ Len(inbox) \in Nat /\ Len(inbox') = Len(inbox) + 1
        /\ \A i \in 1..Len(inbox) : inbox'[i] = inbox[i]
        /\ inbox'[Len(inbox) + 1] = b
    BY <1>5, <1>6, AppendProperties, LenProperties
  <2>2. ASSUME NEW i \in 1..Len(inbox') PROVE Whole(inbox'[i])
    <3>1. i \in 1..Len(inbox) \/ i = Len(inbox) + 1
      BY <2>1
    <3> QED BY <1>3, <1>8, <2>1, <3>1 DEF Uncut
  <2> QED BY <1>2, <1>8, <2>2 DEF Uncut
<1>9. owes' \in Seq({AckBytes, PongBytes})
  BY <1>2 DEF AnswersInv, Silent
<1> QED BY <1>2, <1>3, <1>4, <1>7, <1>8, <1>9, MoreExpected

\* The peer says what it owes.
LEMMA RepliesExact == ASSUME EngineInv, AnswersInv, pc = "select", PeerReplies PROVE AnswersInv'
<1> DEFINE S == {AckBytes, PongBytes}
           b == Head(owes)
<1>1. /\ process = "up" /\ owes # Nothing /\ inbox = Nothing
      /\ inbox' = <<b>> /\ owes' = Tail(owes)
      /\ Expects(IF b = AckBytes THEN <<>> ELSE <<"ACK">>)
      /\ UNCHANGED <<fd, buf, wset, rset, machine, pc, todo, astray, regular, jammed>>
  BY DEF PeerReplies, io, round, Nothing, AckBytes
<1>2. owes \in Seq(S)
  BY DEF AnswersInv, Silent
<1>3. b \in S /\ owes' \in Seq(S)
  <2> HIDE DEF S
  <2> QED BY <1>1, <1>2, HeadTailProperties DEF Nothing
<1> HIDE DEF b
<1>4. b \in Seq(Symbol) /\ Whole(b) /\ Expects(CalledFor(b).reply)
  <2>1. CASE b = AckBytes
    <3>1. Expects(<<>>)
      BY <1>1, <2>1
    <3> QED BY <2>1, <3>1, AckCalls
  <2>2. CASE b # AckBytes
    <3>1. Expects(<<"ACK">>) /\ b = PongBytes
      BY <1>1, <1>3, <2>2
    <3> QED BY <3>1, PongCalls
  <2> QED BY <2>1, <2>2
<1>5. FlattenSeq(inbox) = Nothing /\ FlattenSeq(inbox') = b
  <2>1. FlattenSeq(Nothing) = Nothing
    BY FlattenFew DEF Nothing
  <2>2. FlattenSeq(<<b>>) = b
    BY <1>4, FlattenFew
  <2> QED BY <1>1, <2>1, <2>2
<1>6. FlattenSeq(inbox') = FlattenSeq(inbox) \o b
  BY <1>4, <1>5, ConcatEmptySeq DEF Nothing
<1>7. Uncut => Uncut'
  <2>1. Len(inbox') = 1 /\ inbox'[1] = b
    BY <1>1
  <2> QED BY <1>1, <1>4, <2>1 DEF Uncut
<1> QED BY <1>1, <1>3, <1>4, <1>6, <1>7, MoreExpected

\* What else comes from outside has no part in it.
LEMMA WorldExact == ASSUME EngineInv, AnswersInv, World PROVE AnswersInv'
<1>1. CASE pc = "select" /\ PeerSends
  BY <1>1, SendsExact
<1>2. CASE pc = "select" /\ PeerReplies
  BY <1>2, RepliesExact
<1>3. ASSUME \/ PeerHangsUp \/ Interrupt \/ UserTypes
             \/ \E timer \in {"timer_ack", "timer_ping"} : TimerExpires(timer)
      PROVE  AnswersInv'
  <2>1. /\ process = "up"
        /\ UNCHANGED <<fd, buf, wset, rset, machine, pc, todo, inbox, owes>>
        /\ UNCHANGED <<due, unpaid, astray, regular, jammed>>
    <3>1. CASE PeerHangsUp
      BY <3>1 DEF PeerHangsUp, io, round, history
    <3>2. CASE Interrupt
      BY <3>2 DEF Interrupt, io, history
    <3>3. CASE UserTypes
      BY <3>3 DEF UserTypes, io, round, history
    <3>4. CASE \E timer \in {"timer_ack", "timer_ping"} : TimerExpires(timer)
      BY <3>4 DEF TimerExpires, io, round, world, history
    <3> QED BY <1>3, <3>1, <3>2, <3>3, <3>4
  <2>2. Handed'
    BY <2>1 DEF AnswersInv, Handed
  <2> QED BY <2>1, <2>2, Unmoved
<1> QED BY <1>1, <1>2, <1>3 DEF World

-----------------------------------------------------------------------------
(* What the peer gets, always *)

\* At the start nothing is due and nothing was read.
LEMMA AnswersInit == Init => AnswersInv
<1> SUFFICES ASSUME Init PROVE AnswersInv
  OBVIOUS
<1>1. /\ fd = {"FO_MAIN", "FI_MAIN", "II_SIGNAL"} \cup (IF Payment THEN {"NO_PAYMENT"} ELSE {})
      /\ buf = [c \in Channel |-> Nothing]
      /\ machine = "main" /\ pc = "select" /\ process = "up" /\ inbox = Nothing /\ owes = Nothing
      /\ due = Nothing /\ unpaid = 0 /\ astray = FALSE /\ regular = TRUE /\ jammed = FALSE
  BY DEF Init, Nothing
<1>2. /\ buf["FO_MAIN"] = Nothing /\ buf["FI_MAIN"] = Nothing
      /\ buf["NO_PAYMENT"] = Nothing
  BY <1>1, Channels DEF Inputs
<1>3. Keep(Nothing, Said) = Nothing /\ Owed(Nothing) = 0
  BY NothingKept
<1>4. Silent
  <2>1. owes \in Seq({AckBytes, PongBytes})
    BY <1>1, ShortSeqs DEF Nothing
  <2> QED BY <1>2, <1>3, <2>1 DEF Silent
<1>5. Handed
  BY <1>1, <1>2 DEF Handed
<1>6. Uncut
  <2>1. Len(inbox) = 0
    BY <1>1, ShortSeqs DEF Nothing
  <2>2. \A i \in 1..Len(inbox) : Whole(inbox[i])
    BY <2>1
  <2> QED BY <1>1, <1>2, <2>2, NothingCalled DEF Uncut, Nothing
<1>7. Sums
  <2> DEFINE e == Nothing
             m == CalledFor(e)
  <2>1. e \in Seq(Said) /\ e \in Seq(Symbol) /\ FlattenSeq(e) = e
    BY ShortSeqs, FlattenFew DEF Nothing
  <2>2. m.reply = e
    BY NothingCalled DEF Fresh, Nothing
  <2> HIDE DEF e, m
  <2>3. e \o e = e
    BY <2>1, ConcatEmptySeq DEF e, Nothing
  <2>4. Unread = e
    BY <1>1, <1>2, <2>1, <2>3 DEF Unread, e
  <2>5. Keep(e \o m.reply, Said) \o e = e /\ Owed(e \o m.reply) = 0 /\ Owed(e) = 0
    BY <1>3, <2>2, <2>3 DEF e
  <2>6. 0 = 0 + 0 + 0
    OBVIOUS
  <2>7. 0 = Owed(e \o m.reply) + Owed(e) + 0
    BY <2>5, <2>6
  <2>8. Balance(e, e, m, e, 0)
    BY <2>1, <2>5, <2>7 DEF Balance, e, Nothing
  <2> QED BY <1>1, <1>2, <2>4, <2>8 DEF Sums, e, m
<1> QED BY <1>1, <1>4, <1>5, <1>6, <1>7 DEF AnswersInv, Straight

\* What is not touched is as it was.
LEMMA AnswersNothing == ASSUME AnswersInv, UNCHANGED vars PROVE AnswersInv'
<1>1. /\ UNCHANGED <<fd, buf, wset, rset, machine, pc, todo, process, inbox, owes>>
      /\ UNCHANGED <<due, unpaid, astray, regular, jammed>>
  BY DEF vars, io, round, world, history
<1>2. Silent /\ Silent'
  BY <1>1 DEF AnswersInv, Silent
<1>3. process = "up" => Handed'
  BY <1>1 DEF AnswersInv, Handed
<1>4. Straight => Straight'
  BY <1>1 DEF Straight, Uncut, Sums, Remains, Unread
<1> QED BY <1>1, <1>2, <1>3, <1>4 DEF AnswersInv

\* The invariant is inductive, on top of the engine's own and what is said of the console.
LEMMA AnswersStep ==
  EngineInv /\ Typing /\ (AnswersInv \/ Doomed) /\ [Next]_vars => AnswersInv' \/ Doomed'
<1> SUFFICES ASSUME EngineInv, Typing, AnswersInv, [Next]_vars PROVE AnswersInv' \/ Doomed'
  BY DoomedStep
<1>1. CASE WaitForIo
  BY <1>1, WaitExact
<1>2. CASE PerformPendingIo
  BY <1>2, PendingExact
<1>3. CASE process_signal
  BY <1>3, SignalExact
<1>4. CASE process_master
  BY <1>4, MasterExact
<1>5. CASE process_main
  BY <1>5, ProcessExact
<1>6. CASE RoundDone
  BY <1>6, RoundExact
<1>7. CASE World
  BY <1>7, WorldExact
<1>8. CASE UNCHANGED vars
  BY <1>8, AnswersNothing
<1> QED BY <1>1, <1>2, <1>3, <1>4, <1>5, <1>6, <1>7, <1>8 DEF Next, Program

\* It holds always.
LEMMA AnswersAlways == Spec => [](AnswersInv \/ Doomed)
<1>1. Init => AnswersInv \/ Doomed
  BY AnswersInit
<1>2. EngineInv /\ Typing /\ (AnswersInv \/ Doomed) /\ [Next]_vars => AnswersInv' \/ Doomed'
  BY AnswersStep
<1> QED BY <1>1, <1>2, EngineAlways, TypingAlways, PTL DEF Spec

\* When select is entered with nothing to read and nothing to write, nothing is due.
LEMMA AllSaid ==
  ASSUME EngineInv, AnswersInv, At("select"), inbox = Nothing, wset = {}, "FO_MAIN" \in fd
  PROVE  due = Nothing /\ unpaid = 0
<1>1. CASE ~regular
  BY <1>1 DEF AnswersInv
<1>2. CASE regular
  <2>1. ~jammed /\ Sums /\ Handed /\ Silent /\ pc = "select"
    BY <1>2 DEF AnswersInv, Straight, At
  <2>2. buf["FI_MAIN"] = Nothing
    <3>1. "FI_MAIN" \in fd
      BY DEF EngineInv, Base, Wiring
    <3> QED BY <2>1, <3>1, AllProcessed
  <2>3. buf["FO_MAIN"] = Nothing /\ buf["NO_PAYMENT"] = Nothing
    <3>1. \A c \in Outputs \cap fd : buf[c] = Nothing
      BY <2>1 DEF EngineInv, Base, Watched, Echoes, Nothing
    <3> QED BY <2>1, <3>1, Channels DEF Silent
  <2> DEFINE e == Nothing
             m == CalledFor(e)
  <2>4. e \in Seq(Symbol) /\ FlattenSeq(e) = e /\ m.reply = e /\ m.cs = "main"
    BY ShortSeqs, FlattenFew, NothingCalled DEF Fresh, Nothing
  <2>5. Keep(e, Said) = e /\ Owed(e) = 0
    BY NothingKept
  <2> HIDE DEF e, m
  <2>6. e \o e = e
    BY <2>4, ConcatEmptySeq DEF e, Nothing
  <2>7. Unread = e
    BY <2>2, <2>4, <2>6 DEF Unread, e
  <2>8. Balance(e, e, m, due, unpaid)
    BY <2>1, <2>3, <2>7 DEF Sums, e, m
  <2>9. PICK rest \in Seq(Said), n \in Nat :
          /\ due = Keep(e \o m.reply, Said) \o rest
          /\ unpaid = Owed(e \o m.reply) + Owed(e) + n
          /\ rest = e /\ n = 0
    BY <2>4, <2>8 DEF Balance, e, Nothing
  <2>10. due = e \o e /\ unpaid = Owed(e) + Owed(e) + 0
    BY <2>4, <2>5, <2>6, <2>9
  <2>11. unpaid = 0
    BY <2>5, <2>10
  <2> QED BY <2>6, <2>10, <2>11 DEF e
<1> QED BY <1>1, <1>2

(***************************************************************************)
(* Whatever the peer sends, in whole requests, of any kind and of any      *)
(* length, and however select, signals, timers, the console and the other  *)
(* channels come between: MAIN is told for each frame its ACK or NAK, and  *)
(* then the answer to its message, in the order of the frames, nothing     *)
(* else and nothing twice; an S1 goes to the payment channel or is         *)
(* answered with an S2; and when nothing is left to read or to write all   *)
(* of it was said.  Nothing is claimed from where a request was cut by a   *)
(* read, an output was full or a message was skipped (Irregular, Jams).    *)
(***************************************************************************)
THEOREM AnswersAreExact == Spec => []AnswersExact
<1>1. EngineInv /\ (AnswersInv \/ Doomed) => AnswersExact
  <2>1. ASSUME Doomed PROVE AnswersExact
    BY <2>1 DEF Doomed, AnswersExact, At
  <2>2. ASSUME EngineInv, AnswersInv PROVE AnswersExact
    <3>1. ~astray
      BY <2>2 DEF AnswersInv
    <3>2. At("select") /\ inbox = Nothing /\ wset = {} /\ "FO_MAIN" \in fd => due = Nothing /\ unpaid = 0
      BY <2>2, AllSaid
    <3> QED BY <3>1, <3>2 DEF AnswersExact, Nothing
  <2> QED BY <2>1, <2>2
<1> QED BY <1>1, EngineAlways, AnswersAlways, PTL

=============================================================================
