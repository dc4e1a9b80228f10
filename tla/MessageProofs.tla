--------------------------- MODULE MessageProofs ---------------------------
(***************************************************************************)
(* Messages as bytes, for every message, buffer, text and file: a file is  *)
(* parsed whole or refused, serialize() writes all of a message or refuses *)
(* a buffer that is too small, and the parser's cursor stays in the text   *)
(* and has used all of it when a message is accepted.                      *)
(*                                                                         *)
(* And the round trip: serialize() and parse_message() state the layout of *)
(* a message twice, in different words.  Field by field the cursor is      *)
(* where serialize() began that field, the machine takes the value it      *)
(* wrote or stops, and what it has copied so far is what the message has   *)
(* so far.                                                                 *)
(***************************************************************************)
EXTENDS Slurp, SequenceLemmas

-----------------------------------------------------------------------------
(* What serialize() has to write *)

\* The literals are strings too, which the provers do not know.
Byte == STRING \cup {"stx", "7", "fs", "us", "etx", "lrc", "?"}
PieceType == [bytes : Seq(Byte), hex : BOOLEAN, padded : BOOLEAN]

\* A sequence of fields, each of which has an end.
Fielded(f) == \E S : f \in Seq(S) /\ \A x \in S : x.end \in Byte

\* The fields of one kind.
LEMMA FieldsFielded ==
  ASSUME NEW names, NEW n \in Nat, DOMAIN names = 1..n
  PROVE  (\A kind : Fielded(Fields(kind, names))) /\ Fielded(Units(names))
<1>1. "fs" \in Byte /\ "us" \in Byte
  BY DEF Byte
<1>2. ASSUME NEW kind PROVE Fielded(Fields(kind, names))
  <2> DEFINE f == Fields(kind, names)
             S == {f[i] : i \in 1..n}
  <2>1. f \in [1..n -> S] /\ \A i \in 1..n : f[i].end = "fs"
    BY DEF Fields
  <2> HIDE DEF f
  <2>2. \A x \in S : x.end \in Byte
    BY <1>1, <2>1
  <2> HIDE DEF S
  <2>3. f \in Seq(S)
    BY <2>1, SegmentIsSeq
  <2> QED BY <2>2, <2>3 DEF Fielded, f
<1>3. Fielded(Units(names))
  <2> DEFINE f == Units(names)
             S == {f[i] : i \in 1..n}
  <2>1. f \in [1..n -> S] /\ \A i \in 1..n : f[i].end = "us"
    BY DEF Units
  <2> HIDE DEF f
  <2>2. \A x \in S : x.end \in Byte
    BY <1>1, <2>1
  <2> HIDE DEF S
  <2>3. f \in Seq(S)
    BY <2>1, SegmentIsSeq
  <2> QED BY <2>2, <2>3 DEF Fielded, f
<1> QED BY <1>2, <1>3

\* Fields of several kinds.
LEMMA ConcatFielded ==
  ASSUME NEW f, NEW g, Fielded(f), Fielded(g)
  PROVE  Fielded(f \o g)
<1>1. PICK S : f \in Seq(S) /\ \A x \in S : x.end \in Byte
  BY DEF Fielded
<1>2. PICK T : g \in Seq(T) /\ \A x \in T : x.end \in Byte
  BY DEF Fielded
<1> DEFINE U == S \cup T
<1>3. /\ Len(f) \in Nat /\ f \in [1..Len(f) -> S]
      /\ Len(g) \in Nat /\ g \in [1..Len(g) -> T]
  BY <1>1, <1>2, LenProperties
<1>4. f \in [1..Len(f) -> U] /\ g \in [1..Len(g) -> U]
  BY <1>3
<1>5. \A x \in U : x.end \in Byte
  BY <1>1, <1>2
<1> HIDE DEF U
<1>6. f \in Seq(U) /\ g \in Seq(U)
  BY <1>3, <1>4, SegmentIsSeq
<1>7. f \o g \in Seq(U)
  BY <1>6, ConcatProperties
<1> QED BY <1>5, <1>7 DEF Fielded

\* Every layout is a sequence of fields.
LEMMA LayoutFielded == \A t : Fielded(Layout(t))
<1> SUFFICES ASSUME NEW t PROVE Fielded(Layout(t))
  OBVIOUS
<1>1. ASSUME NEW names, NEW n \in Nat, DOMAIN names = 1..n
      PROVE  (\A kind : Fielded(Fields(kind, names))) /\ Fielded(Units(names))
  BY <1>1, FieldsFielded
<1>2. Fielded(Fs) /\ Fielded(<<>>)
  <2> DEFINE r == [name |-> "", kind |-> "none", end |-> "fs"]
  <2>1. Fs = <<r>> /\ r.end = "fs"
    BY DEF Fs
  <2> HIDE DEF r
  <2>2. Fs \in Seq({r}) /\ <<>> \in Seq({r})
    BY <2>1, EmptySeq
  <2>3. \A x \in {r} : x.end \in Byte
    BY <2>1 DEF Byte
  <2> QED BY <2>2, <2>3 DEF Fielded
<1>3. /\ DOMAIN Info = 1..4 /\ DOMAIN Printer = 1..4 /\ DOMAIN Modes = 1..3
      /\ DOMAIN Limits = 1..9 /\ DOMAIN Keys = 1..9 /\ DOMAIN Features = 1..4
      /\ DOMAIN Versions = 1..20
  BY DEF Info, Printer, Modes, Limits, Keys, Features, Versions
<1>4. /\ \A kind : Fielded(Fields(kind, Info)) /\ Fielded(Fields(kind, Printer))
      /\ \A kind : Fielded(Fields(kind, Modes)) /\ Fielded(Fields(kind, Limits))
      /\ \A kind : Fielded(Fields(kind, Features))
      /\ Fielded(Units(Versions)) /\ Fielded(Units(Keys))
  BY <1>1, <1>3
<1>5. \A kind, name : Fielded(Fields(kind, <<name>>))
  <2> TAKE kind, name
  <2>1. DOMAIN <<name>> = 1..1
    OBVIOUS
  <2> QED BY <1>1, <2>1
<1>6. /\ Fielded(Fields("string", <<"ecr_id", "payment_id", "amount_gross", "amount_net",
                                    "vat", "currency", "cashback", "max_cashback">>))
      /\ Fielded(Fields("string", <<"mid", "tid", "trx_amount", "cashback",
                                    "payment_method", "msg">>))
      /\ Fielded(Fields("hex", <<"modulus", "exponent">>))
      /\ Fielded(Fields("hex", <<"kek", "kcv">>))
  <2>1. DOMAIN <<"ecr_id", "payment_id", "amount_gross", "amount_net",
                 "vat", "currency", "cashback", "max_cashback">> = 1..8
    OBVIOUS
  <2>2. DOMAIN <<"mid", "tid", "trx_amount", "cashback", "payment_method", "msg">> = 1..6
    OBVIOUS
  <2>3. DOMAIN <<"modulus", "exponent">> = 1..2 /\ DOMAIN <<"kek", "kcv">> = 1..2
    OBVIOUS
  <2> QED BY <1>1, <2>1, <2>2, <2>3
<1>7. \A f, g : Fielded(f) /\ Fielded(g) => Fielded(f \o g)
  BY ConcatFielded
<1>8. /\ Fielded(Fields("string", Info))
      /\ Fielded(Units(Versions) \o Fs)
      /\ Fielded(Fields("string", <<"version">>))
  BY <1>2, <1>4, <1>5, <1>7
<1>9. Fielded(Fields("integer", Printer) \o Fields("boolean", Modes)
                \o Fields("integer", Limits) \o Units(Keys) \o Fs
                \o Fields("topology", <<"device_topo">>) \o Fields("boolean", Features))
  BY <1>2, <1>4, <1>5, <1>7
<1>10. /\ Fielded(Fields("trx_type", <<"transaction_type">>)
                    \o Fields("string", <<"ecr_id", "payment_id", "amount_gross",
                                          "amount_net", "vat", "currency", "cashback",
                                          "max_cashback">>))
       /\ Fielded(Fields("integer", <<"error">>) \o Fields("hex", <<"card_token">>)
                    \o Fields("string", <<"mid", "tid", "trx_amount", "cashback",
                                          "payment_method", "msg">>))
  BY <1>5, <1>6, <1>7
<1>11. /\ Fielded(Fields("integer", <<"status">>) \o Fields("string", <<"msg">>))
       /\ Fielded(Fields("integer", <<"error">>) \o Fields("string", <<"msg">>))
       /\ Fielded(Fields("hex", <<"kek", "kcv">>))
       /\ Fielded(Fields("integer", <<"result">>))
       /\ Fielded(Fields("integer", <<"result">>) \o Fields("string", <<"output">>))
  BY <1>5, <1>6, <1>7
<1>12. Fielded(Fields("string", Info) \o Fields("integer", <<"result">>)
                 \o Fields("hex", <<"modulus", "exponent">>))
  BY <1>4, <1>5, <1>6, <1>7
<1> QED BY <1>2, <1>8, <1>9, <1>10, <1>11, <1>12 DEF Layout

\* The digits of a hex field and a string are followed by one byte more.
Open(piece) == piece.hex \/ piece.padded
Delimited(q) ==
  \A i \in 1..Len(q) : Open(q[i]) => i + 1 \in 1..Len(q) /\ Len(q[i + 1].bytes) = 1

\* It stays so when pieces are put after one another.
LEMMA DelimitedConcat ==
  ASSUME NEW a \in Seq(PieceType), NEW b \in Seq(PieceType),
         Delimited(a), Delimited(b)
  PROVE  a \o b \in Seq(PieceType) /\ Delimited(a \o b)
<1> DEFINE d == a \o b
           m == Len(a)
           n == Len(b)
<1>1. /\ d \in Seq(PieceType) /\ Len(d) = m + n
      /\ \A i \in 1..(m + n) : d[i] = IF i <= m THEN a[i] ELSE b[i - m]
  BY ConcatProperties
<1>2. m \in Nat /\ n \in Nat
  BY LenProperties
<1>3. /\ \A i \in 1..m : Open(a[i]) => i + 1 \in 1..m /\ Len(a[i + 1].bytes) = 1
      /\ \A i \in 1..n : Open(b[i]) => i + 1 \in 1..n /\ Len(b[i + 1].bytes) = 1
  BY DEF Delimited
<1> HIDE DEF d, m, n
<1>4. ASSUME NEW i \in 1..(m + n), Open(d[i])
      PROVE  i + 1 \in 1..(m + n) /\ Len(d[i + 1].bytes) = 1
  <2>1. CASE i <= m
    <3>1. i \in 1..m /\ Open(a[i])
      BY <1>1, <1>2, <1>4, <2>1
    <3>2. i + 1 \in 1..m /\ Len(a[i + 1].bytes) = 1
      BY <1>3, <3>1
    <3>3. i + 1 \in 1..(m + n) /\ i + 1 <= m
      BY <1>2, <3>2
    <3> QED BY <1>1, <3>2, <3>3
  <2>2. CASE ~(i <= m)
    <3> DEFINE j == i - m
    <3>1. j \in 1..n /\ Open(b[j])
      BY <1>1, <1>2, <1>4, <2>2
    <3>2. j + 1 \in 1..n /\ Len(b[j + 1].bytes) = 1
      BY <1>3, <3>1
    <3>3. i + 1 \in 1..(m + n) /\ ~(i + 1 <= m) /\ i + 1 - m = j + 1
      BY <1>2, <3>2
    <3> DEFINE k == i + 1
    <3>4. k \in 1..(m + n) /\ ~(k <= m) /\ k - m = j + 1
      BY <1>2, <3>3
    <3> HIDE DEF k, j
    <3>5. d[k] = b[k - m]
      BY <1>1, <3>4
    <3>6. d[k] = b[j + 1]
      BY <3>4, <3>5
    <3> QED BY <3>2, <3>3, <3>6 DEF k
  <2> QED BY <2>1, <2>2
<1> QED BY <1>1, <1>4 DEF Delimited, d

\* The pieces of all the fields together.
LEMMA FieldsDelimited ==
  ASSUME NEW s \in Seq(Seq(PieceType)), \A k \in 1..Len(s) : Delimited(s[k])
  PROVE  FlattenSeq(s) \in Seq(PieceType) /\ Delimited(FlattenSeq(s))
<1> DEFINE N == Len(s)
           u == Upto(PieceType, s)
           Bad == {k \in 0..N : ~Delimited(u[k])}
<1>0. N \in Nat /\ \A k \in 1..N : s[k] \in Seq(PieceType)
  BY LenProperties, ElementOfSeq
<1>1. FlattenSeq(s) = u[N] /\ Joins(PieceType, s, u)
  BY FlattenIsLast, JoinsExist
<1> HIDE DEF u
<1>2. /\ \A k \in 0..N : u[k] \in Seq(PieceType)
      /\ u[0] = <<>> /\ \A k \in 1..N : u[k] = u[k - 1] \o s[k]
  BY <1>1 DEF Joins
<1>3. ASSUME NEW k \in 1..N PROVE Delimited(s[k])
  OBVIOUS
<1> HIDE DEF N
<1>4. Bad = {}
  <2> SUFFICES ASSUME Bad # {} PROVE FALSE
    OBVIOUS
  <2>1. Bad \in SUBSET Nat
    BY <1>0
  <2> HIDE DEF Bad
  <2>2. PICK m \in Bad : \A k \in Bad : m <= k
    BY <2>1, LeastNat
  <2>3. m \in 0..N /\ ~Delimited(u[m])
    BY <2>2 DEF Bad
  <2>4. Delimited(u[0])
    <3> DEFINE e == <<>>
    <3>1. \A i \in 1..Len(e) : FALSE
      BY EmptySeq
    <3>2. Delimited(e)
      <4> HIDE DEF e
      <4> QED BY <3>1 DEF Delimited
    <3> QED BY <1>2, <3>2
  <2>5. m # 0
    BY <2>3, <2>4
  <2>6. m - 1 \in 0..N /\ m \in 1..N /\ m - 1 \notin Bad
    BY <1>0, <2>2, <2>3, <2>5
  <2>7. Delimited(u[m - 1])
    BY <2>6 DEF Bad
  <2>8. Delimited(u[m - 1] \o s[m])
    BY <1>0, <1>2, <1>3, <2>6, <2>7, DelimitedConcat
  <2>9. u[m] = u[m - 1] \o s[m]
    BY <1>2, <2>6
  <2> QED BY <2>3, <2>8, <2>9
<1>5. N \in 0..N
  BY <1>0
<1> QED BY <1>1, <1>2, <1>4, <1>5

\* The bytes of a message are bytes.
LEMMA BytesAre == \A b \in Seq(STRING) : b \in Seq(Byte)
<1> TAKE b \in Seq(STRING)
<1>1. Len(b) \in Nat /\ b \in [1..Len(b) -> STRING]
  BY LenProperties
<1>2. b \in [1..Len(b) -> Byte]
  BY <1>1 DEF Byte
<1> QED BY <1>1, <1>2, SegmentIsSeq

\* A field and its delimiter: the field itself is not the last piece.
LEMMA FieldDelimited ==
  ASSUME NEW f, f.end \in Byte, NEW v \in Seq(Byte)
  PROVE  FieldPieces(f, v) \in Seq(PieceType) /\ Delimited(FieldPieces(f, v))
<1> DEFINE a == [bytes |-> v, hex |-> f.kind = "hex", padded |-> f.kind = "string"]
           e == <<f.end>>
           b == [bytes |-> e, hex |-> FALSE, padded |-> FALSE]
           q == <<a, b>>
<1>1. e \in Seq(Byte) /\ Len(e) = 1
  OBVIOUS
<1>2. (f.kind = "hex") \in BOOLEAN /\ (f.kind = "string") \in BOOLEAN
  OBVIOUS
<1>3. a \in PieceType
  BY <1>2 DEF PieceType
<1>4. FieldPieces(f, v) = q
  BY DEF FieldPieces, Piece
<1> HIDE DEF e
<1>5. b \in PieceType /\ b.hex = FALSE /\ b.padded = FALSE /\ b.bytes = e
  BY <1>1 DEF PieceType
<1> HIDE DEF a, b
<1>6. q \in Seq(PieceType) /\ Len(q) = 2 /\ q[1] = a /\ q[2] = b
  BY <1>3, <1>5
<1> HIDE DEF q
<1>7. Delimited(q)
  <2> SUFFICES ASSUME NEW i \in 1..Len(q), Open(q[i])
               PROVE  i + 1 \in 1..Len(q) /\ Len(q[i + 1].bytes) = 1
    BY DEF Delimited
  <2>1. i = 1
    BY <1>5, <1>6 DEF Open
  <2> QED BY <1>1, <1>5, <1>6, <2>1
<1> QED BY <1>4, <1>6, <1>7

\* What serialize() writes: three bytes, one by one, and more, well delimited.
LEMMA PiecesAre ==
  ASSUME NEW m \in Messages
  PROVE  /\ Pieces(m) \in Seq(PieceType) /\ Delimited(Pieces(m))
         /\ Len(Pieces(m)) \in Nat /\ Len(Pieces(m)) >= 3
         /\ \A i \in 1..3 : Len(Pieces(m)[i].bytes) = 1
         /\ \A i \in 1..Len(Pieces(m)) : Open(Pieces(m)[i]) => i + 3 <= Len(Pieces(m))
         /\ \A i \in 1..2 : Len(Pieces(m)[Len(Pieces(m)) - 2 + i].bytes) = 1
<1> DEFINE fields == Layout(m.type)
           n == Len(fields)
           s == [i \in DOMAIN fields |-> FieldPieces(fields[i], m.values[i])]
           A == <<Piece(<<"stx">>), Piece(<<"7">>), Piece(<<"fs">>), Piece(m.type),
                  Piece(<<"fs">>)>>
           B == <<Piece(<<"etx">>), Piece(<<"lrc">>)>>
           F == FlattenSeq(s)
<1>1. Pieces(m) = A \o F \o B
  BY DEF Pieces
<1>2. m.type \in Seq(Byte)
  BY MessagesAssumption, BytesAre
<1>3. PICK S : fields \in Seq(S) /\ \A x \in S : x.end \in Byte
  BY LayoutFielded DEF Fielded
<1>4. n \in Nat /\ DOMAIN fields = 1..n /\ \A i \in 1..n : fields[i] \in S
  BY <1>3, LenProperties, ElementOfSeq
<1>5. \A i \in 1..n : m.values[i] \in Seq(Byte)
  <2>1. m.values \in [1..n -> Seq(STRING)]
    BY <1>4, MessagesAssumption
  <2> QED BY <2>1, BytesAre
<1> HIDE DEF fields, n
<1>6. \A i \in 1..n : /\ FieldPieces(fields[i], m.values[i]) \in Seq(PieceType)
                      /\ Delimited(FieldPieces(fields[i], m.values[i]))
  BY <1>3, <1>4, <1>5, FieldDelimited
<1>7. s \in [1..n -> Seq(PieceType)] /\ \A i \in 1..n : Delimited(s[i])
  BY <1>4, <1>6
<1> HIDE DEF s
<1>8. s \in Seq(Seq(PieceType)) /\ Len(s) = n
  BY <1>4, <1>7, SegmentIsSeq
<1>9. F \in Seq(PieceType) /\ Delimited(F)
  BY <1>7, <1>8, FieldsDelimited
<1>10. \A x \in Byte : /\ Piece(<<x>>) \in PieceType /\ ~Open(Piece(<<x>>))
                       /\ Len(Piece(<<x>>).bytes) = 1
  <2> TAKE x \in Byte
  <2> DEFINE e == <<x>>
  <2>1. e \in Seq(Byte) /\ Len(e) = 1
    OBVIOUS
  <2> HIDE DEF e
  <2>2. Piece(e) = [bytes |-> e, hex |-> FALSE, padded |-> FALSE]
    BY DEF Piece
  <2>3. Piece(e) \in PieceType /\ ~Open(Piece(e)) /\ Piece(e).bytes = e
    BY <2>1, <2>2 DEF PieceType, Open
  <2> QED BY <2>1, <2>3 DEF e
<1>11. Piece(m.type) \in PieceType /\ ~Open(Piece(m.type))
  <2> DEFINE e == m.type
  <2> HIDE DEF e
  <2>1. e \in Seq(Byte)
    BY <1>2 DEF e
  <2>2. Piece(e) = [bytes |-> e, hex |-> FALSE, padded |-> FALSE]
    BY DEF Piece
  <2>3. Piece(e) \in PieceType /\ ~Open(Piece(e))
    BY <2>1, <2>2 DEF PieceType, Open
  <2> QED BY <2>3 DEF e
<1>12. "stx" \in Byte /\ "7" \in Byte /\ "fs" \in Byte /\ "etx" \in Byte /\ "lrc" \in Byte
  BY DEF Byte
<1> DEFINE a1 == Piece(<<"stx">>)
           a2 == Piece(<<"7">>)
           a3 == Piece(<<"fs">>)
           a4 == Piece(m.type)
           b1 == Piece(<<"etx">>)
           b2 == Piece(<<"lrc">>)
<1>13. /\ a1 \in PieceType /\ ~Open(a1) /\ Len(a1.bytes) = 1
       /\ a2 \in PieceType /\ ~Open(a2) /\ Len(a2.bytes) = 1
       /\ a3 \in PieceType /\ ~Open(a3) /\ Len(a3.bytes) = 1
       /\ a4 \in PieceType /\ ~Open(a4)
       /\ b1 \in PieceType /\ ~Open(b1) /\ Len(b1.bytes) = 1
       /\ b2 \in PieceType /\ ~Open(b2) /\ Len(b2.bytes) = 1
  BY <1>10, <1>11, <1>12
<1>14. A = <<a1, a2, a3, a4, a3>> /\ B = <<b1, b2>>
  OBVIOUS
<1> HIDE DEF a1, a2, a3, a4, b1, b2, A, B, F
<1>15. /\ A \in Seq(PieceType) /\ Len(A) = 5
       /\ A[1] = a1 /\ A[2] = a2 /\ A[3] = a3 /\ A[4] = a4 /\ A[5] = a3
       /\ B \in Seq(PieceType) /\ Len(B) = 2 /\ B[1] = b1 /\ B[2] = b2
  BY <1>13, <1>14
<1>16. Delimited(A) /\ Delimited(B)
  <2>1. \A i \in 1..5 : ~Open(A[i])
    BY <1>13, <1>15
  <2>2. \A i \in 1..2 : ~Open(B[i])
    BY <1>13, <1>15
  <2> QED BY <1>15, <2>1, <2>2 DEF Delimited
<1>17. A \o F \in Seq(PieceType) /\ Delimited(A \o F)
  BY <1>9, <1>15, <1>16, DelimitedConcat
<1>18. (A \o F) \o B \in Seq(PieceType) /\ Delimited((A \o F) \o B)
  BY <1>15, <1>16, <1>17, DelimitedConcat
<1> DEFINE C == A \o F
           D == C \o B
<1>19. /\ Len(C) = 5 + Len(F) /\ Len(F) \in Nat
       /\ \A i \in 1..(5 + Len(F)) : C[i] = IF i <= 5 THEN A[i] ELSE F[i - 5]
  <2>1. /\ Len(A \o F) = Len(A) + Len(F)
        /\ \A i \in 1..(Len(A) + Len(F)) :
             (A \o F)[i] = IF i <= Len(A) THEN A[i] ELSE F[i - Len(A)]
    BY <1>9, <1>15, ConcatProperties, Zenon
  <2>2. Len(F) \in Nat
    BY <1>9, LenProperties
  <2>3. C = A \o F
    OBVIOUS
  <2> HIDE DEF C
  <2> QED BY <1>15, <2>1, <2>2, <2>3
<1> HIDE DEF C
<1>20. /\ Len(D) = Len(C) + 2
       /\ \A i \in 1..(Len(C) + 2) : D[i] = IF i <= Len(C) THEN C[i] ELSE B[i - Len(C)]
  <2>1. C \in Seq(PieceType)
    BY <1>17 DEF C
  <2>2. /\ Len(C \o B) = Len(C) + Len(B)
        /\ \A i \in 1..(Len(C) + Len(B)) :
             (C \o B)[i] = IF i <= Len(C) THEN C[i] ELSE B[i - Len(C)]
    BY <1>15, <2>1, ConcatProperties, Zenon
  <2>3. D = C \o B
    OBVIOUS
  <2> HIDE DEF D
  <2> QED BY <1>15, <2>2, <2>3
<1> HIDE DEF D
<1>21. \A i \in 1..3 : D[i] = A[i]
  <2> TAKE i \in 1..3
  <2>1. C[i] = A[i]
    BY <1>19
  <2>2. D[i] = C[i]
    BY <1>19, <1>20
  <2> QED BY <2>1, <2>2
<1>22. Len(D) \in Nat /\ Len(D) >= 3
  BY <1>19, <1>20
<1>23. \A i \in 1..3 : Len(D[i].bytes) = 1
  BY <1>13, <1>15, <1>21
<1>24. Pieces(m) = D
  BY <1>1 DEF D, C
<1>25. ASSUME NEW i \in 1..Len(D), Open(D[i]) PROVE i + 3 <= Len(D)
  <2>1. i <= Len(C)
    <3> SUFFICES ASSUME ~(i <= Len(C)) PROVE FALSE
      OBVIOUS
    <3> DEFINE j == i - Len(C)
    <3>1. j \in 1..2 /\ D[i] = B[j]
      BY <1>19, <1>20
    <3> HIDE DEF j
    <3> QED BY <1>13, <1>15, <1>25, <3>1
  <2>2. i \in 1..Len(C) /\ D[i] = C[i]
    BY <1>19, <1>20, <2>1
  <2>3. i + 1 \in 1..Len(C)
    BY <1>17, <1>25, <2>2 DEF Delimited, C
  <2> QED BY <1>19, <1>20, <2>3
<1>26. ASSUME NEW i \in 1..2 PROVE Len(D[Len(D) - 2 + i].bytes) = 1
  <2> DEFINE j == Len(D) - 2 + i
  <2>1. j \in 1..(Len(C) + 2) /\ ~(j <= Len(C)) /\ j - Len(C) = i
    BY <1>19, <1>20
  <2> HIDE DEF j
  <2>2. D[j] = B[i]
    BY <1>20, <2>1
  <2> QED BY <1>13, <1>15, <2>2 DEF j
<1> QED BY <1>18, <1>22, <1>23, <1>24, <1>25, <1>26 DEF D, C

-----------------------------------------------------------------------------
(* The inductive invariant *)

\* The bytes of a message, piece by piece; Encoding is all of them together.
Parts(m) == [i \in DOMAIN Pieces(m) |-> Pieces(m)[i].bytes]
Encoded(m, k) == Upto(Byte, Parts(m))[k]

Typed ==
  /\ text \in Seq(Byte) /\ msg \in Messages \cup {NULL} /\ size \in Nat /\ c \in Nat /\ pe \in Int
  /\ file \in Seq(STRING) \cup {NULL}

\* Where a text comes from: a message, a file, or neither.
Origins ==
  /\ pc \in {"copy", "refused"} => msg # NULL
  /\ pc \in {"read", "EFBIG", "EIO"} => file # NULL
  /\ pc \in {"read", "copy"} => c = 0
  /\ file # NULL => msg = NULL

\* What was read and what is left make the file, until all of it was read.
Reading ==
  file # NULL =>
    /\ pc = "read" => rest \in Seq(Byte) /\ text \o rest = file
    /\ pc \notin {"read", "EFBIG", "EIO"} => text = file /\ Len(file) < size
    /\ pc = "EFBIG" => Len(file) >= size

\* The pieces left are the last ones.
Left == LET k == Len(Pieces(msg)) - Len(todo)
        IN  /\ todo \in Seq(PieceType) /\ Len(todo) <= Len(Pieces(msg))
            /\ \A i \in 1..Len(todo) : todo[i] = Pieces(msg)[k + i]

(***************************************************************************)
(* The text is the first pieces of the message, byte by byte, or it has as *)
(* many bytes and the next piece does not fit: hex digits were counted but *)
(* not written, there is no room any more, and their delimiter wants some. *)
(***************************************************************************)
Copied == LET k == Len(Pieces(msg)) - Len(todo)
          IN  /\ free \in Nat /\ free = size - Len(text)
              /\ Len(text) = Len(Encoded(msg, k))
              /\ \/ text = Encoded(msg, k)
                 \/ free = 0 /\ todo # <<>> /\ Len(todo[1].bytes) # 0

Serializing ==
  msg # NULL =>
    /\ pc = "copy" => Left /\ Copied
    /\ pc \notin {"copy", "refused"} => text = Encoding(msg) /\ Len(text) <= size
    /\ pc = "refused" => Len(Encoding(msg)) > size /\ (Len(text) = 0 <=> size = 0)

\* Only serialize() writes to a buffer past its end.
Reached == reach \in Nat /\ (msg = NULL => reach = 0) /\ SlackSuffices

MessageInv ==
  Typed /\ Origins /\ Reading /\ Serializing /\ Reached /\ CursorInside /\ AllConsumed

-----------------------------------------------------------------------------
(* A message's encoding, piece by piece *)

\* Every piece adds its bytes; all of them are at least three bytes.
LEMMA EncodedIs ==
  ASSUME NEW m \in Messages
  PROVE  LET n == Len(Pieces(m))
         IN  /\ n \in Nat
             /\ \A k \in 0..n : Encoded(m, k) \in Seq(Byte) /\ Len(Encoded(m, k)) \in Nat
             /\ Encoded(m, 0) = <<>>
             /\ \A k \in 1..n :
                  /\ Encoded(m, k) = Encoded(m, k - 1) \o Pieces(m)[k].bytes
                  /\ Pieces(m)[k].bytes \in Seq(Byte) /\ Len(Pieces(m)[k].bytes) \in Nat
                  /\ Len(Encoded(m, k)) = Len(Encoded(m, k - 1)) + Len(Pieces(m)[k].bytes)
             /\ Encoding(m) = Encoded(m, n)
             /\ \A k \in 0..n : Len(Encoded(m, k)) <= Len(Encoding(m))
             /\ \A k \in 0..n : \A j \in k..n : Len(Encoded(m, k)) <= Len(Encoded(m, j))
             /\ Len(Encoding(m)) >= 3
<1> DEFINE P == Pieces(m)
           n == Len(P)
           s == Parts(m)
<1>1. /\ P \in Seq(PieceType) /\ n \in Nat /\ n >= 3
      /\ \A i \in 1..3 : Len(P[i].bytes) = 1
  BY PiecesAre
<1>2. DOMAIN P = 1..n /\ \A k \in 1..n : P[k] \in PieceType
  BY <1>1, LenProperties, ElementOfSeq
<1>3. \A k \in 1..n : P[k].bytes \in Seq(Byte) /\ Len(P[k].bytes) \in Nat
  BY <1>2, LenProperties DEF PieceType
<1>4. s = [i \in DOMAIN P |-> P[i].bytes] /\ Encoding(m) = FlattenSeq(s)
  BY DEF Parts, Encoding
<1> HIDE DEF P, n, s
<1>5. s \in [1..n -> Seq(Byte)] /\ \A k \in 1..n : s[k] = P[k].bytes
  BY <1>2, <1>3, <1>4
<1>6. s \in Seq(Seq(Byte)) /\ Len(s) = n
  BY <1>1, <1>5, SegmentIsSeq
<1> DEFINE u == Upto(Byte, s)
<1>7. Joins(Byte, s, u) /\ Encoding(m) = u[n]
  BY <1>4, <1>6, JoinsExist, FlattenIsLast
<1>8. \A k \in 0..n : \A j \in k..n : Len(u[k]) <= Len(u[j])
  BY <1>6, JoinsGrow
<1>9. \A k : Encoded(m, k) = u[k]
  BY DEF Encoded, s
<1> HIDE DEF u
<1>10. \A k \in 0..n : u[k] \in Seq(Byte) /\ Len(u[k]) \in Nat
  BY <1>6, <1>7, LenProperties DEF Joins
<1>11. u[0] = <<>> /\ \A k \in 1..n : u[k] = u[k - 1] \o P[k].bytes
  BY <1>5, <1>6, <1>7 DEF Joins
<1>12. ASSUME NEW k \in 1..n PROVE Len(u[k]) = Len(u[k - 1]) + Len(P[k].bytes)
  <2>1. k - 1 \in 0..n
    BY <1>1
  <2>2. u[k - 1] \in Seq(Byte) /\ P[k].bytes \in Seq(Byte)
    BY <1>3, <1>10, <2>1
  <2>3. u[k] = u[k - 1] \o P[k].bytes
    BY <1>11
  <2> QED BY <2>2, <2>3, ConcatProperties
<1>13. Len(u[n]) >= 3
  <2>0. 0 \in 0..n /\ 1 \in 1..n /\ 2 \in 1..n /\ 3 \in 1..n
    BY <1>1
  <2>1. Len(u[0]) = 0
    BY <1>11, EmptySeq
  <2>a. /\ Len(u[1]) = Len(u[1 - 1]) + Len(P[1].bytes)
        /\ Len(u[2]) = Len(u[2 - 1]) + Len(P[2].bytes)
        /\ Len(u[3]) = Len(u[3 - 1]) + Len(P[3].bytes)
    BY <1>12, <2>0, Zenon
  <2>b. Len(P[1].bytes) = 1 /\ Len(P[2].bytes) = 1 /\ Len(P[3].bytes) = 1
    BY <1>1
  <2>c. 1 - 1 = 0 /\ 2 - 1 = 1 /\ 3 - 1 = 2
    OBVIOUS
  <2>2. Len(u[1]) = Len(u[0]) + 1 /\ Len(u[2]) = Len(u[1]) + 1 /\ Len(u[3]) = Len(u[2]) + 1
    BY <2>a, <2>b, <2>c, Zenon
  <2>3. Len(u[3]) = 3
    BY <2>1, <2>2
  <2>4. Len(u[3]) <= Len(u[n])
    BY <1>1, <1>8
  <2>5. Len(u[n]) \in Nat
    BY <1>1, <1>10
  <2> QED BY <2>3, <2>4, <2>5
<1>14. \A k \in 0..n : Len(u[k]) <= Len(u[n])
  BY <1>1, <1>8
<1> QED BY <1>1, <1>3, <1>7, <1>8, <1>9, <1>10, <1>11, <1>12, <1>13, <1>14 DEF P, n

\* Behind a string, or digits, there are a delimiter, the etx and the lrc.
LEMMA ThreeMore ==
  ASSUME NEW m \in Messages, NEW i \in 1..Len(Pieces(m)), Open(Pieces(m)[i])
  PROVE  Len(Encoded(m, i - 1)) + 3 <= Len(Encoding(m))
<1> DEFINE P == Pieces(m)
           n == Len(P)
           L(k) == Len(Encoded(m, k))
<1>1. /\ n \in Nat /\ \A k \in 0..n : L(k) \in Nat
      /\ \A k \in 1..n : L(k) = L(k - 1) + Len(P[k].bytes) /\ Len(P[k].bytes) \in Nat
      /\ Len(Encoding(m)) = L(n)
      /\ \A k \in 0..n : \A j \in k..n : L(k) <= L(j)
  BY EncodedIs
<1>2. /\ i + 3 <= n /\ Len(P[n - 2 + 1].bytes) = 1 /\ Len(P[n - 2 + 2].bytes) = 1
  BY PiecesAre
<1>3. /\ i + 1 \in 1..n /\ Len(P[i + 1].bytes) = 1
  BY PiecesAre DEF Delimited
<1>4. i \in 1..n
  OBVIOUS
<1> HIDE DEF P, n, L
<1>5. L(i + 1) >= L(i - 1) + 1
  <2> DEFINE j == i + 1
  <2>1. j \in 1..n /\ j - 1 = i
    BY <1>3, <1>4
  <2> HIDE DEF j
  <2>2. L(j) = L(j - 1) + Len(P[j].bytes)
    BY <1>1, <2>1
  <2>3. Len(P[j].bytes) = 1
    BY <1>3 DEF j
  <2>4. L(i) = L(i - 1) + Len(P[i].bytes) /\ Len(P[i].bytes) \in Nat
    BY <1>1, <1>4
  <2>5. L(i - 1) \in Nat
    BY <1>1, <1>4
  <2>6. L(j) >= L(i - 1) + 1
    BY <2>1, <2>2, <2>3, <2>4, <2>5
  <2> QED BY <2>6 DEF j
<1>6. L(n) = L(n - 2) + 2
  <2> DEFINE a == n - 1
  <2>1. a \in 1..n /\ n \in 1..n /\ a - 1 = n - 2 /\ n - 2 + 1 = a /\ n - 2 + 2 = n /\ n - 1 = a
    BY <1>1, <1>2, <1>4
  <2> HIDE DEF a
  <2>2. L(a) = L(a - 1) + Len(P[a].bytes) /\ L(n) = L(n - 1) + Len(P[n].bytes)
    BY <1>1, <2>1
  <2>3. Len(P[a].bytes) = 1 /\ Len(P[n].bytes) = 1
    BY <1>2, <2>1
  <2>4. L(n - 2) \in Nat
    BY <1>1, <1>2, <1>4
  <2>5. L(a) = L(n - 2) + 1 /\ L(n) = L(a) + 1
    BY <2>1, <2>2, <2>3
  <2> QED BY <2>4, <2>5
<1>7. L(i + 1) <= L(n - 2)
  <2> DEFINE a == i + 1
             b == n - 2
  <2>1. a \in 0..n /\ b \in a..n
    BY <1>1, <1>2, <1>4
  <2> HIDE DEF a, b
  <2>2. L(a) <= L(b)
    BY <1>1, <2>1
  <2> QED BY <2>2 DEF a, b
<1>8. L(i - 1) \in Nat /\ L(i + 1) \in Nat /\ L(n - 2) \in Nat
  BY <1>1, <1>2, <1>3, <1>4
<1>9. L(i - 1) + 3 <= L(n)
  BY <1>5, <1>6, <1>7, <1>8
<1> QED BY <1>1, <1>9 DEF L

\* A message begins with a byte that is a piece of its own.
LEMMA FirstByte ==
  ASSUME NEW m \in Messages, NEW k \in 1..Len(Pieces(m))
  PROVE  Len(Encoded(m, k)) >= 1
<1> DEFINE n == Len(Pieces(m))
<1>1. /\ n \in Nat /\ \A j \in 0..n : Len(Encoded(m, j)) \in Nat
      /\ Encoded(m, 0) = <<>>
      /\ \A j \in 1..n : Len(Encoded(m, j)) = Len(Encoded(m, j - 1)) + Len(Pieces(m)[j].bytes)
      /\ \A i \in 0..n : \A j \in i..n : Len(Encoded(m, i)) <= Len(Encoded(m, j))
  BY EncodedIs
<1>2. Len(Pieces(m)[1].bytes) = 1
  BY PiecesAre
<1>3. k \in 1..n
  OBVIOUS
<1> HIDE DEF n
<1>4. 1 \in 1..n /\ 1 \in 0..n /\ k \in 1..n /\ 1 - 1 = 0
  BY <1>1, <1>3
<1>5. Len(Encoded(m, 0)) = 0
  BY <1>1, EmptySeq
<1>6. Len(Encoded(m, 1)) = Len(Encoded(m, 1 - 1)) + Len(Pieces(m)[1].bytes)
  BY <1>1, <1>4, Zenon
<1>10. Encoded(m, 1 - 1) = Encoded(m, 0)
  BY <1>4, Zenon
<1>7. Len(Encoded(m, 1)) = 1
  <2>1. Len(Encoded(m, 1 - 1)) = 0
    BY <1>5, <1>10, Zenon
  <2>2. Len(Encoded(m, 1)) = 0 + 1
    BY <1>2, <1>6, <2>1, Zenon
  <2> QED BY <2>2
<1>8. Len(Encoded(m, 1)) <= Len(Encoded(m, k))
  BY <1>1, <1>4
<1>9. Len(Encoded(m, k)) \in Nat
  BY <1>1, <1>3
<1> QED BY <1>7, <1>8, <1>9

\* A class takes no more bytes than there are before the end.
LEMMA RunInside ==
  ASSUME pe \in Nat, p \in 1..pe
  PROVE  \A class : Run(class) \in 0..(pe - p)
<1> TAKE class
<1> DEFINE N == pe - p
           S == {n \in 0..(pe - p) :
                   n <= AtMost(class) /\ \A i \in p..(p + n - 1) : text[i] \in Chars(class)}
<1>1. N \in Nat
  OBVIOUS
<1>2. AtMost(class) >= 0
  <2>1. AtMost(class) \in {1, 3, pe - p}
    BY DEF AtMost
  <2> QED BY <1>1, <2>1
<1>3. 0 \in S
  <2>1. 0 \in 0..(pe - p) /\ \A i \in p..(p + 0 - 1) : FALSE
    OBVIOUS
  <2> QED BY <1>2, <2>1
<1>4. S \in SUBSET (0..N)
  OBVIOUS
<1>5. Run(class) = Max(S)
  BY DEF Run
<1> HIDE DEF S
<1>6. Max(S) \in S
  BY <1>1, <1>3, <1>4, MaxIsIn
<1> QED BY <1>4, <1>5, <1>6

-----------------------------------------------------------------------------
(* The start *)

\* A call of serialize, of parse_message or of slurp begins in the invariant.
LEMMA MessageInit == SlurpInit => MessageInv
<1> SUFFICES ASSUME SlurpInit PROVE MessageInv
  OBVIOUS
<1> DEFINE e == <<>>
<1>0. e \in Seq(Byte) /\ e \in Seq(STRING) /\ Len(e) = 0
  BY EmptySeq
<1>1. ASSUME NEW m \in Messages, NEW s \in Sizes,
             Start(m, s, Pieces(m), e, "copy"), file = NULL, rest = e
      PROVE  MessageInv
  <2>1. /\ msg = m /\ size = s /\ free = s /\ todo = Pieces(m) /\ text = e
        /\ reach = 0 /\ pc = "copy" /\ c = 0 /\ pe = Len(e) + 1
    BY <1>1 DEF Start
  <2>2. msg # NULL /\ size \in Nat
    BY <2>1, MessagesAssumption, WidthAssumption
  <2>3. /\ Pieces(m) \in Seq(PieceType) /\ Len(Pieces(m)) \in Nat
        /\ Encoded(m, 0) = e
    BY PiecesAre, EncodedIs
  <2> HIDE DEF e
  <2>4. Left
    <3> DEFINE n == Len(Pieces(m))
    <3>1. n \in Nat /\ n - n = 0
      BY <2>3
    <3> HIDE DEF n
    <3>2. \A i \in 1..n : 0 + i = i
      BY <3>1
    <3> QED BY <2>1, <2>3, <3>1, <3>2 DEF Left, n
  <2>5. Copied
    <3> DEFINE n == Len(Pieces(m))
    <3>1. n - n = 0
      BY <2>3
    <3>2. size - 0 = size
      BY <2>2
    <3> HIDE DEF n
    <3> QED BY <1>0, <2>1, <2>2, <2>3, <3>1, <3>2 DEF Copied, n
  <2>6. Serializing
    BY <2>1, <2>4, <2>5 DEF Serializing
  <2>7. Typed /\ Origins /\ Reading
    BY <1>0, <1>1, <2>1, <2>2 DEF Typed, Origins, Reading
  <2>8. CursorInside /\ AllConsumed /\ Reached
    BY <2>1, <2>2 DEF CursorInside, AllConsumed, Reached, SlackSuffices
  <2> QED BY <2>6, <2>7, <2>8 DEF MessageInv
<1>2. ASSUME NEW bytes \in Texts, Start(NULL, 0, e, bytes, "header"),
             file = NULL, rest = e
      PROVE  MessageInv
  <2>1. /\ msg = NULL /\ size = 0 /\ text = bytes /\ pc = "header" /\ c = 0 /\ reach = 0
        /\ p = 1 /\ pe = Len(bytes) + 1
    BY <1>2 DEF Start
  <2>2. bytes \in Seq(Byte) /\ Len(bytes) \in Nat
    <3>1. bytes \in Seq(STRING)
      BY MessagesAssumption
    <3> QED BY <3>1, BytesAre, LenProperties
  <2>3. Typed /\ Origins /\ Reading /\ Serializing
    BY <1>2, <2>1, <2>2 DEF Typed, Origins, Reading, Serializing
  <2>4. CursorInside /\ AllConsumed /\ Reached
    BY <2>1, <2>2 DEF CursorInside, AllConsumed, Reached, SlackSuffices
  <2> QED BY <2>3, <2>4 DEF MessageInv
<1>3. ASSUME NEW bytes \in Files, NEW s \in Buffers,
             Start(NULL, s, e, e, "read"), file = bytes, rest = bytes
      PROVE  MessageInv
  <2>1. /\ msg = NULL /\ size = s /\ text = e /\ pc = "read" /\ c = 0 /\ reach = 0
        /\ pe = Len(e) + 1
    BY <1>3 DEF Start
  <2>2. bytes \in Seq(STRING) /\ file # NULL /\ size \in Nat
    BY <1>3, <2>1, FilesAssumption, BuffersAssumption
  <2>3. bytes \in Seq(Byte) /\ e \o bytes = bytes
    BY <2>2, BytesAre, ConcatEmptySeq
  <2> HIDE DEF e
  <2>4. Typed /\ Origins /\ Reading /\ Serializing
    BY <1>0, <1>3, <2>1, <2>2, <2>3 DEF Typed, Origins, Reading, Serializing
  <2>5. CursorInside /\ AllConsumed /\ Reached
    BY <2>1, <2>2 DEF CursorInside, AllConsumed, Reached, SlackSuffices
  <2> QED BY <2>4, <2>5 DEF MessageInv
<1> QED BY <1>1, <1>2, <1>3 DEF SlurpInit, Init

-----------------------------------------------------------------------------
(* serialize() *)

\* The piece that is copied next.
LEMMA NextPiece ==
  ASSUME MessageInv, pc = "copy", todo # <<>>
  PROVE  LET n == Len(Pieces(msg))
             k == n - Len(todo)
         IN  /\ msg \in Messages /\ n \in Nat /\ k + 1 \in 1..n /\ Len(todo) \in Nat
             /\ Head(todo) = todo[1] /\ todo[1] = Pieces(msg)[k + 1]
             /\ Pieces(msg)[k + 1].bytes \in Seq(Byte)
             /\ Len(Pieces(msg)[k + 1].bytes) \in Nat
<1> DEFINE n == Len(Pieces(msg))
           k == n - Len(todo)
<1>1. msg \in Messages /\ msg # NULL
  BY DEF MessageInv, Origins, Typed
<1>2. /\ todo \in Seq(PieceType) /\ Len(todo) <= n
      /\ \A i \in 1..Len(todo) : todo[i] = Pieces(msg)[k + i]
  BY <1>1 DEF MessageInv, Serializing, Left
<1>3. n \in Nat /\ \A i \in 1..n : Pieces(msg)[i].bytes \in Seq(Byte)
                                   /\ Len(Pieces(msg)[i].bytes) \in Nat
  BY <1>1, EncodedIs
<1>4. Len(todo) \in Nat /\ Len(todo) # 0 /\ Head(todo) = todo[1]
  BY <1>2, EmptySeq, LenProperties, HeadTailProperties
<1> HIDE DEF n
<1>5. k + 1 \in 1..n /\ 1 \in 1..Len(todo)
  BY <1>2, <1>3, <1>4
<1>6. todo[1] = Pieces(msg)[k + 1]
  BY <1>2, <1>5
<1> HIDE DEF k
<1> QED BY <1>1, <1>3, <1>4, <1>5, <1>6 DEF n, k

\* However much of an array the serializer of a piece writes, what it writes past
\* the end of the buffer is less than an array without three bytes past the text's.
LEMMA Reaches ==
  ASSUME MessageInv, pc = "copy", todo # <<>>, msg' = msg, size' = size,
         reach' = Further(Len(text) + Touched(Head(todo)))
  PROVE  Reached'
<1> DEFINE n == Len(Pieces(msg))
           k == n - Len(todo)
           h == Pieces(msg)[k + 1]
           u == Touched(h)
           L == Len(Encoding(msg))
<1>1. /\ msg \in Messages /\ n \in Nat /\ k + 1 \in 1..n /\ Len(todo) \in Nat
      /\ Head(todo) = todo[1] /\ todo[1] = h
      /\ h.bytes \in Seq(Byte) /\ Len(h.bytes) \in Nat
  BY NextPiece
<1>2. msg # NULL /\ size \in Nat /\ reach \in Nat /\ SlackSuffices /\ Copied
      /\ text \in Seq(Byte)
  BY DEF MessageInv, Origins, Typed, Serializing, Reached
<1>3. free \in Nat /\ free = size - Len(text) /\ Len(text) = Len(Encoded(msg, k))
  BY <1>2 DEF Copied
<1>4. Width \in Nat /\ Len(text) \in Nat
  BY <1>2, WidthAssumption, LenProperties
<1>5. L \in Nat
  <2>1. n \in 0..n
    BY <1>1
  <2> QED BY <1>1, <2>1, EncodedIs
<1>6. u \in Nat /\ (~h.padded => u <= free) /\ (h.padded => u = Width)
  BY <1>1, <1>3, <1>4 DEF Touched
<1>7. h.padded => Len(text) + 3 <= L
  <2> SUFFICES ASSUME h.padded PROVE Len(text) + 3 <= L
    OBVIOUS
  <2> DEFINE j == k + 1
  <2>1. j \in 1..n /\ j - 1 = k /\ Open(Pieces(msg)[j])
    BY <1>1 DEF Open
  <2> HIDE DEF j, k
  <2>2. Len(Encoded(msg, j - 1)) + 3 <= L
    BY <1>1, <2>1, ThreeMore
  <2> QED BY <1>3, <2>1, <2>2
<1>8. reach' = IF Len(text) + u > reach THEN Len(text) + u ELSE reach
  BY <1>1 DEF Further
<1>9. Len(text) + u > size => size < L + Width - 3
  <2>1. CASE h.padded
    BY <1>2, <1>3, <1>4, <1>5, <1>6, <1>7, <2>1
  <2>2. CASE ~h.padded
    BY <1>2, <1>3, <1>4, <1>6, <2>2
  <2> QED BY <2>1, <2>2
<1>10. reach > size => size < L + Width - 3
  BY <1>2 DEF SlackSuffices
<1> HIDE DEF L, u, h, k, n
<1>11. reach' \in Nat /\ (reach' > size => size < L + Width - 3)
  BY <1>2, <1>4, <1>6, <1>8, <1>9, <1>10
<1>12. (Len(Encoding(msg)))' = L
  BY DEF L
<1> QED BY <1>2, <1>11, <1>12 DEF Reached, SlackSuffices

\* A piece that fits, or the digits that only get counted, keep the invariant.
LEMMA CopiesKeeps ==
  ASSUME MessageInv, Copies, UNCHANGED <<file, rest>>
  PROVE  MessageInv'
<1> DEFINE n == Len(Pieces(msg))
           k == n - Len(todo)
           h == Pieces(msg)[k + 1].bytes
           W == Written(Head(todo))
<1>1. /\ pc = "copy" /\ todo # <<>> /\ Len(Head(todo).bytes) <= free
      /\ text' = text \o W /\ free' = free - Len(Head(todo).bytes) /\ todo' = Tail(todo)
      /\ msg' = msg /\ size' = size /\ pc' = pc /\ c' = c /\ pe' = pe /\ file' = file /\ rest' = rest
      /\ reach' = Further(Len(text) + Touched(Head(todo)))
  BY DEF Copies, Copying, Fits, Parser
<1>2. /\ msg \in Messages /\ n \in Nat /\ k + 1 \in 1..n /\ Len(todo) \in Nat
      /\ Head(todo) = todo[1] /\ todo[1] = Pieces(msg)[k + 1]
      /\ h \in Seq(Byte) /\ Len(h) \in Nat
  BY <1>1, NextPiece
<1>3. /\ msg # NULL /\ text \in Seq(Byte) /\ size \in Nat /\ file = NULL
      /\ Left /\ Copied
  BY <1>1 DEF MessageInv, Origins, Typed, Serializing
<1>4. Head(todo).bytes = h
  BY <1>2
<1> HIDE DEF h
<1>5. /\ todo \in Seq(PieceType) /\ Len(todo) <= n
      /\ \A i \in 1..Len(todo) : todo[i] = Pieces(msg)[k + i]
  BY <1>3 DEF Left
<1>6. /\ free \in Nat /\ free = size - Len(text)
      /\ Len(text) = Len(Encoded(msg, k))
      /\ \/ text = Encoded(msg, k)
         \/ free = 0 /\ todo # <<>> /\ Len(todo[1].bytes) # 0
  BY <1>3 DEF Copied
<1>7. text = Encoded(msg, k)
  BY <1>1, <1>2, <1>4, <1>6
<1>8. /\ Encoded(msg, k + 1) = Encoded(msg, k) \o h
      /\ Len(Encoded(msg, k + 1)) = Len(Encoded(msg, k)) + Len(h)
  <2> DEFINE j == k + 1
  <2>1. j - 1 = k /\ j \in 1..n
    BY <1>2
  <2> HIDE DEF j, n, k
  <2>2. /\ Encoded(msg, j) = Encoded(msg, j - 1) \o Pieces(msg)[j].bytes
        /\ Len(Encoded(msg, j)) = Len(Encoded(msg, j - 1)) + Len(Pieces(msg)[j].bytes)
    BY <1>2, <2>1, EncodedIs DEF n
  <2> QED BY <2>1, <2>2 DEF j, h
<1>9. W \in Seq(Byte) /\ Len(W) = Len(h)
      /\ (W = h \/ (Head(todo).hex /\ free = Len(h)))
  <2>1. CASE Head(todo).hex /\ free < Len(h) + 1
    <3>1. W = [i \in DOMAIN h |-> "?"]
      BY <1>4, <2>1 DEF Written
    <3>2. DOMAIN h = 1..Len(h)
      BY <1>2, LenProperties
    <3>3. W \in [1..Len(h) -> Byte]
      BY <3>1, <3>2 DEF Byte
    <3> HIDE DEF W
    <3>4. free = Len(h)
      BY <1>1, <1>2, <1>4, <1>6, <2>1
    <3> QED BY <1>2, <2>1, <3>3, <3>4, SegmentIsSeq
  <2>2. CASE ~(Head(todo).hex /\ free < Len(h) + 1)
    <3>1. W = h
      BY <1>4, <2>2 DEF Written
    <3> QED BY <1>2, <3>1
  <2> QED BY <2>1, <2>2
<1> HIDE DEF W
<1>10. text' \in Seq(Byte) /\ Len(text') = Len(text) + Len(h) /\ Len(text) \in Nat
  <2>1. text \o W \in Seq(Byte) /\ Len(text \o W) = Len(text) + Len(W)
    BY <1>3, <1>9, ConcatProperties
  <2> QED BY <1>1, <1>3, <1>9, <2>1, LenProperties
<1>11. /\ todo' \in Seq(PieceType) /\ Len(todo') = Len(todo) - 1
       /\ \A i \in 1..Len(todo') : todo'[i] = todo[i + 1]
  BY <1>1, <1>5, HeadTailProperties
<1> DEFINE k2 == n - Len(todo')
<1>12. k2 = k + 1
  BY <1>2, <1>11
<1> HIDE DEF n
<1>13. Left'
  <2>1. Len(todo') <= n
    BY <1>2, <1>5, <1>11
  <2>2. ASSUME NEW i \in 1..Len(todo') PROVE todo'[i] = Pieces(msg)[k2 + i]
    <3>1. i + 1 \in 1..Len(todo) /\ k + (i + 1) = k2 + i
      BY <1>2, <1>11, <1>12
    <3>2. todo[i + 1] = Pieces(msg)[k + (i + 1)]
      BY <1>5, <3>1
    <3> QED BY <1>11, <3>1, <3>2
  <2> QED BY <1>1, <1>11, <2>1, <2>2 DEF Left, n
<1>14. Copied'
  <2>1. free' \in Nat /\ free' = size' - Len(text')
    <3>1. free' = free - Len(h)
      BY <1>1, <1>4
    <3>2. Len(h) <= free /\ Len(h) \in Nat /\ size' = size
      BY <1>1, <1>2, <1>4
    <3>3. free \in Nat /\ free = size - Len(text) /\ size \in Nat
      BY <1>3, <1>6
    <3> QED BY <1>10, <3>1, <3>2, <3>3
  <2>2. Len(text') = Len(Encoded(msg, k2))
    <3>1. Len(text') = Len(Encoded(msg, k + 1))
      BY <1>6, <1>8, <1>10
    <3> QED BY <1>12, <3>1
  <2>3. text' = Encoded(msg, k2) \/ (free' = 0 /\ todo' # <<>> /\ Len(todo'[1].bytes) # 0)
    <3>1. CASE W = h
      <4>1. text' = Encoded(msg, k + 1)
        BY <1>1, <1>7, <1>8, <3>1
      <4> QED BY <1>12, <4>1
    <3>2. CASE Head(todo).hex /\ free = Len(h)
      <4>1. free' = 0
        BY <1>1, <1>2, <1>4, <3>2
      <4>2. Pieces(msg)[k + 1].hex
        BY <1>2, <3>2
      <4>3. Delimited(Pieces(msg))
        BY <1>2, PiecesAre
      <4> DEFINE j == k + 1
      <4>4. j + 1 \in 1..n /\ Len(Pieces(msg)[j + 1].bytes) = 1
        <5>1. j \in 1..n /\ Pieces(msg)[j].hex
          BY <1>2, <4>2
        <5> HIDE DEF j
        <5> QED BY <4>3, <5>1 DEF Delimited, Open, n
      <4>5. 1 \in 1..Len(todo') /\ k2 + 1 = j + 1
        BY <1>2, <1>11, <1>12, <4>4
      <4>6. todo'[1] = Pieces(msg)[k2 + 1]
        BY <1>1, <1>13, <4>5 DEF Left, n
      <4>7. todo' # <<>>
        <5>1. Len(todo') # 0
          BY <4>5
        <5> QED BY <5>1, EmptySeq
      <4> HIDE DEF j, k2
      <4>8. Len(todo'[1].bytes) = 1
        BY <4>4, <4>5, <4>6
      <4> QED BY <4>1, <4>7, <4>8
    <3> QED BY <1>9, <3>1, <3>2
  <2> QED BY <1>1, <2>1, <2>2, <2>3 DEF Copied, n
<1>15. Serializing'
  BY <1>1, <1>13, <1>14 DEF Serializing
<1>16. Typed' /\ Origins' /\ Reading' /\ CursorInside' /\ AllConsumed'
  BY <1>1, <1>3, <1>10
     DEF MessageInv, Typed, Origins, Reading, CursorInside, AllConsumed
<1>17. Reached'
  BY <1>1, Reaches
<1> QED BY <1>15, <1>16, <1>17 DEF MessageInv

\* serialize() bails out only when the whole message has no room.
LEMMA BailsKeeps ==
  ASSUME MessageInv, Bails, UNCHANGED <<file, rest>>
  PROVE  MessageInv'
<1> DEFINE n == Len(Pieces(msg))
           k == n - Len(todo)
           h == Pieces(msg)[k + 1].bytes
<1>1. /\ pc = "copy" /\ todo # <<>> /\ ~(Len(Head(todo).bytes) <= free)
      /\ pc' = "refused" /\ msg' = msg /\ size' = size /\ text' = text /\ c' = c /\ pe' = pe
      /\ file' = file /\ rest' = rest
      /\ reach' = Further(Len(text) + Touched(Head(todo)))
  BY DEF Bails, Copying, Fits, Parser
<1>2. /\ msg \in Messages /\ n \in Nat /\ k + 1 \in 1..n /\ Len(todo) \in Nat
      /\ Head(todo) = todo[1] /\ todo[1] = Pieces(msg)[k + 1]
      /\ h \in Seq(Byte) /\ Len(h) \in Nat
  BY <1>1, NextPiece
<1>3. /\ msg # NULL /\ text \in Seq(Byte) /\ size \in Nat /\ file = NULL /\ Copied
  BY <1>1 DEF MessageInv, Origins, Typed, Serializing
<1>4. free \in Nat /\ free = size - Len(text) /\ Len(text) = Len(Encoded(msg, k))
  BY <1>3 DEF Copied
<1>5. ~(Len(h) <= free)
  BY <1>1, <1>2
<1> DEFINE j == k + 1
<1>6. j - 1 = k /\ j \in 1..n /\ j \in 0..n
  BY <1>2
<1> HIDE DEF j, k
<1>7. Len(Encoded(msg, j)) = Len(Encoded(msg, j - 1)) + Len(Pieces(msg)[j].bytes)
      /\ Len(Encoded(msg, j)) <= Len(Encoding(msg)) /\ Len(Encoded(msg, j)) \in Nat
  BY <1>2, <1>6, EncodedIs
<1>8. Len(Encoding(msg)) >= Len(text) + Len(h) /\ Len(Encoding(msg)) \in Nat
  <2>1. Len(Encoding(msg)) \in Nat
    <3>1. n \in 0..n
      BY <1>2
    <3> QED BY <1>2, <3>1, EncodedIs
  <2>2. Len(Encoded(msg, j)) = Len(text) + Len(h)
    BY <1>4, <1>6, <1>7 DEF j
  <2> QED BY <1>7, <2>1, <2>2
<1>9. Len(text) \in Nat
  BY <1>3, LenProperties
<1>a. Len(text) = 0 <=> size = 0
  <2>1. size = 0 => Len(text) = 0
    BY <1>3, <1>4, <1>9
  <2>2. ASSUME Len(text) = 0, size # 0 PROVE FALSE
    <3>1. k = 0
      <4> SUFFICES ASSUME k # 0 PROVE FALSE
        OBVIOUS
      <4>1. k \in 1..n
        BY <1>2 DEF k
      <4> HIDE DEF k, n
      <4>2. Len(Encoded(msg, k)) >= 1
        BY <1>2, <4>1, FirstByte DEF n
      <4> QED BY <1>4, <2>2, <4>2
    <3>2. Len(h) = 1
      <4>1. k + 1 = 1
        BY <3>1
      <4>2. Len(Pieces(msg)[1].bytes) = 1
        BY <1>2, PiecesAre
      <4> QED BY <4>1, <4>2
    <3> QED BY <1>3, <1>4, <1>5, <2>2, <3>2
  <2> QED BY <2>1, <2>2
<1> HIDE DEF h, n
<1>10. Len(Encoding(msg)) > size
  BY <1>2, <1>3, <1>4, <1>5, <1>8, <1>9
<1>11. Encoding(msg)' = Encoding(msg')
  OBVIOUS
<1>12. Serializing'
  BY <1>1, <1>10, <1>11, <1>a DEF Serializing
<1>13. Typed' /\ Origins' /\ Reading' /\ CursorInside' /\ AllConsumed'
  BY <1>1, <1>3 DEF MessageInv, Typed, Origins, Reading, CursorInside, AllConsumed
<1>14. Reached'
  BY <1>1, Reaches
<1> QED BY <1>12, <1>13, <1>14 DEF MessageInv

\* When the last piece is written the text is the encoding and fits.
LEMMA SealedIs ==
  ASSUME MessageInv, Seals
  PROVE  /\ msg # NULL /\ msg \in Messages /\ text = Encoding(msg)
         /\ Len(text) \in Nat /\ Len(text) >= 3 /\ Len(text) <= size
<1> DEFINE n == Len(Pieces(msg))
<1>1. pc = "copy" /\ todo = <<>>
  BY DEF Seals
<1>2. /\ msg # NULL /\ msg \in Messages /\ text \in Seq(Byte) /\ size \in Nat /\ Copied
  BY <1>1 DEF MessageInv, Origins, Typed, Serializing
<1>3. n \in Nat /\ Encoding(msg) = Encoded(msg, n) /\ Len(Encoding(msg)) >= 3
  BY <1>2, EncodedIs
<1>4. Len(todo) = 0 /\ n - Len(todo) = n
  BY <1>1, <1>3, EmptySeq
<1> HIDE DEF n
<1>5. free \in Nat /\ free = size - Len(text) /\ text = Encoding(msg)
  BY <1>1, <1>2, <1>3, <1>4 DEF Copied, n
<1>6. Len(text) \in Nat /\ Len(text) >= 3 /\ Len(text) <= size
  BY <1>2, <1>3, <1>5, LenProperties
<1> QED BY <1>2, <1>5, <1>6

\* What it goes on to the parser with keeps the invariant.
LEMMA SealsKeeps ==
  ASSUME MessageInv, Seals, UNCHANGED <<file, rest>>
  PROVE  MessageInv'
<1>1. /\ pc = "copy" /\ pc' \in {"header", "misframed"} /\ p' = 2 /\ pe' = Len(text) - 1
      /\ msg' = msg /\ size' = size /\ text' = text /\ c' = c
      /\ file' = file /\ rest' = rest /\ reach' = reach
  BY DEF Seals
<1>2. file = NULL /\ c = 0 /\ text \in Seq(Byte) /\ size \in Nat
  BY <1>1 DEF MessageInv, Origins, Typed
<1>5. text = Encoding(msg) /\ msg # NULL /\ msg \in Messages
  BY SealedIs
<1>6. Len(text) \in Nat /\ Len(text) >= 3 /\ Len(text) <= size
  BY SealedIs
<1>7. Serializing'
  BY <1>1, <1>5, <1>6 DEF Serializing
<1>8. CursorInside' /\ AllConsumed'
  BY <1>1, <1>2, <1>6 DEF CursorInside, AllConsumed
<1>9. Typed' /\ Origins' /\ Reading'
  BY <1>1, <1>2, <1>5, <1>6 DEF MessageInv, Typed, Origins, Reading
<1>10. Reached'
  BY <1>1 DEF MessageInv, Reached, SlackSuffices
<1> QED BY <1>7, <1>8, <1>9, <1>10 DEF MessageInv

-----------------------------------------------------------------------------
(* The parser *)

\* A step of the parser keeps the text; what it does to the cursor matters.
LEMMA ParserKeeps ==
  ASSUME MessageInv, UNCHANGED <<msg, size, text, reach, file, rest>>,
         pc \in {"header", "body", "attributes"},
         pc' \in {"body", "attributes", "parsed", "rejected", "fault"},
         p' \in 1..pe', pe' <= Len(text) + 1, c' \in Nat, c' < p',
         pc' = "parsed" => p' = pe', pe' = pe
  PROVE  MessageInv'
<1>1. msg' = msg /\ size' = size /\ text' = text /\ reach' = reach
      /\ file' = file /\ rest' = rest
  OBVIOUS
<1>2. Typed' /\ Origins'
  BY <1>1 DEF MessageInv, Typed, Origins
<1>3. Reading'
  BY <1>1 DEF MessageInv, Reading
<1>4. Serializing'
  BY <1>1 DEF MessageInv, Serializing
<1>5. CursorInside' /\ AllConsumed'
  BY <1>1 DEF CursorInside, AllConsumed
<1>6. Reached'
  BY <1>1 DEF MessageInv, Reached, SlackSuffices
<1> QED BY <1>2, <1>3, <1>4, <1>5, <1>6 DEF MessageInv

\* Where the cursor is while the parser works.
LEMMA CursorFacts ==
  ASSUME MessageInv, pc \in {"header", "body", "attributes"}
  PROVE  /\ p \in 1..pe /\ pe \in Nat /\ pe <= Len(text) + 1 /\ c < p /\ c \in Nat
         /\ \A class : Run(class) \in 0..(pe - p)
<1>1. p \in 1..pe /\ pe <= Len(text) + 1 /\ c < p /\ c \in Nat /\ text \in Seq(Byte)
      /\ pe \in Int
  BY DEF MessageInv, CursorInside, Typed
<1>3. pe \in Nat
  BY <1>1
<1> QED BY <1>1, <1>3, RunInside

\* The steps of the header machine keep the cursor in the text.
LEMMA HeaderKeeps ==
  ASSUME MessageInv, HeaderExtracted \/ HeaderRejected, UNCHANGED <<file, rest>>
  PROVE  MessageInv'
<1>1. CASE HeaderExtracted
  <2>1. /\ pc = "header" /\ pc' = "body" /\ UNCHANGED <<msg, size, text, reach, file, rest>>
        /\ pe' = pe /\ c' = c
    BY <1>1 DEF HeaderExtracted
  <2>2. PICK n \in 1..6 : Header(n) /\ p' = p + n + 4
    BY <1>1 DEF HeaderExtracted
  <2>3. p + n + 4 <= pe
    BY <2>2 DEF Header
  <2>4. p \in 1..pe /\ pe \in Nat /\ pe <= Len(text) + 1 /\ c < p /\ c \in Nat
    BY <2>1, CursorFacts
  <2>5. p' \in 1..pe' /\ pe' <= Len(text) + 1 /\ c' < p' /\ c' \in Nat
    BY <2>1, <2>2, <2>3, <2>4
  <2> QED BY <2>1, <2>5, ParserKeeps
<1>2. CASE HeaderRejected
  <2>1. /\ pc = "header" /\ pc' = "rejected" /\ UNCHANGED <<msg, size, text, reach, file, rest>>
        /\ pe' = pe /\ c' = c /\ p' = p
    BY <1>2 DEF HeaderRejected, Parser
  <2>2. p \in 1..pe /\ pe \in Nat /\ pe <= Len(text) + 1 /\ c < p /\ c \in Nat
    BY <2>1, CursorFacts
  <2> QED BY <2>1, <2>2, ParserKeeps
<1> QED BY <1>1, <1>2

\* So do the steps of the body machine of the type,
LEMMA BodyKeeps ==
  ASSUME MessageInv, FieldExtracted \/ FieldFaults \/ BodyExtracted \/ BodyRejected,
         UNCHANGED <<file, rest>>
  PROVE  MessageInv'
<1>0. pc = "body"
  BY DEF FieldExtracted, FieldFaults, FieldEnds, InField, BodyExtracted, BodyRejected
<1>1. /\ p \in 1..pe /\ pe \in Nat /\ pe <= Len(text) + 1 /\ c < p /\ c \in Nat
      /\ Taken \in 0..(pe - p)
  BY <1>0, CursorFacts DEF Taken
<1>2. CASE FieldExtracted
  <2>1. /\ pc' = "body" /\ UNCHANGED <<msg, size, text, reach, file, rest>> /\ pe' = pe
        /\ c' = Began(Taken) /\ p' = p + Taken + 1 /\ p + Taken < pe
    BY <1>0, <1>2 DEF FieldExtracted, FieldEnds
  <2>2. p' \in 1..pe' /\ c' < p' /\ c' \in Nat /\ pe' <= Len(text) + 1
    BY <1>1, <2>1 DEF Began
  <2> QED BY <1>0, <2>1, <2>2, ParserKeeps
<1>3. CASE BodyExtracted
  <2>1. /\ pc' = "attributes" /\ UNCHANGED <<msg, size, text, reach, file, rest>> /\ pe' = pe
        /\ c' = 0 /\ p' = Stop
    BY <1>3 DEF BodyExtracted
  <2>2. p' \in 1..pe' /\ c' < p' /\ c' \in Nat /\ pe' <= Len(text) + 1
    BY <1>1, <2>1 DEF Stop
  <2> QED BY <1>0, <2>1, <2>2, ParserKeeps
<1>4. CASE BodyRejected
  <2>1. /\ pc' = "rejected" /\ UNCHANGED <<msg, size, text, reach, file, rest>>
        /\ pe' = pe /\ c' = c /\ p' = p
    BY <1>4 DEF BodyRejected, Parser
  <2> QED BY <1>0, <1>1, <2>1, ParserKeeps
<1>5. CASE FieldFaults
  <2>1. /\ pc' = "fault" /\ UNCHANGED <<msg, size, text, reach, file, rest>>
        /\ pe' = pe /\ c' = c /\ p' = p
    BY <1>5 DEF FieldFaults, Parser
  <2> QED BY <1>0, <1>1, <2>1, ParserKeeps
<1> QED BY <1>2, <1>3, <1>4, <1>5

\* and those of the attributes machine, which accepts only at the end.
LEMMA AttributesKeep ==
  ASSUME MessageInv, AttributeExtracted \/ AttributeFaults \/ AttributesEnd,
         UNCHANGED <<file, rest>>
  PROVE  MessageInv'
<1>0. pc = "attributes"
  BY DEF AttributeExtracted, AttributeFaults, UnitEnds, AttributesEnd
<1>1. /\ p \in 1..pe /\ pe \in Nat /\ pe <= Len(text) + 1 /\ c < p /\ c \in Nat
      /\ Unit \in 0..(pe - p)
  BY <1>0, CursorFacts DEF Unit
<1>2. CASE AttributeExtracted
  <2>1. /\ pc' = "attributes" /\ UNCHANGED <<msg, size, text, reach, file, rest>> /\ pe' = pe
        /\ c' = Began(Unit) /\ p' = p + Unit + 1 /\ p + Unit < pe
    BY <1>0, <1>2 DEF AttributeExtracted, UnitEnds
  <2>2. p' \in 1..pe' /\ c' < p' /\ c' \in Nat /\ pe' <= Len(text) + 1
    BY <1>1, <2>1 DEF Began
  <2> QED BY <1>0, <2>1, <2>2, ParserKeeps
<1>3. CASE AttributesEnd
  <2>1. /\ pc' = IF AttributesFinal THEN "parsed" ELSE "rejected"
        /\ UNCHANGED <<msg, size, text, reach, file, rest>> /\ pe' = pe /\ c' = c /\ p' = Rest
    BY <1>3 DEF AttributesEnd
  <2>2. p' \in 1..pe' /\ c' < p'
    BY <1>1, <2>1 DEF Rest
  <2>3. pc' = "parsed" => p' = pe'
    <3> SUFFICES ASSUME AttributesFinal PROVE Rest = pe
      BY <2>1
    <3>1. CASE at = 0 /\ p = pe
      BY <1>1, <3>1 DEF Rest
    <3>2. CASE at > 0 /\ p = pe - 1 /\ text[p] = "fs"
      BY <1>1, <3>2 DEF Rest
    <3> QED BY <3>1, <3>2 DEF AttributesFinal
  <2>4. pc' \in {"parsed", "rejected"}
    BY <2>1
  <2> QED BY <1>0, <1>1, <2>1, <2>2, <2>3, <2>4, ParserKeeps
<1>4. CASE AttributeFaults
  <2>1. /\ pc' = "fault" /\ UNCHANGED <<msg, size, text, reach, file, rest>>
        /\ pe' = pe /\ c' = c /\ p' = p
    BY <1>4 DEF AttributeFaults, Parser
  <2> QED BY <1>0, <1>1, <2>1, ParserKeeps
<1> QED BY <1>2, <1>3, <1>4

-----------------------------------------------------------------------------
(* slurp() *)

(* Three pieces of a file put together either way are the same text. *)
LEMMA Regrouped ==
  ASSUME NEW x \in Seq(Byte), NEW y \in Seq(Byte), NEW z \in Seq(Byte)
  PROVE  (x \o y) \o z = x \o (y \o z)
BY ConcatAssociative

\* The steps of slurp keep the invariant.
LEMMA SlurpKeeps ==
  ASSUME MessageInv, ReadsSome \/ EreadReturns \/ EreadRefuses \/ SlurpFails
  PROVE  MessageInv'
<1>1. /\ pc = "read" /\ file # NULL /\ file \in Seq(STRING) /\ msg = NULL /\ c = 0
      /\ text \in Seq(Byte) /\ rest \in Seq(Byte) /\ text \o rest = file /\ size \in Nat
  <2>1. pc = "read"
    BY DEF ReadsSome, EreadReturns, EreadRefuses, ReadsNothing, SlurpFails
  <2> QED BY <2>1 DEF MessageInv, Origins, Typed, Reading
<1>2. Len(text) \in Nat /\ Len(rest) \in Nat /\ Len(file) = Len(text) + Len(rest)
  <2>1. Len(text \o rest) = Len(text) + Len(rest)
    BY <1>1, ConcatProperties
  <2> QED BY <1>1, <2>1, LenProperties
<1>3. CASE ReadsSome
  <2>1. PICK l \in 1..Len(rest) : /\ text' = text \o SubSeq(rest, 1, l)
                                  /\ rest' = SubSeq(rest, l + 1, Len(rest))
    BY <1>3 DEF ReadsSome
  <2>2. /\ pc' = pc /\ msg' = msg /\ size' = size /\ file' = file /\ c' = c /\ pe' = pe /\ reach' = reach
    BY <1>3 DEF ReadsSome, Parser
  <2> DEFINE a == SubSeq(rest, 1, l)
             b == SubSeq(rest, l + 1, Len(rest))
  <2>3. a \in Seq(Byte) /\ b \in Seq(Byte) /\ a \o b = rest
    <3>1. l \in 0..Len(rest)
      BY <1>2
    <3> QED BY <1>1, <3>1, CutInTwo
  <2> HIDE DEF a, b
  <2>4. (text \o a) \o b = text \o rest
    <3>1. (text \o a) \o b = text \o (a \o b)
      BY <1>1, <2>3, Regrouped, Zenon
    <3> QED BY <2>3, <3>1
  <2>5. text \o a \in Seq(Byte)
    BY <1>1, <2>3, ConcatProperties
  <2>6. text' = text \o a /\ rest' = b
    BY <2>1 DEF a, b
  <2>7. text' \in Seq(Byte) /\ rest' \in Seq(Byte) /\ text' \o rest' = file
    BY <1>1, <2>3, <2>4, <2>5, <2>6
  <2>8. Typed' /\ Origins' /\ Reading' /\ Serializing'
    BY <1>1, <2>2, <2>7 DEF MessageInv, Typed, Origins, Reading, Serializing
  <2>9. CursorInside' /\ AllConsumed' /\ Reached'
    BY <1>1, <2>2 DEF MessageInv, CursorInside, AllConsumed, Reached, SlackSuffices
  <2> QED BY <2>8, <2>9 DEF MessageInv
<1>4. CASE EreadReturns
  <2>1. /\ pc' = "header" /\ p' = 1 /\ pe' = Len(text) + 1
        /\ msg' = msg /\ size' = size /\ text' = text /\ c' = c /\ file' = file
        /\ reach' = reach
        /\ rest = <<>> \/ Room = 0
        /\ Len(text) < size
    BY <1>4 DEF EreadReturns, ReadsNothing, LeavesRoom
  <2>2. rest = <<>>
    BY <1>1, <1>2, <2>1 DEF Room
  <2>3. text = file
    BY <1>1, <2>2, ConcatEmptySeq
  <2>4. Typed' /\ Origins' /\ Reading' /\ Serializing'
    BY <1>1, <1>2, <2>1, <2>3 DEF MessageInv, Typed, Origins, Reading, Serializing
  <2>5. CursorInside' /\ AllConsumed' /\ Reached'
    BY <1>1, <1>2, <2>1 DEF MessageInv, CursorInside, AllConsumed, Reached, SlackSuffices
  <2> QED BY <2>4, <2>5 DEF MessageInv
<1>5. CASE EreadRefuses
  <2>1. /\ pc' = "EFBIG" /\ msg' = msg /\ size' = size /\ text' = text /\ c' = c /\ pe' = pe /\ reach' = reach
        /\ file' = file /\ ~(Len(text) < size)
    BY <1>5 DEF EreadRefuses, Leaves, LeavesRoom, Parser
  <2>2. Len(file) >= size
    BY <1>1, <1>2, <2>1
  <2>3. Typed' /\ Origins' /\ Reading' /\ Serializing'
    BY <1>1, <2>1, <2>2 DEF MessageInv, Typed, Origins, Reading, Serializing
  <2>4. CursorInside' /\ AllConsumed' /\ Reached'
    BY <2>1 DEF MessageInv, CursorInside, AllConsumed, Reached, SlackSuffices
  <2> QED BY <2>3, <2>4 DEF MessageInv
<1>6. CASE SlurpFails
  <2>1. /\ pc' = "EIO" /\ msg' = msg /\ size' = size /\ text' = text /\ c' = c /\ pe' = pe /\ reach' = reach
        /\ file' = file
    BY <1>6 DEF SlurpFails, Leaves, Parser
  <2>2. Typed' /\ Origins' /\ Reading' /\ Serializing'
    BY <1>1, <2>1 DEF MessageInv, Typed, Origins, Reading, Serializing
  <2>3. CursorInside' /\ AllConsumed' /\ Reached'
    BY <2>1 DEF MessageInv, CursorInside, AllConsumed, Reached, SlackSuffices
  <2> QED BY <2>2, <2>3 DEF MessageInv
<1> QED BY <1>3, <1>4, <1>5, <1>6

-----------------------------------------------------------------------------
(* The theorems *)

\* Every step keeps the invariant.
LEMMA MessageStep ==
  ASSUME MessageInv, [SlurpNext]_slurpVars
  PROVE  MessageInv'
<1>1. CASE ReadsSome \/ EreadReturns \/ EreadRefuses \/ SlurpFails
  BY <1>1, SlurpKeeps
<1>2. CASE Next /\ UNCHANGED <<file, rest>>
  BY <1>2, CopiesKeeps, BailsKeeps, SealsKeeps, HeaderKeeps, BodyKeeps, AttributesKeep
     DEF Next
<1>3. CASE UNCHANGED slurpVars
  <2>1. /\ msg' = msg /\ size' = size /\ todo' = todo /\ free' = free /\ text' = text
        /\ reach' = reach
        /\ pc' = pc /\ p' = p /\ pe' = pe /\ c' = c /\ file' = file /\ rest' = rest
    BY <1>3 DEF slurpVars, vars
  <2>2. Typed' /\ Origins' /\ Reading' /\ CursorInside' /\ AllConsumed'
        /\ Reached'
    BY <2>1
       DEF MessageInv, Typed, Origins, Reading, CursorInside, AllConsumed, Reached, SlackSuffices
  <2>3. Serializing'
    BY <2>1 DEF MessageInv, Serializing, Left, Copied
  <2> QED BY <2>2, <2>3 DEF MessageInv
<1> QED BY <1>1, <1>2, <1>3 DEF SlurpNext

\* Hence it holds in every behaviour of serialize, parse_message and slurp.
LEMMA MessageAlways == SlurpSpec => []MessageInv
<1>1. SlurpInit => MessageInv
  BY MessageInit
<1>2. MessageInv /\ [SlurpNext]_slurpVars => MessageInv'
  BY MessageStep
<1> QED BY <1>1, <1>2, PTL DEF SlurpSpec

(***************************************************************************)
(* However read(2) cuts the file, what is parsed is all of it, and a file  *)
(* is refused for its size only if it does not leave a byte of the buffer. *)
(***************************************************************************)
THEOREM FileIsWhole == SlurpSpec => []WholeFile
<1>1. MessageInv => WholeFile
  BY DEF MessageInv, Reading, WholeFile
<1> QED BY <1>1, MessageAlways, PTL

(***************************************************************************)
(* serialize() writes all of any message or refuses the buffer, it refuses *)
(* only buffers that are too small, and a result below zero tells so of    *)
(* every buffer but an empty one.  Digits that snprint_hex counts without  *)
(* writing them never get out.                                             *)
(***************************************************************************)
THEOREM AllOrNothing == SlurpSpec => []WholeOrRefused
<1>1. MessageInv => WholeOrRefused
  <2> SUFFICES ASSUME MessageInv PROVE WholeOrRefused
    OBVIOUS
  <2>1. Len(text) \in Nat /\ size \in Nat
    BY LenProperties DEF MessageInv, Typed
  <2>2. CASE pc = "refused"
    <3>1. Len(Encoding(msg)) > size /\ (Len(text) = 0 <=> size = 0)
      BY <2>2 DEF MessageInv, Origins, Serializing
    <3>2. Result = -Len(text)
      BY <2>2 DEF Result
    <3>3. Result < 0 <=> size > 0
      BY <2>1, <3>1, <3>2
    <3> QED BY <2>2, <3>1, <3>3 DEF WholeOrRefused
  <2>3. CASE pc # "refused"
    BY <2>3 DEF MessageInv, Serializing, WholeOrRefused
  <2> QED BY <2>2, <2>3
<1> QED BY <1>1, MessageAlways, PTL

(***************************************************************************)
(* serialize_string ignores the room it is given, and stpncpy fills whole  *)
(* arrays: no buffer that is longer than the message by an array but three *)
(* bytes is ever written past, whatever the strings and wherever they are. *)
(***************************************************************************)
THEOREM PaddingIsBounded == SlurpSpec => []SlackSuffices
<1>1. MessageInv => SlackSuffices
  BY DEF MessageInv, Reached
<1> QED BY <1>1, MessageAlways, PTL

(***************************************************************************)
(* No machine of the parser runs past the end of the text, and each begins *)
(* where the one before stopped, for any text, of any type.                *)
(***************************************************************************)
THEOREM CursorStaysInside == SlurpSpec => []CursorInside
<1>1. MessageInv => CursorInside
  BY DEF MessageInv
<1> QED BY <1>1, MessageAlways, PTL

(***************************************************************************)
(* The assert of parse_message: what is accepted has been read to its end, *)
(* also for the types whose body may stop anywhere.                        *)
(***************************************************************************)
THEOREM AcceptedIsRead == SlurpSpec => []AllConsumed
<1>1. MessageInv => AllConsumed
  BY DEF MessageInv
<1> QED BY <1>1, MessageAlways, PTL

-----------------------------------------------------------------------------
(* Where the fields of a message are in its text *)

Count(m) == Len(Layout(m.type))

\* The field k is written behind 2 * k + 3 pieces; k = Count(m) + 1 is the etx.
Place(m, k) == Len(Encoded(m, 2 * k + 3)) + 1

\* The pieces of a message: its head, two for each field, and its tail.
LEMMA PiecesOfFields ==
  ASSUME NEW m \in Messages
  PROVE  LET n == Count(m)
             P == Pieces(m)
         IN  /\ n \in Nat /\ Len(P) = 2 * n + 7
             /\ DOMAIN Layout(m.type) = 1..n
             /\ \A k \in 1..n : /\ P[2 * k + 4].bytes = m.values[k]
                                /\ P[2 * k + 5].bytes = <<Layout(m.type)[k].end>>
                                /\ m.values[k] \in Seq(Byte)
             /\ P[1].bytes = <<"stx">> /\ P[2].bytes = <<"7">> /\ P[3].bytes = <<"fs">>
             /\ P[4].bytes = m.type /\ P[5].bytes = <<"fs">>
             /\ P[2 * n + 6].bytes = <<"etx">> /\ P[2 * n + 7].bytes = <<"lrc">>
<1> DEFINE fields == Layout(m.type)
           n == Len(fields)
           s == [i \in DOMAIN fields |-> FieldPieces(fields[i], m.values[i])]
           a1 == Piece(<<"stx">>)
           a2 == Piece(<<"7">>)
           a3 == Piece(<<"fs">>)
           a4 == Piece(m.type)
           b1 == Piece(<<"etx">>)
           b2 == Piece(<<"lrc">>)
           A == <<a1, a2, a3, a4, a3>>
           B == <<b1, b2>>
           F == FlattenSeq(s)
<1>1. Pieces(m) = (A \o F) \o B
  BY DEF Pieces
<1>2. PICK S : fields \in Seq(S) /\ \A x \in S : x.end \in Byte
  BY LayoutFielded DEF Fielded
<1>3. n \in Nat /\ DOMAIN fields = 1..n /\ \A i \in 1..n : fields[i] \in S
  BY <1>2, LenProperties, ElementOfSeq
<1>4. \A i \in 1..n : m.values[i] \in Seq(Byte)
  <2>1. m.values \in [1..n -> Seq(STRING)]
    BY <1>3, MessagesAssumption
  <2> QED BY <2>1, BytesAre
<1> HIDE DEF fields, n
<1> DEFINE v(i) == [bytes |-> m.values[i], hex |-> fields[i].kind = "hex",
                     padded |-> fields[i].kind = "string"]
           e(i) == [bytes |-> <<fields[i].end>>, hex |-> FALSE, padded |-> FALSE]
<1>5. ASSUME NEW i \in 1..n PROVE s[i] = <<v(i), e(i)>>
  BY <1>3, <1>5 DEF FieldPieces, Piece
<1>6. \A i \in 1..n : s[i] \in Seq(PieceType)
  <2> TAKE i \in 1..n
  <2>1. FieldPieces(fields[i], m.values[i]) \in Seq(PieceType)
    BY <1>2, <1>3, <1>4, FieldDelimited
  <2> QED BY <1>3, <2>1
<1>7. s \in [1..n -> Seq(PieceType)]
  <2>1. DOMAIN s = 1..n /\ s = [i \in 1..n |-> s[i]]
    BY <1>3
  <2> HIDE DEF s
  <2> QED BY <1>6, <2>1
<1>8. \A i \in 1..n : Len(s[i]) = 2 /\ s[i][1] = v(i) /\ s[i][2] = e(i)
  BY <1>5, SMTT(30)
<1> HIDE DEF s, v, e
<1>9. s \in Seq(Seq(PieceType)) /\ Len(s) = n
  BY <1>3, <1>7, SegmentIsSeq
<1>10. F \in Seq(PieceType) /\ Len(F) = 2 * n
  BY <1>8, <1>9, FlattenPairs, FlattenIsSeq
<1>11. \A k \in 1..n : F[2 * k - 1] = v(k) /\ F[2 * k] = e(k)
  BY <1>8, <1>9, FlattenPairs
<1> DEFINE T == PieceType \cup {a1, a2, a3, a4, b1, b2}
<1>12. /\ A \in Seq(T) /\ Len(A) = 5 /\ A[1] = a1 /\ A[2] = a2 /\ A[3] = a3
       /\ A[4] = a4 /\ A[5] = a3
       /\ B \in Seq(T) /\ Len(B) = 2 /\ B[1] = b1 /\ B[2] = b2
  <2> HIDE DEF a1, a2, a3, a4, b1, b2
  <2> QED OBVIOUS
<1>13. F \in Seq(T)
  <2> HIDE DEF F, a1, a2, a3, a4, b1, b2
  <2>1. Len(F) \in Nat /\ F \in [1..Len(F) -> PieceType]
    BY <1>10, LenProperties
  <2>2. F \in [1..Len(F) -> T]
    BY <2>1
  <2> HIDE DEF T
  <2> QED BY <2>1, <2>2, SegmentIsSeq
<1>14. /\ a1.bytes = <<"stx">> /\ a2.bytes = <<"7">> /\ a3.bytes = <<"fs">>
       /\ a4.bytes = m.type /\ b1.bytes = <<"etx">> /\ b2.bytes = <<"lrc">>
  BY DEF Piece
<1> HIDE DEF T, A, B, F, a1, a2, a3, a4, b1, b2
<1> DEFINE C == A \o F
           D == C \o B
<1>15. /\ C \in Seq(T) /\ Len(C) = Len(A) + Len(F)
       /\ \A i \in 1..(Len(A) + Len(F)) : C[i] = IF i <= Len(A) THEN A[i] ELSE F[i - Len(A)]
  BY <1>12, <1>13, ConcatProperties, Zenon
<1> HIDE DEF C
<1>16. /\ Len(D) = Len(C) + Len(B)
       /\ \A i \in 1..(Len(C) + Len(B)) : D[i] = IF i <= Len(C) THEN C[i] ELSE B[i - Len(C)]
  <2>1. C \in Seq(T) /\ B \in Seq(T)
    BY <1>12, <1>15
  <2> QED BY <2>1, ConcatProperties, Zenon
<1> HIDE DEF D
<1>17. Len(C) = 2 * n + 5 /\ Len(D) = 2 * n + 7
  BY <1>3, <1>10, <1>12, <1>15, <1>16
<1>18. \A i \in 1..5 : D[i] = A[i]
  <2> TAKE i \in 1..5
  <2>1. C[i] = A[i]
    BY <1>3, <1>10, <1>12, <1>15
  <2> QED BY <1>3, <1>12, <1>16, <1>17, <2>1
<1>19. \A i \in 1..(2 * n) : D[i + 5] = F[i]
  <2> TAKE i \in 1..(2 * n)
  <2> DEFINE j == i + 5
  <2>1. j \in 1..(Len(A) + Len(F)) /\ ~(j <= Len(A)) /\ j - Len(A) = i
    BY <1>3, <1>10, <1>12
  <2>2. j \in 1..(Len(C) + Len(B)) /\ j <= Len(C)
    BY <1>3, <1>12, <1>17
  <2> HIDE DEF j
  <2>3. C[j] = F[j - Len(A)]
    BY <1>15, <2>1
  <2>4. D[j] = C[j]
    BY <1>16, <2>2
  <2> QED BY <2>1, <2>3, <2>4 DEF j
<1>20. D[2 * n + 6] = b1 /\ D[2 * n + 7] = b2
  <2> DEFINE i == 2 * n + 6
             j == 2 * n + 7
  <2>1. /\ i \in 1..(Len(C) + Len(B)) /\ ~(i <= Len(C)) /\ i - Len(C) = 1
        /\ j \in 1..(Len(C) + Len(B)) /\ ~(j <= Len(C)) /\ j - Len(C) = 2
    BY <1>3, <1>12, <1>17
  <2> HIDE DEF i, j
  <2>2. D[i] = B[i - Len(C)] /\ D[j] = B[j - Len(C)]
    BY <1>16, <2>1
  <2>3. D[i] = b1 /\ D[j] = b2
    BY <1>12, <2>1, <2>2
  <2> QED BY <2>3 DEF i, j
<1>21. \A k \in 1..n : D[2 * k + 4] = v(k) /\ D[2 * k + 5] = e(k)
  <2> TAKE k \in 1..n
  <2>1. /\ 2 * k - 1 \in 1..(2 * n) /\ 2 * k \in 1..(2 * n)
        /\ (2 * k - 1) + 5 = 2 * k + 4
    BY <1>3
  <2>2. D[(2 * k - 1) + 5] = F[2 * k - 1] /\ D[2 * k + 5] = F[2 * k]
    BY <1>19, <2>1
  <2>3. D[2 * k + 4] = F[2 * k - 1]
    BY <2>1, <2>2
  <2> QED BY <1>11, <2>2, <2>3
<1>22. Pieces(m) = D
  BY <1>1 DEF D, C
<1>23. \A k \in 1..n : v(k).bytes = m.values[k] /\ e(k).bytes = <<fields[k].end>>
  BY DEF v, e
<1>24. n = Count(m) /\ fields = Layout(m.type)
  BY DEF n, fields, Count
<1>25. /\ D[1].bytes = <<"stx">> /\ D[2].bytes = <<"7">> /\ D[3].bytes = <<"fs">>
       /\ D[4].bytes = m.type /\ D[5].bytes = <<"fs">>
       /\ D[2 * n + 6].bytes = <<"etx">> /\ D[2 * n + 7].bytes = <<"lrc">>
  BY <1>12, <1>14, <1>18, <1>20
<1> QED BY <1>3, <1>4, <1>17, <1>21, <1>22, <1>23, <1>24, <1>25

\* The bytes of a message, as many sequences as it has pieces.
LEMMA PartsAre ==
  ASSUME NEW m \in Messages
  PROVE  Parts(m) \in Seq(Seq(Byte)) /\ Len(Parts(m)) = Len(Pieces(m))
<1> DEFINE P == Pieces(m)
           n == Len(P)
           s == Parts(m)
<1>1. n \in Nat /\ \A k \in 1..n : P[k].bytes \in Seq(Byte)
  BY EncodedIs
<1>2. P \in Seq(PieceType)
  BY PiecesAre
<1>3. s = [i \in DOMAIN P |-> P[i].bytes] /\ DOMAIN P = 1..n
  BY <1>2, LenProperties DEF Parts
<1> HIDE DEF P, n, s
<1>4. s \in [1..n -> Seq(Byte)]
  BY <1>1, <1>3
<1>5. s \in Seq(Seq(Byte)) /\ Len(s) = n
  BY <1>1, <1>4, SegmentIsSeq
<1> QED BY <1>5 DEF s, n, P

\* A piece of a message is where the pieces before it end.
LEMMA PieceInText ==
  ASSUME NEW m \in Messages, NEW j \in 1..Len(Pieces(m))
  PROVE  LET q == Len(Encoded(m, j - 1))
             b == Pieces(m)[j].bytes
         IN  /\ q \in Nat /\ Len(b) \in Nat
             /\ Len(Encoded(m, j)) = q + Len(b)
             /\ q + Len(b) <= Len(Encoding(m)) /\ Len(Encoding(m)) \in Nat
             /\ \A i \in 1..Len(b) : Encoding(m)[q + i] = b[i]
<1> DEFINE P == Pieces(m)
           n == Len(P)
           s == Parts(m)
           q == Len(Encoded(m, j - 1))
           b == P[j].bytes
<1>1. /\ n \in Nat
      /\ \A k \in 0..n : Encoded(m, k) \in Seq(Byte) /\ Len(Encoded(m, k)) \in Nat
      /\ \A k \in 1..n :
           /\ Encoded(m, k) = Encoded(m, k - 1) \o P[k].bytes
           /\ P[k].bytes \in Seq(Byte) /\ Len(P[k].bytes) \in Nat
           /\ Len(Encoded(m, k)) = Len(Encoded(m, k - 1)) + Len(P[k].bytes)
      /\ Encoding(m) = Encoded(m, n)
      /\ \A k \in 0..n : Len(Encoded(m, k)) <= Len(Encoding(m))
  BY EncodedIs
<1>3. s \in Seq(Seq(Byte)) /\ Len(s) = n
  BY PartsAre
<1>4. j \in 1..n
  OBVIOUS
<1> HIDE DEF P, n, s
<1>5. \A k \in 0..n : \A l \in k..n : Begins(Encoded(m, k), Encoded(m, l))
  <2>1. \A k \in 0..Len(s) : \A l \in k..Len(s) : Begins(Upto(Byte, s)[k], Upto(Byte, s)[l])
    BY <1>3, JoinsBegin
  <2> QED BY <1>3, <2>1 DEF Encoded, s
<1>6. j - 1 \in 0..n /\ j \in 0..n /\ n \in j..n
  BY <1>1, <1>4
<1>7. /\ q \in Nat /\ Len(b) \in Nat /\ Len(Encoded(m, j)) = q + Len(b)
      /\ q + Len(b) <= Len(Encoding(m)) /\ Len(Encoding(m)) \in Nat
  <2>1. Len(Encoded(m, j)) = q + Len(b) /\ q \in Nat /\ Len(b) \in Nat
    BY <1>1, <1>4, <1>6
  <2>2. Len(Encoded(m, j)) <= Len(Encoding(m)) /\ n \in 0..n
    BY <1>1, <1>6
  <2> QED BY <1>1, <2>1, <2>2
<1>8. ASSUME NEW i \in 1..Len(b) PROVE Encoding(m)[q + i] = b[i]
  <2> DEFINE a == Encoded(m, j - 1)
             l == q + i
  <2>1. a \in Seq(Byte) /\ b \in Seq(Byte) /\ Encoded(m, j) = a \o b /\ q = Len(a)
    BY <1>1, <1>4, <1>6
  <2>2. /\ Len(a \o b) = Len(a) + Len(b)
        /\ \A x \in 1..(Len(a) + Len(b)) :
             (a \o b)[x] = IF x <= Len(a) THEN a[x] ELSE b[x - Len(a)]
    BY <2>1, ConcatProperties, Zenon
  <2>3. l \in 1..(Len(a) + Len(b)) /\ ~(l <= Len(a)) /\ l - Len(a) = i
        /\ l \in 1..Len(Encoded(m, j))
    BY <1>7, <2>1
  <2> HIDE DEF l, a, b, q
  <2>4. Encoded(m, j)[l] = b[i]
    BY <2>1, <2>2, <2>3
  <2>5. Begins(Encoded(m, j), Encoded(m, n))
    BY <1>5, <1>6
  <2>6. Encoded(m, n)[l] = Encoded(m, j)[l]
    BY <2>3, <2>5 DEF Begins
  <2> QED BY <1>1, <2>4, <2>6 DEF l
<1> QED BY <1>7, <1>8 DEF P, n

\* The text of a message, from the token to the etx.
LEMMA FieldsInText ==
  ASSUME NEW m \in Messages
  PROVE  LET n == Count(m)
             t == Encoding(m)
         IN  /\ n \in Nat /\ Len(t) \in Nat
             /\ t[1] = "stx" /\ t[Len(t) - 1] = "etx" /\ t[Len(t)] = "lrc"
             /\ t[2] = "7" /\ t[3] = "fs" /\ t[4 + Len(m.type)] = "fs"
             /\ \A i \in 1..Len(m.type) : t[3 + i] = m.type[i]
             /\ Len(m.type) \in Nat
             /\ Place(m, 1) = 5 + Len(m.type)
             /\ Place(m, n + 1) = Len(t) - 1
             /\ \A k \in 1..n :
                  LET q == Place(m, k)
                      v == m.values[k]
                  IN  /\ q \in Nat \ {0} /\ Len(v) \in Nat
                      /\ Place(m, k + 1) = q + Len(v) + 1
                      /\ q + Len(v) < Place(m, n + 1)
                      /\ \A i \in 1..Len(v) : t[q + i - 1] = v[i]
                      /\ t[q + Len(v)] = Layout(m.type)[k].end
<1> DEFINE n == Count(m)
           t == Encoding(m)
           P == Pieces(m)
           E(j) == Len(Encoded(m, j))
<1>1. /\ n \in Nat /\ Len(P) = 2 * n + 7
      /\ \A k \in 1..n : /\ P[2 * k + 4].bytes = m.values[k]
                         /\ P[2 * k + 5].bytes = <<Layout(m.type)[k].end>>
      /\ P[1].bytes = <<"stx">> /\ P[2].bytes = <<"7">> /\ P[3].bytes = <<"fs">>
      /\ P[4].bytes = m.type /\ P[5].bytes = <<"fs">>
      /\ P[2 * n + 6].bytes = <<"etx">> /\ P[2 * n + 7].bytes = <<"lrc">>
  BY PiecesOfFields
<1>2. \A j \in 1..Len(P) :
        /\ E(j - 1) \in Nat /\ Len(P[j].bytes) \in Nat
        /\ E(j) = E(j - 1) + Len(P[j].bytes)
        /\ E(j - 1) + Len(P[j].bytes) <= Len(t)
        /\ \A i \in 1..Len(P[j].bytes) : t[E(j - 1) + i] = P[j].bytes[i]
  BY PieceInText
<1>3. /\ E(0) = 0 /\ t = Encoded(m, Len(P)) /\ Len(t) \in Nat
  <2>1. /\ Len(P) \in Nat /\ Encoded(m, 0) = <<>> /\ t = Encoded(m, Len(P))
        /\ \A k \in 0..Len(P) : Len(Encoded(m, k)) \in Nat
    BY EncodedIs
  <2>2. Len(P) \in 0..Len(P)
    BY <2>1
  <2> QED BY <2>1, <2>2, EmptySeq
<1>4. Len(t) = E(Len(P))
  BY <1>3
<1>5. /\ \A k : Place(m, k) = E(2 * k + 3) + 1
  BY DEF Place
<1> HIDE DEF n, t, P, E
<1>6. \A x : Len(<<x>>) = 1 /\ <<x>>[1] = x
  OBVIOUS
<1>7. /\ E(1) = 1 /\ E(2) = 2 /\ E(3) = 3
      /\ E(4) = 3 + Len(m.type) /\ E(5) = 4 + Len(m.type) /\ Len(m.type) \in Nat
  <2>1. 1 \in 1..Len(P) /\ 2 \in 1..Len(P) /\ 3 \in 1..Len(P) /\ 4 \in 1..Len(P)
        /\ 5 \in 1..Len(P)
    BY <1>1
  <2>2. /\ E(1) = E(1 - 1) + 1 /\ E(2) = E(2 - 1) + 1 /\ E(3) = E(3 - 1) + 1
        /\ E(4) = E(4 - 1) + Len(m.type) /\ E(5) = E(5 - 1) + 1
        /\ Len(m.type) \in Nat
    BY <1>1, <1>2, <1>6, <2>1, Zenon
  <2>3. 1 - 1 = 0 /\ 2 - 1 = 1 /\ 3 - 1 = 2 /\ 4 - 1 = 3 /\ 5 - 1 = 4
    OBVIOUS
  <2>4. /\ E(1) = E(0) + 1 /\ E(2) = E(1) + 1 /\ E(3) = E(2) + 1
        /\ E(4) = E(3) + Len(m.type) /\ E(5) = E(4) + 1
    BY <2>2, <2>3, Zenon
  <2> QED BY <1>3, <2>2, <2>4
<1>8. /\ t[1] = "stx" /\ t[2] = "7" /\ t[3] = "fs" /\ t[4 + Len(m.type)] = "fs"
      /\ \A i \in 1..Len(m.type) : t[3 + i] = m.type[i]
  <2>1. 1 \in 1..Len(P) /\ 2 \in 1..Len(P) /\ 3 \in 1..Len(P) /\ 4 \in 1..Len(P)
        /\ 5 \in 1..Len(P) /\ 1 \in 1..1
    BY <1>1
  <2>a. ASSUME NEW j \in 1..Len(P), NEW x, P[j].bytes = <<x>>
        PROVE  t[E(j - 1) + 1] = x
    <3>1. Len(P[j].bytes) = 1 /\ P[j].bytes[1] = x
      BY <1>6, <2>a
    <3>2. \A i \in 1..1 : t[E(j - 1) + i] = P[j].bytes[i]
      BY <1>2, <3>1, Zenon
    <3> QED BY <2>1, <3>1, <3>2, Zenon
  <2>2. t[E(1 - 1) + 1] = "stx" /\ t[E(2 - 1) + 1] = "7" /\ t[E(3 - 1) + 1] = "fs"
        /\ t[E(5 - 1) + 1] = "fs"
    BY <1>1, <2>1, <2>a, Zenon
  <2>3. \A i \in 1..Len(m.type) : t[E(4 - 1) + i] = m.type[i]
    BY <1>1, <1>2, <2>1, ZenonT(30)
  <2>4. 1 - 1 = 0 /\ 2 - 1 = 1 /\ 3 - 1 = 2 /\ 4 - 1 = 3 /\ 5 - 1 = 4
    OBVIOUS
  <2>5. t[E(0) + 1] = "stx" /\ t[E(1) + 1] = "7" /\ t[E(2) + 1] = "fs" /\ t[E(4) + 1] = "fs"
        /\ \A i \in 1..Len(m.type) : t[E(3) + i] = m.type[i]
    BY <2>2, <2>3, <2>4, Zenon
  <2>6. E(0) + 1 = 1 /\ E(1) + 1 = 2 /\ E(2) + 1 = 3 /\ E(4) + 1 = 4 + Len(m.type)
    BY <1>3, <1>7
  <2> QED BY <1>7, <2>5, <2>6
<1>9. Place(m, 1) = 5 + Len(m.type)
  <2>1. Place(m, 1) = E(2 * 1 + 3) + 1 /\ 2 * 1 + 3 = 5
    BY <1>5
  <2>2. Place(m, 1) = E(5) + 1
    BY <2>1, Zenon
  <2> QED BY <1>7, <2>2
<1>10. /\ Place(m, n + 1) = Len(t) - 1 /\ E(2 * n + 5) = Len(t) - 2
       /\ t[Len(t) - 1] = "etx" /\ t[Len(t)] = "lrc"
  <2> DEFINE x == 2 * n + 5
  <2>1. /\ x + 1 \in 1..Len(P) /\ x + 2 \in 1..Len(P) /\ (x + 1) - 1 = x
        /\ (x + 2) - 1 = x + 1 /\ 2 * n + 6 = x + 1 /\ 2 * n + 7 = x + 2 /\ Len(P) = x + 2
        /\ 2 * (n + 1) + 3 = x
    BY <1>1
  <2> HIDE DEF x
  <2>2. P[x + 1].bytes = <<"etx">> /\ P[x + 2].bytes = <<"lrc">>
    BY <1>1, <2>1
  <2>3. E(x + 1) = E((x + 1) - 1) + 1 /\ E(x + 2) = E((x + 2) - 1) + 1 /\ E((x + 1) - 1) \in Nat
    BY <1>2, <1>6, <2>1, <2>2, Zenon
  <2>4. E(x + 1) = E(x) + 1 /\ E(x + 2) = E(x + 1) + 1 /\ E(x) \in Nat /\ Len(t) = E(x + 2)
    BY <1>4, <2>1, <2>3, Zenon
  <2>5. Place(m, n + 1) = E(x) + 1
    BY <1>5, <2>1, Zenon
  <2>6. Place(m, n + 1) = Len(t) - 1 /\ E(x) = Len(t) - 2
    BY <2>4, <2>5
  <2>7. t[E((x + 1) - 1) + 1] = "etx" /\ t[E((x + 2) - 1) + 1] = "lrc"
    <3>1. 1 \in 1..1
      OBVIOUS
    <3> QED BY <1>2, <1>6, <2>1, <2>2, <3>1, ZenonT(30)
  <2>8. t[E(x) + 1] = "etx" /\ t[E(x + 1) + 1] = "lrc"
    BY <2>1, <2>7, Zenon
  <2>9. E(x) + 1 = Len(t) - 1 /\ E(x + 1) + 1 = Len(t)
    BY <2>4
  <2>10. t[Len(t) - 1] = "etx" /\ t[Len(t)] = "lrc"
    BY <2>8, <2>9
  <2> QED BY <2>6, <2>10 DEF x
<1>11. ASSUME NEW k \in 1..n
       PROVE  LET q == Place(m, k)
                  v == m.values[k]
              IN  /\ q \in Nat \ {0} /\ Len(v) \in Nat
                  /\ Place(m, k + 1) = q + Len(v) + 1
                  /\ q + Len(v) < Place(m, n + 1)
                  /\ \A i \in 1..Len(v) : t[q + i - 1] = v[i]
                  /\ t[q + Len(v)] = Layout(m.type)[k].end
  <2> DEFINE x == 2 * k + 3
             q == Place(m, k)
             v == m.values[k]
             d == Layout(m.type)[k].end
             y == x + 1
             z == x + 2
  <2>1. /\ y \in 1..Len(P) /\ z \in 1..Len(P)
        /\ y - 1 = x /\ z - 1 = y /\ 2 * k + 4 = y
        /\ 2 * k + 5 = z /\ 2 * (k + 1) + 3 = z /\ z <= 2 * n + 5
        /\ z \in 1..(2 * n + 5)
    BY <1>1
  <2> HIDE DEF x, y, z
  <2>2. P[y].bytes = v /\ P[z].bytes = <<d>>
    BY <1>1, <2>1
  <2>3. q = E(x) + 1 /\ Place(m, k + 1) = E(z) + 1
    <3>1. Place(m, k) = E(x) + 1
      BY <1>5 DEF x
    <3>2. Place(m, k + 1) = E(2 * (k + 1) + 3) + 1
      BY <1>5
    <3> QED BY <2>1, <3>1, <3>2, Zenon
  <2> HIDE DEF q, v, d
  <2>4. /\ E(y - 1) \in Nat /\ Len(v) \in Nat /\ E(y) = E(y - 1) + Len(v)
        /\ E(z) = E(z - 1) + 1
        /\ \A i \in 1..Len(v) : t[E(y - 1) + i] = v[i]
        /\ t[E(z - 1) + 1] = d
    <3>1. 1 \in 1..1
      OBVIOUS
    <3> QED BY <1>2, <1>6, <2>1, <2>2, <3>1, ZenonT(30)
  <2>5. /\ E(x) \in Nat /\ E(y) = E(x) + Len(v) /\ E(z) = E(y) + 1
        /\ \A i \in 1..Len(v) : t[E(x) + i] = v[i]
        /\ t[E(y) + 1] = d
    BY <2>1, <2>4, Zenon
  <2>6. E(z) <= E(2 * n + 5)
    <3>1. /\ 2 * n + 5 \in 0..Len(P) /\ z \in 0..Len(P) /\ 2 * n + 5 \in z..Len(P)
      BY <1>1, <2>1
    <3> DEFINE N == 2 * n + 5
               s == Parts(m)
    <3>2. s \in Seq(Seq(Byte)) /\ Len(s) = Len(P)
      BY PartsAre DEF P
    <3> HIDE DEF N, s
    <3>3. \A a \in 0..Len(s) : \A b \in a..Len(s) : Len(Upto(Byte, s)[a]) <= Len(Upto(Byte, s)[b])
      BY <3>2, JoinsGrow
    <3>4. Len(Upto(Byte, s)[z]) <= Len(Upto(Byte, s)[N])
      BY <3>1, <3>2, <3>3 DEF N
    <3> QED BY <3>4 DEF E, Encoded, s, N
  <2>7. /\ q \in Nat \ {0} /\ Len(v) \in Nat /\ Place(m, k + 1) = q + Len(v) + 1
        /\ q + Len(v) < Place(m, n + 1)
    <3> DEFINE r == Place(m, k + 1)
               w == Place(m, n + 1)
               l == Len(v)
    <3>1. /\ r = E(z) + 1 /\ w = Len(t) - 1 /\ E(2 * n + 5) = Len(t) - 2 /\ Len(t) \in Nat
          /\ q = E(x) + 1 /\ E(x) \in Nat /\ l \in Nat /\ E(y) = E(x) + l /\ E(z) = E(y) + 1
      BY <1>3, <1>10, <2>3, <2>4, <2>5
    <3> HIDE DEF r, w, l
    <3>2. q \in Nat \ {0} /\ l \in Nat /\ r = q + l + 1
      BY <3>1, SMTT(30)
    <3>3. q + l < w
      BY <2>6, <3>1, SMTT(30)
    <3> QED BY <3>2, <3>3 DEF r, w, l
  <2>8. \A i \in 1..Len(v) : t[q + i - 1] = v[i]
    <3> TAKE i \in 1..Len(v)
    <3>1. q + i - 1 = E(x) + i
      BY <2>3, <2>5
    <3> QED BY <2>5, <3>1
  <2>9. t[q + Len(v)] = d
    <3>1. q + Len(v) = E(y) + 1
      BY <2>3, <2>5
    <3> QED BY <2>5, <3>1
  <2> QED BY <2>7, <2>8, <2>9 DEF q, v, d
<1> QED BY <1>1, <1>3, <1>7, <1>8, <1>9, <1>10, <1>11 DEF n, t

-----------------------------------------------------------------------------
(* The two statements of a layout *)

Ends == {"fs", "us"}

\* The one member whose absence a machine does not put up with is marked.
Mark(name) == IF name = "version" THEN "version" ELSE "other"

(***************************************************************************)
(* A layout f of serialize() and the fields b of a machine have the same   *)
(* names and delimiters, and what f writes as one kind b reads as one      *)
(* class, in the combinations of R.                                        *)
(***************************************************************************)
Match(R, f, b) ==
  /\ \E S : f \in Seq(S)
  /\ \E S : b \in Seq(S)
  /\ Len(f) = Len(b)
  /\ \A i \in 1..Len(f) :
       /\ f[i].name = b[i].name /\ f[i].end = b[i].end /\ f[i].end \in Ends
       /\ <<f[i].kind, b[i].class, Mark(f[i].name)>> \in R

\* More combinations do no harm.
LEMMA MatchMore ==
  ASSUME NEW R, NEW Q, R \subseteq Q, NEW f, NEW b, Match(R, f, b)
  PROVE  Match(Q, f, b)
BY DEF Match

\* Two layouts after one another, and their machines.
LEMMA MatchConcat ==
  ASSUME NEW R, NEW f, NEW b, NEW g, NEW d, Match(R, f, b), Match(R, g, d)
  PROVE  Match(R, f \o g, b \o d)
<1> DEFINE m == Len(f)
           n == Len(g)
           x == f \o g
           y == b \o d
           Agree(u, v) == /\ u.name = v.name /\ u.end = v.end /\ u.end \in Ends
                          /\ <<u.kind, v.class, Mark(u.name)>> \in R
<1>1. PICK S : f \in Seq(S)
  BY DEF Match
<1>2. PICK T : g \in Seq(T)
  BY DEF Match
<1>3. PICK U : b \in Seq(U)
  BY DEF Match
<1>4. PICK V : d \in Seq(V)
  BY DEF Match
<1>5. f \in Seq(S \cup T) /\ g \in Seq(S \cup T) /\ b \in Seq(U \cup V) /\ d \in Seq(U \cup V)
  BY <1>1, <1>2, <1>3, <1>4, SeqOfMore
<1>6. /\ m \in Nat /\ n \in Nat /\ Len(b) = m /\ Len(d) = n
      /\ \A i \in 1..m : Agree(f[i], b[i])
      /\ \A i \in 1..n : Agree(g[i], d[i])
  BY <1>1, <1>2, LenProperties DEF Match
<1> HIDE DEF m, n, Agree
<1>7. /\ x \in Seq(S \cup T) /\ Len(x) = m + n
      /\ \A i \in 1..(m + n) : x[i] = IF i <= m THEN f[i] ELSE g[i - m]
  BY <1>5, ConcatProperties, Zenon DEF m, n
<1>8. /\ y \in Seq(U \cup V) /\ Len(y) = Len(b) + Len(d)
      /\ \A i \in 1..(Len(b) + Len(d)) : y[i] = IF i <= Len(b) THEN b[i] ELSE d[i - Len(b)]
  BY <1>5, ConcatProperties, Zenon
<1> HIDE DEF x, y
<1>9. Len(y) = m + n /\ \A i \in 1..(m + n) : y[i] = IF i <= m THEN b[i] ELSE d[i - m]
  BY <1>6, <1>8, Zenon
<1>10. ASSUME NEW i \in 1..(m + n) PROVE Agree(x[i], y[i])
  <2>1. CASE i <= m
    <3>1. i \in 1..m /\ x[i] = f[i] /\ y[i] = b[i]
      BY <1>6, <1>7, <1>9, <2>1
    <3> QED BY <1>6, <3>1
  <2>2. CASE ~(i <= m)
    <3> DEFINE j == i - m
    <3>1. j \in 1..n /\ x[i] = g[j] /\ y[i] = d[j]
      BY <1>6, <1>7, <1>9, <2>2
    <3> HIDE DEF j
    <3> QED BY <1>6, <3>1
  <2> QED BY <2>1, <2>2
<1>11. /\ \E W : x \in Seq(W)
       /\ \E W : y \in Seq(W)
       /\ Len(x) = Len(y)
       /\ \A i \in 1..Len(x) : Agree(x[i], y[i])
  BY <1>7, <1>8, <1>9, <1>10
<1> QED BY <1>11 DEF Match, Agree, x, y

\* Fields of one kind that are read as one class.
LEMMA MatchFields ==
  ASSUME NEW R, NEW kind, NEW class, NEW n \in Nat, NEW names, DOMAIN names = 1..n,
         \A i \in 1..n : <<kind, class, Mark(names[i])>> \in R
  PROVE  Match(R, Fields(kind, names), Reads(class, names))
<1> DEFINE f == Fields(kind, names)
           b == Reads(class, names)
           S == {f[i] : i \in 1..n}
           T == {b[i] : i \in 1..n}
<1>1. /\ f \in [1..n -> S]
      /\ \A i \in 1..n : f[i].name = names[i] /\ f[i].end = "fs" /\ f[i].kind = kind
  BY DEF Fields
<1>2. /\ b \in [1..n -> T]
      /\ \A i \in 1..n : b[i].name = names[i] /\ b[i].end = "fs" /\ b[i].class = class
  BY DEF Reads
<1> HIDE DEF f, b, S, T
<1>3. f \in Seq(S) /\ Len(f) = n /\ b \in Seq(T) /\ Len(b) = n
  BY <1>1, <1>2, SegmentIsSeq
<1>4. \A i \in 1..n :
       /\ f[i].name = b[i].name /\ f[i].end = b[i].end /\ f[i].end \in Ends
       /\ <<f[i].kind, b[i].class, Mark(f[i].name)>> \in R
  BY <1>1, <1>2 DEF Ends
<1>5. (\E U : f \in Seq(U)) /\ (\E U : b \in Seq(U))
  BY <1>3
<1> QED BY <1>3, <1>4, <1>5 DEF Match, f, b

\* Names of keys, which are written and read with US.
LEMMA MatchUnits ==
  ASSUME NEW R, NEW n \in Nat, NEW names, DOMAIN names = 1..n,
         \A i \in 1..n : <<"string", "a*", Mark(names[i])>> \in R
  PROVE  Match(R, Units(names), Names(names))
<1> DEFINE f == Units(names)
           b == Names(names)
           S == {f[i] : i \in 1..n}
           T == {b[i] : i \in 1..n}
<1>1. /\ f \in [1..n -> S]
      /\ \A i \in 1..n : f[i].name = names[i] /\ f[i].end = "us" /\ f[i].kind = "string"
  BY DEF Units
<1>2. /\ b \in [1..n -> T]
      /\ \A i \in 1..n : b[i].name = names[i] /\ b[i].end = "us" /\ b[i].class = "a*"
  BY DEF Names
<1> HIDE DEF f, b, S, T
<1>3. f \in Seq(S) /\ Len(f) = n /\ b \in Seq(T) /\ Len(b) = n
  BY <1>1, <1>2, SegmentIsSeq
<1>4. \A i \in 1..n :
       /\ f[i].name = b[i].name /\ f[i].end = b[i].end /\ f[i].end \in Ends
       /\ <<f[i].kind, b[i].class, Mark(f[i].name)>> \in R
  BY <1>1, <1>2 DEF Ends
<1>5. (\E U : f \in Seq(U)) /\ (\E U : b \in Seq(U))
  BY <1>3
<1> QED BY <1>3, <1>4, <1>5 DEF Match, f, b

\* The combinations of a status, of the other answers, and of a payment.
StatusPairs == {<<"string", "a+", "version">>, <<"string", "a+?", "other">>,
                <<"integer", "n*", "other">>, <<"hex", "h*", "other">>}
AnswerPairs == StatusPairs \cup
  {<<"string", "a*", "other">>, <<"boolean", "n", "other">>,
   <<"topology", "0|1|2|3", "other">>, <<"none", "none", "other">>}
PaymentPairs == {<<"trx_type", "S|C", "other">>, <<"string", "a+", "other">>,
                 <<"string", "n+", "other">>, <<"string", "aaa", "other">>}
Pairs == AnswerPairs \cup PaymentPairs

\* A field and its machine's, the only ones of their kind.
LEMMA MatchOne ==
  ASSUME NEW R, NEW kind, NEW class, NEW name, <<kind, class, Mark(name)>> \in R
  PROVE  Match(R, Fields(kind, <<name>>), Reads(class, <<name>>))
<1> DEFINE names == <<name>>
<1>1. DOMAIN names = 1..1 /\ \A i \in 1..1 : names[i] = name
  OBVIOUS
<1> HIDE DEF names
<1>2. Match(R, Fields(kind, names), Reads(class, names))
  BY <1>1, MatchFields
<1> QED BY <1>2 DEF names

\* Version, vendor, device: T2, B1 and the beginning of B2.
LEMMA StatusMatches == Match(StatusPairs, Fields("string", Info), Status)
<1> DEFINE names == <<"vendor", "device_type", "device_id">>
<1>1. Fields("string", Info) = Fields("string", <<"version">>) \o Fields("string", names)
  BY DEF Fields, Info
<1>2. DOMAIN names = 1..3 /\ \A i \in 1..3 : Mark(names[i]) = "other"
  BY DEF Mark
<1>3. Match(StatusPairs, Fields("string", <<"version">>), Reads("a+", <<"version">>))
  <2>1. Mark("version") = "version" /\ <<"string", "a+", "version">> \in StatusPairs
    BY DEF Mark, StatusPairs
  <2> QED BY <2>1, MatchOne
<1>4. Match(StatusPairs, Fields("string", names), Reads("a+?", names))
  <2> HIDE DEF names
  <2>1. <<"string", "a+?", "other">> \in StatusPairs
    BY DEF StatusPairs
  <2> QED BY <1>2, <2>1, MatchFields
<1>5. Status = Reads("a+", <<"version">>) \o Reads("a+?", names)
  BY DEF Status, names
<1> QED BY <1>1, <1>3, <1>4, <1>5, MatchConcat

\* No other member is marked.
LEMMA Unmarked ==
  /\ \A i \in 1..4 : Mark(Printer[i]) = "other" /\ Mark(Features[i]) = "other"
  /\ \A i \in 1..3 : Mark(Modes[i]) = "other"
  /\ \A i \in 1..9 : Mark(Limits[i]) = "other" /\ Mark(Keys[i]) = "other"
  /\ DOMAIN Printer = 1..4 /\ DOMAIN Features = 1..4 /\ DOMAIN Modes = 1..3
  /\ DOMAIN Limits = 1..9 /\ DOMAIN Keys = 1..9
BY DEF Printer, Features, Modes, Limits, Keys, Mark

\* The parameters of the device, the longest layout.
LEMMA ParametersMatch == Match(AnswerPairs, Layout(<<"D", "5">>), extract_d5.fields)
<1>1. /\ <<"integer", "n*", "other">> \in AnswerPairs /\ <<"boolean", "n", "other">> \in AnswerPairs
      /\ <<"string", "a*", "other">> \in AnswerPairs /\ <<"none", "none", "other">> \in AnswerPairs
      /\ <<"topology", "0|1|2|3", "other">> \in AnswerPairs
  BY DEF AnswerPairs, StatusPairs
<1>2. Match(AnswerPairs, Fields("integer", Printer), Reads("n*", Printer))
  BY <1>1, Unmarked, MatchFields
<1>3. Match(AnswerPairs, Fields("boolean", Modes), Reads("n", Modes))
  BY <1>1, Unmarked, MatchFields
<1>4. Match(AnswerPairs, Fields("integer", Limits), Reads("n*", Limits))
  BY <1>1, Unmarked, MatchFields
<1>5. Match(AnswerPairs, Units(Keys), Names(Keys))
  BY <1>1, Unmarked, MatchUnits
<1>6. Match(AnswerPairs, Fs, JustFs)
  <2>1. Mark("") = "other"
    BY DEF Mark
  <2>2. Match(AnswerPairs, Fields("none", <<"">>), Reads("none", <<"">>))
    BY <1>1, <2>1, MatchOne
  <2>3. Fs = Fields("none", <<"">>)
    <3> DEFINE r == [name |-> "", kind |-> "none", end |-> "fs"]
               names == <<"">>
    <3>1. DOMAIN names = 1..1 /\ names[1] = ""
      OBVIOUS
    <3> HIDE DEF names
    <3>2. Fields("none", names) = [i \in 1..1 |-> [name |-> names[i], kind |-> "none", end |-> "fs"]]
      BY <3>1 DEF Fields
    <3>3. ASSUME NEW i \in 1..1
          PROVE  [name |-> names[i], kind |-> "none", end |-> "fs"] = r
      <4>1. i = 1
        OBVIOUS
      <4>2. names[i] = ""
        BY <3>1, <4>1, Zenon
      <4> QED BY <4>2, Zenon
    <3>4. Fs = <<r>>
      BY DEF Fs
    <3> HIDE DEF r
    <3>5. Fields("none", names) = [i \in 1..1 |-> r]
      BY <3>2, <3>3
    <3>6. [i \in 1..1 |-> r] = <<r>>
      OBVIOUS
    <3> QED BY <3>4, <3>5, <3>6 DEF names
  <2> QED BY <2>2, <2>3 DEF JustFs
<1>7. Match(AnswerPairs, Fields("topology", <<"device_topo">>), Reads("0|1|2|3", <<"device_topo">>))
  <2>1. Mark("device_topo") = "other"
    BY DEF Mark
  <2> QED BY <1>1, <2>1, MatchOne
<1>8. Match(AnswerPairs, Fields("boolean", Features), Reads("n", Features))
  BY <1>1, Unmarked, MatchFields
<1> DEFINE f1 == Fields("integer", Printer)
           f2 == Fields("boolean", Modes)
           f3 == Fields("integer", Limits)
           f4 == Units(Keys)
           f6 == Fields("topology", <<"device_topo">>)
           f7 == Fields("boolean", Features)
           b1 == Reads("n*", Printer)
           b2 == Reads("n", Modes)
           b3 == Reads("n*", Limits)
           b4 == Names(Keys)
           b6 == Reads("0|1|2|3", <<"device_topo">>)
           b7 == Reads("n", Features)
<1>9. Layout(<<"D", "5">>) = f1 \o f2 \o f3 \o f4 \o Fs \o f6 \o f7
  BY DEF Layout
<1>10. extract_d5.fields = b1 \o b2 \o b3 \o b4 \o JustFs \o b6 \o b7
  BY DEF extract_d5, By
<1> HIDE DEF f1, f2, f3, f4, f6, f7, b1, b2, b3, b4, b6, b7
<1>11. /\ Match(AnswerPairs, f1, b1) /\ Match(AnswerPairs, f2, b2) /\ Match(AnswerPairs, f3, b3)
       /\ Match(AnswerPairs, f4, b4) /\ Match(AnswerPairs, f6, b6) /\ Match(AnswerPairs, f7, b7)
  BY <1>2, <1>3, <1>4, <1>5, <1>7, <1>8 DEF f1, f2, f3, f4, f6, f7, b1, b2, b3, b4, b6, b7
<1>12. Match(AnswerPairs, f1 \o f2 \o f3, b1 \o b2 \o b3)
  BY <1>11, MatchConcat
<1>13. Match(AnswerPairs, f1 \o f2 \o f3 \o f4 \o Fs, b1 \o b2 \o b3 \o b4 \o JustFs)
  BY <1>6, <1>11, <1>12, MatchConcat
<1>14. Match(AnswerPairs, f1 \o f2 \o f3 \o f4 \o Fs \o f6 \o f7, b1 \o b2 \o b3 \o b4 \o JustFs \o b6 \o b7)
  BY <1>11, <1>13, MatchConcat
<1> QED BY <1>9, <1>10, <1>14

\* A payment.
LEMMA PaymentMatches == Match(PaymentPairs, Layout(<<"S", "1">>), extract_s1.fields)
<1> DEFINE n1 == <<"ecr_id", "payment_id">>
           n2 == <<"amount_gross", "amount_net", "vat">>
           n3 == <<"currency">>
           n4 == <<"cashback", "max_cashback">>
           f0 == Fields("trx_type", <<"transaction_type">>)
           f1 == Fields("string", n1)
           f2 == Fields("string", n2)
           f3 == Fields("string", n3)
           f4 == Fields("string", n4)
           b0 == Reads("S|C", <<"transaction_type">>)
           b1 == Reads("a+", n1)
           b2 == Reads("n+", n2)
           b3 == Reads("aaa", n3)
           b4 == Reads("n+", n4)
<1>1. Layout(<<"S", "1">>) = f0 \o f1 \o f2 \o f3 \o f4
  BY DEF Layout, Fields
<1>2. extract_s1.fields = b0 \o b1 \o b2 \o b3 \o b4
  BY DEF extract_s1, By
<1>3. /\ DOMAIN n1 = 1..2 /\ \A i \in 1..2 : Mark(n1[i]) = "other"
      /\ DOMAIN n2 = 1..3 /\ \A i \in 1..3 : Mark(n2[i]) = "other"
      /\ DOMAIN n3 = 1..1 /\ \A i \in 1..1 : Mark(n3[i]) = "other"
      /\ DOMAIN n4 = 1..2 /\ \A i \in 1..2 : Mark(n4[i]) = "other"
      /\ Mark("transaction_type") = "other"
  BY DEF Mark
<1>4. /\ <<"trx_type", "S|C", "other">> \in PaymentPairs /\ <<"string", "a+", "other">> \in PaymentPairs
      /\ <<"string", "n+", "other">> \in PaymentPairs /\ <<"string", "aaa", "other">> \in PaymentPairs
  BY DEF PaymentPairs
<1> HIDE DEF n1, n2, n3, n4
<1>5. Match(PaymentPairs, f0, b0)
  BY <1>3, <1>4, MatchOne
<1>6. Match(PaymentPairs, f1, b1) /\ Match(PaymentPairs, f2, b2)
  BY <1>3, <1>4, MatchFields
<1>7. Match(PaymentPairs, f3, b3) /\ Match(PaymentPairs, f4, b4)
  BY <1>3, <1>4, MatchFields
<1> HIDE DEF f0, f1, f2, f3, f4, b0, b1, b2, b3, b4
<1>8. Match(PaymentPairs, f0 \o f1 \o f2, b0 \o b1 \o b2)
  BY <1>5, <1>6, MatchConcat
<1>9. Match(PaymentPairs, f0 \o f1 \o f2 \o f3 \o f4, b0 \o b1 \o b2 \o b3 \o b4)
  BY <1>7, <1>8, MatchConcat
<1> QED BY <1>1, <1>2, <1>9

\* The short ones.
LEMMA ShortOnesMatch ==
  /\ Match(StatusPairs, Layout(<<"T", "5">>), extract_t("5").fields)
  /\ Match(AnswerPairs, Layout(<<"K", "0">>), extract_k("0").fields)
  /\ Match(StatusPairs, Layout(<<"B", "3">>), extract_b("3").fields)
  /\ Match(StatusPairs, Layout(<<"B", "4">>), extract_b("4").fields)
<1>1. /\ <<"string", "a+", "version">> \in StatusPairs /\ <<"integer", "n*", "other">> \in StatusPairs
      /\ <<"hex", "h*", "other">> \in StatusPairs
      /\ <<"integer", "n*", "other">> \in AnswerPairs /\ <<"string", "a*", "other">> \in AnswerPairs
  BY DEF StatusPairs, AnswerPairs
<1>2. /\ Mark("version") = "version" /\ Mark("result") = "other" /\ Mark("output") = "other"
      /\ Mark("kek") = "other" /\ Mark("kcv") = "other"
  BY DEF Mark
<1>3. Match(StatusPairs, Layout(<<"T", "5">>), extract_t("5").fields)
  <2>1. Match(StatusPairs, Fields("string", <<"version">>), Reads("a+", <<"version">>))
    BY <1>1, <1>2, MatchOne
  <2>2. Layout(<<"T", "5">>) = Fields("string", <<"version">>)
    BY DEF Layout
  <2>3. extract_t("5").fields = Reads("a+", <<"version">>)
    BY DEF extract_t, By
  <2> QED BY <2>1, <2>2, <2>3
<1>4. Match(AnswerPairs, Layout(<<"K", "0">>), extract_k("0").fields)
  <2>1. Match(AnswerPairs, Fields("integer", <<"result">>), Reads("n*", <<"result">>))
    BY <1>1, <1>2, MatchOne
  <2>2. Match(AnswerPairs, Fields("string", <<"output">>), Reads("a*", <<"output">>))
    BY <1>1, <1>2, MatchOne
  <2>3. Layout(<<"K", "0">>) = Fields("integer", <<"result">>) \o Fields("string", <<"output">>)
    BY DEF Layout
  <2>4. extract_k("0").fields = Reads("n*", <<"result">>) \o Reads("a*", <<"output">>)
    BY DEF extract_k, By
  <2> QED BY <2>1, <2>2, <2>3, <2>4, MatchConcat
<1>5. Match(StatusPairs, Layout(<<"B", "3">>), extract_b("3").fields)
  <2> DEFINE names == <<"kek", "kcv">>
  <2>1. DOMAIN names = 1..2 /\ \A i \in 1..2 : Mark(names[i]) = "other"
    BY <1>2
  <2> HIDE DEF names
  <2>2. Match(StatusPairs, Fields("hex", names), Reads("h*", names))
    BY <1>1, <2>1, MatchFields
  <2>3. Layout(<<"B", "3">>) = Fields("hex", names)
    BY DEF Layout, names
  <2>4. extract_b("3").fields = Reads("h*", names)
    BY DEF extract_b, By, names
  <2> QED BY <2>2, <2>3, <2>4
<1>6. Match(StatusPairs, Layout(<<"B", "4">>), extract_b("4").fields)
  <2>1. Match(StatusPairs, Fields("integer", <<"result">>), Reads("n*", <<"result">>))
    BY <1>1, <1>2, MatchOne
  <2>2. Layout(<<"B", "4">>) = Fields("integer", <<"result">>)
    BY DEF Layout
  <2>3. extract_b("4").fields = Reads("n*", <<"result">>)
    BY DEF extract_b, By
  <2> QED BY <2>1, <2>2, <2>3
<1> QED BY <1>3, <1>4, <1>5, <1>6

\* Commissioning: a status, a result and the keys.
LEMMA CommissionMatches ==
  Match(StatusPairs, Layout(<<"B", "2">>), extract_b("2").fields)
<1> DEFINE names == <<"modulus", "exponent">>
<1>1. DOMAIN names = 1..2 /\ (\A i \in 1..2 : Mark(names[i]) = "other") /\ Mark("result") = "other"
  BY DEF Mark
<1>2. /\ <<"integer", "n*", "other">> \in StatusPairs /\ <<"hex", "h*", "other">> \in StatusPairs
  BY DEF StatusPairs
<1> HIDE DEF names
<1>3. Match(StatusPairs, Fields("hex", names), Reads("h*", names))
  BY <1>1, <1>2, MatchFields
<1>4. Match(StatusPairs, Fields("integer", <<"result">>), Reads("n*", <<"result">>))
  BY <1>1, <1>2, MatchOne
<1>5. Layout(<<"B", "2">>) = Fields("string", Info) \o Fields("integer", <<"result">>) \o Fields("hex", names)
  BY DEF Layout, names
<1>6. extract_b("2").fields = Status \o Reads("n*", <<"result">>) \o Reads("h*", names)
  BY DEF extract_b, By, names
<1> QED BY <1>3, <1>4, <1>5, <1>6, StatusMatches, MatchConcat

\* T4 ends its versions in US and reads them to an FS; S2 is a member short.
Unsurvived == {<<"T", "4">>, <<"S", "2">>}
Statuses == {<<"T", "2">>, <<"B", "1">>, <<"B", "2">>}
Fieldless == {<<"T", "1">>, <<"T", "3">>, <<"D", "4">>, <<"K", "1">>}

\* The machine of every other type reads what serialize() writes.
LEMMA MachineMatches ==
  ASSUME NEW t \in Extracted, t \notin Unsurvived
  PROVE  LET f == Layout(t)
             b == Machine(t).fields
         IN  /\ t \in Fieldless => f = <<>> /\ b = JustFs
             /\ t = <<"S", "1">> => Match(PaymentPairs, f, b)
             /\ t \in Statuses => Match(StatusPairs, f, b)
             /\ t \notin Fieldless \cup {<<"S", "1">>} => Match(AnswerPairs, f, b)
<1>1. t \in {<<"T", "1">>, <<"T", "2">>, <<"T", "3">>, <<"T", "5">>, <<"S", "1">>, <<"D", "4">>,
             <<"D", "5">>, <<"K", "0">>, <<"K", "1">>, <<"B", "1">>, <<"B", "2">>, <<"B", "3">>,
             <<"B", "4">>}
  BY DEF Extracted, Unsurvived
<1>2. ASSUME NEW f, NEW b, Match(StatusPairs, f, b) PROVE Match(AnswerPairs, f, b)
  <2>1. StatusPairs \subseteq AnswerPairs
    BY DEF AnswerPairs
  <2> QED BY <1>2, <2>1, MatchMore
<1>3. CASE t \in Fieldless
  <2>1. t \notin Statuses /\ t # <<"S", "1">>
    BY <1>3 DEF Fieldless, Statuses
  <2>2. Layout(t) = <<>> /\ Machine(t).fields = JustFs
    BY <1>3 DEF Fieldless, Layout, Machine, extract_t, extract_k, By, Unchecked
  <2> QED BY <1>3, <2>1, <2>2
<1>4. CASE t = <<"S", "1">>
  <2>1. t \notin Statuses /\ t \notin Fieldless
    BY <1>4 DEF Fieldless, Statuses
  <2>2. Machine(t) = extract_s1
    BY <1>4 DEF Machine
  <2> QED BY <1>4, <2>1, <2>2, PaymentMatches
<1>5. CASE t \in Statuses
  <2>1. t # <<"S", "1">> /\ t \notin Fieldless
    BY <1>5 DEF Fieldless, Statuses
  <2>2. Match(StatusPairs, Layout(t), Machine(t).fields)
    <3>1. CASE t = <<"B", "2">>
      <4>1. Machine(t) = extract_b("2")
        BY <3>1 DEF Machine
      <4> QED BY <3>1, <4>1, CommissionMatches
    <3>2. CASE t \in {<<"T", "2">>, <<"B", "1">>}
      <4>1. Layout(t) = Fields("string", Info)
        BY <3>2 DEF Layout
      <4>2. Machine(t).fields = Status
        BY <3>2 DEF Machine, extract_t, extract_b, By, Unchecked
      <4> QED BY <4>1, <4>2, StatusMatches
    <3> QED BY <1>5, <3>1, <3>2 DEF Statuses
  <2> QED BY <1>2, <1>5, <2>1, <2>2
<1>6. CASE t = <<"D", "5">>
  <2>1. t # <<"S", "1">> /\ t \notin Fieldless /\ t \notin Statuses
    BY <1>6 DEF Fieldless, Statuses
  <2>2. Machine(t) = extract_d5
    BY <1>6 DEF Machine
  <2> QED BY <1>6, <2>1, <2>2, ParametersMatch
<1>7. CASE t \in {<<"T", "5">>, <<"K", "0">>, <<"B", "3">>, <<"B", "4">>}
  <2>1. t # <<"S", "1">> /\ t \notin Fieldless /\ t \notin Statuses
    BY <1>7 DEF Fieldless, Statuses
  <2>2. Match(AnswerPairs, Layout(t), Machine(t).fields)
    <3>1. CASE t = <<"T", "5">>
      <4>1. Machine(t) = extract_t("5")
        BY <3>1 DEF Machine
      <4> QED BY <1>2, <3>1, <4>1, ShortOnesMatch
    <3>2. CASE t = <<"K", "0">>
      <4>1. Machine(t) = extract_k("0")
        BY <3>2 DEF Machine
      <4> QED BY <3>2, <4>1, ShortOnesMatch
    <3>3. CASE t = <<"B", "3">>
      <4>1. Machine(t) = extract_b("3")
        BY <3>3 DEF Machine
      <4> QED BY <1>2, <3>3, <4>1, ShortOnesMatch
    <3>4. CASE t = <<"B", "4">>
      <4>1. Machine(t) = extract_b("4")
        BY <3>4 DEF Machine
      <4> QED BY <1>2, <3>4, <4>1, ShortOnesMatch
    <3> QED BY <1>7, <3>1, <3>2, <3>3, <3>4
  <2> QED BY <2>1, <2>2
<1> QED BY <1>1, <1>3, <1>4, <1>5, <1>6, <1>7 DEF Fieldless, Statuses

-----------------------------------------------------------------------------
(* What a machine takes *)

Classes == {"a*", "a+", "a+?", "aaa", "n*", "n+", "n", "digit*", "h*", "S|C", "0|1|2|3", "none"}

\* Those that take one byte.
Singles == {"n", "S|C", "0|1|2|3"}

\* A value has no delimiter in it, and no class takes one.
LEMMA NoDelimiters ==
  /\ \A class \in Classes : Chars(class) \subseteq Ascii
  /\ \A x \in Ends : x \notin Ascii
<1>1. \A x \in Ends : x \notin Ascii
  BY DEF Ends, Ascii, Hex, Digit
<1>2. ASSUME NEW class \in Classes PROVE Chars(class) \subseteq Ascii
  BY DEF Classes, Chars, Ascii, Hex, Digit
<1> QED BY <1>1, <1>2

\* The run of a class is the longest there is.
LEMMA RunIs ==
  ASSUME pe \in Nat, p \in 1..pe, NEW class
  PROVE  /\ Run(class) \in 0..(pe - p) /\ Run(class) <= AtMost(class)
         /\ \A i \in p..(p + Run(class) - 1) : text[i] \in Chars(class)
         /\ \A n \in 0..(pe - p) :
              n <= AtMost(class) /\ (\A i \in p..(p + n - 1) : text[i] \in Chars(class)) =>
                n <= Run(class)
<1> DEFINE N == pe - p
           S == {n \in 0..(pe - p) :
                   n <= AtMost(class) /\ \A i \in p..(p + n - 1) : text[i] \in Chars(class)}
<1>1. N \in Nat
  OBVIOUS
<1>2. AtMost(class) \in Nat
  <2>1. AtMost(class) \in {1, 3, pe - p}
    BY DEF AtMost
  <2> QED BY <1>1, <2>1
<1>3. 0 \in S
  <2>1. 0 \in 0..(pe - p) /\ \A i \in p..(p + 0 - 1) : FALSE
    OBVIOUS
  <2> QED BY <1>2, <2>1
<1>4. S \in SUBSET (0..N)
  OBVIOUS
<1>5. Run(class) = Max(S)
  BY DEF Run
<1>6. \A n : n \in S <=> /\ n \in 0..(pe - p) /\ n <= AtMost(class)
                         /\ \A i \in p..(p + n - 1) : text[i] \in Chars(class)
  OBVIOUS
<1> HIDE DEF S
<1>7. Max(S) \in S /\ \A n \in S : Max(S) >= n
  BY <1>1, <1>3, <1>4, MaxIsIn
<1> DEFINE r == Run(class)
<1>8. r \in S /\ \A n \in S : r >= n
  BY <1>5, <1>7
<1>9. r \in 0..(pe - p) /\ r <= AtMost(class) /\ \A i \in p..(p + r - 1) : text[i] \in Chars(class)
  BY <1>6, <1>8
<1> HIDE DEF r
<1>10. ASSUME NEW n \in 0..(pe - p), n <= AtMost(class),
              \A i \in p..(p + n - 1) : text[i] \in Chars(class)
       PROVE  n <= r
  <2>1. n \in S
    BY <1>6, <1>10
  <2>2. r >= n
    BY <1>8, <2>1
  <2> QED BY <1>9, <2>2
<1> QED BY <1>9, <1>10 DEF r

\* It does not go past a delimiter, and if it stops before it is not at one.
LEMMA RunStops ==
  ASSUME pe \in Nat, p \in 1..pe, NEW class \in Classes, NEW r \in Nat, p + r < pe,
         \A i \in p..(p + r - 1) : text[i] \in Ascii, text[p + r] \in Ends
  PROVE  /\ Run(class) \in 0..r
         /\ Run(class) < r => text[p + Run(class)] \in Ascii
         /\ \A i \in p..(p + Run(class) - 1) : text[i] \in Chars(class)
         /\ Run(class) <= AtMost(class)
<1> DEFINE n == Run(class)
<1>1. /\ n \in 0..(pe - p) /\ n <= AtMost(class)
      /\ \A i \in p..(p + n - 1) : text[i] \in Chars(class)
  BY RunIs
<1> HIDE DEF n
<1>2. n <= r
  <2> SUFFICES ASSUME n > r PROVE FALSE
    BY <1>1
  <2>1. p + r \in p..(p + n - 1)
    BY <1>1
  <2>2. text[p + r] \in Ascii
    BY <1>1, <2>1, NoDelimiters
  <2> QED BY <2>2, NoDelimiters
<1>3. n < r => text[p + n] \in Ascii
  <2> SUFFICES ASSUME n < r PROVE text[p + n] \in Ascii
    OBVIOUS
  <2>1. p + n \in p..(p + r - 1)
    BY <1>1
  <2> QED BY <2>1
<1>4. n \in 0..r
  BY <1>1, <1>2
<1> QED BY <1>1, <1>3, <1>4 DEF n

\* What belongs to the class is taken up to the delimiter.
LEMMA RunTakes ==
  ASSUME pe \in Nat, p \in 1..pe, NEW class \in Classes, NEW r \in Nat, p + r < pe,
         \A i \in p..(p + r - 1) : text[i] \in Chars(class), text[p + r] \in Ends,
         r <= AtMost(class)
  PROVE  Run(class) = r
<1>1. \A i \in p..(p + r - 1) : text[i] \in Ascii
  BY NoDelimiters
<1>2. Run(class) \in 0..r
  BY <1>1, RunStops
<1>3. r \in 0..(pe - p)
  OBVIOUS
<1>4. r <= Run(class)
  BY <1>3, RunIs
<1> QED BY <1>2, <1>4

\* A part of the text that has the bytes of a value is that value.
LEMMA PartIs ==
  ASSUME NEW t \in Seq(Byte), NEW q \in Nat \ {0}, NEW v \in Seq(Byte),
         q + Len(v) - 1 <= Len(t), v # <<>>,
         \A i \in 1..Len(v) : t[q + i - 1] = v[i]
  PROVE  SubSeq(t, q, q + Len(v) - 1) = v
<1> DEFINE r == Len(v)
           n == q + r - 1
           s == SubSeq(t, q, n)
<1>1. r \in Nat /\ r # 0 /\ Len(t) \in Nat
  BY LenProperties, EmptySeq
<1>2. n \in 0..Len(t) /\ q <= n /\ n - q + 1 = r
  BY <1>1
<1>3. /\ s \in Seq(Byte)
      /\ Len(s) = IF q <= n THEN n - q + 1 ELSE 0
      /\ \A i \in 1..(n - q + 1) : s[i] = t[q + i - 1]
  <2> HIDE DEF n, r
  <2> QED BY <1>2, PartIsSeq
<1> HIDE DEF s, n
<1>4. Len(s) = r
  BY <1>2, <1>3
<1> HIDE DEF r
<1>5. \A i \in 1..r : s[i] = v[i]
  BY <1>2, <1>3 DEF r
<1>6. s = v
  BY <1>3, <1>4, <1>5, SeqEqual DEF r
<1> QED BY <1>6 DEF s, n, r

\* What is copied of a field that is there is its value.
LEMMA ContentsAre ==
  ASSUME NEW class, NEW q \in Nat \ {0}, NEW v \in Seq(Byte), text \in Seq(Byte),
         q + Len(v) - 1 <= Len(text), v # <<>>,
         \A i \in 1..Len(v) : text[q + i - 1] = v[i],
         class \in {"n*", "n"} => \A i \in 1..Len(v) : v[i] \in Digit,
         class \notin {"n*", "n", "h*"} => Len(v) <= Width
  PROVE  Contents(class, q, q + Len(v) - 1) = v
<1> DEFINE r == Len(v)
           e == q + r - 1
<1>1. r \in Nat /\ r # 0 /\ e \in Nat /\ e - q + 1 = r /\ q # 0
  BY LenProperties, EmptySeq
<1>2. SubSeq(text, q, e) = v
  BY PartIs
<1> HIDE DEF e
<1>3. CASE class \in {"n*", "n"}
  <2> DEFINE S == {n \in 0..(e - q + 1) : \A i \in q..(q + n - 1) : text[i] \in Digit}
  <2>1. Contents(class, q, e) = SubSeq(text, q, q - 1 + Max(S))
    BY <1>1, <1>3 DEF Contents
  <2>2. r \in S
    <3>1. ASSUME NEW i \in q..(q + r - 1) PROVE text[i] \in Digit
      <4> DEFINE j == i - q + 1
      <4>1. j \in 1..r /\ q + j - 1 = i
        BY <1>1
      <4> HIDE DEF j
      <4>2. text[q + j - 1] = v[j] /\ v[j] \in Digit
        BY <1>3, <4>1
      <4> QED BY <4>1, <4>2
    <3>2. r \in 0..(e - q + 1)
      BY <1>1
    <3> HIDE DEF r
    <3> QED BY <3>1, <3>2
  <2>3. S \in SUBSET (0..r) /\ S # {}
    BY <1>1, <2>2
  <2> HIDE DEF S
  <2>4. Max(S) \in S /\ Max(S) >= r
    BY <1>1, <2>2, <2>3, MaxIsIn
  <2>5. Max(S) = r
    <3> DEFINE x == Max(S)
    <3>1. x \in 0..r /\ x >= r
      BY <2>3, <2>4
    <3> HIDE DEF x, r
    <3>2. x = r
      BY <1>1, <3>1
    <3> QED BY <3>2 DEF x
  <2>6. q - 1 + Max(S) = e
    BY <1>1, <2>5
  <2> QED BY <1>2, <2>1, <2>6 DEF e
<1>4. CASE class = "h*"
  BY <1>1, <1>2, <1>4 DEF Contents, e
<1>5. CASE class \notin {"n*", "n", "h*"}
  <2>1. e - q < Width
    BY <1>1, <1>5, WidthAssumption
  <2> QED BY <1>1, <1>2, <1>5, <2>1 DEF Contents, e
<1> QED BY <1>3, <1>4, <1>5

-----------------------------------------------------------------------------
(* What is filled in *)

IsSequence(s) == \E S : s \in Seq(S)

\* One member more.
LEMMA FilledAppend ==
  ASSUME NEW s, IsSequence(s), NEW x
  PROVE  IsSequence(Append(s, x)) /\ Filled(Append(s, x)) = Filled(s) \o Kept(x)
<1>1. PICK S : s \in Seq(S)
  BY DEF IsSequence
<1> DEFINE T == S \cup {x}
           n == Len(s)
           ss == [i \in DOMAIN s |-> Kept(s[i])]
           w == Append(s, x)
           ww == [i \in DOMAIN w |-> Kept(w[i])]
<1>2. \A y \in T : Kept(y) \in Seq(T)
  <2> HIDE DEF T
  <2> TAKE y \in T
  <2>1. <<y>> \in Seq(T) /\ <<>> \in Seq(T)
    OBVIOUS
  <2>2. Kept(y) = <<y>> \/ Kept(y) = <<>>
    BY Zenon DEF Kept
  <2> QED BY <2>1, <2>2
<1>3. s \in Seq(T) /\ x \in T
  <2>1. S \subseteq T
    OBVIOUS
  <2> QED BY <1>1, <2>1, SeqOfMore
<1> HIDE DEF T
<1>4. n \in Nat /\ DOMAIN s = 1..n /\ \A i \in 1..n : s[i] \in T
  BY <1>3, LenProperties, ElementOfSeq
<1>5. /\ w \in Seq(T) /\ Len(w) = n + 1
      /\ (\A i \in 1..n : w[i] = s[i]) /\ w[n + 1] = x
  BY <1>3, AppendProperties
<1>6. DOMAIN w = 1..(n + 1)
  <2> HIDE DEF w
  <2> QED BY <1>5, LenProperties
<1> HIDE DEF w, n
<1>7. ss \in [1..n -> Seq(T)] /\ \A i \in 1..n : ss[i] = Kept(s[i])
  BY <1>2, <1>4
<1>8. /\ ww = [i \in 1..(n + 1) |-> Kept(w[i])]
      /\ \A i \in 1..n : ww[i] = Kept(s[i])
      /\ ww[n + 1] = Kept(x)
  BY <1>4, <1>5, <1>6
<1>9. ww \in [1..(n + 1) -> Seq(T)]
  <2>1. \A i \in 1..(n + 1) : w[i] \in T
    BY <1>3, <1>4, <1>5
  <2> QED BY <1>2, <1>8, <2>1
<1> HIDE DEF ss, ww
<1>10. ss \in Seq(Seq(T)) /\ Len(ss) = n
  BY <1>4, <1>7, SegmentIsSeq
<1>11. ww \in Seq(Seq(T)) /\ Len(ww) = n + 1
  <2>1. n + 1 \in Nat
    BY <1>4
  <2> QED BY <1>9, <2>1, SegmentIsSeq
<1> DEFINE k == Kept(x)
           z == Append(ss, k)
<1>12. k \in Seq(T)
  BY <1>2, <1>3
<1> HIDE DEF k
<1>13. /\ z \in Seq(Seq(T)) /\ Len(z) = n + 1
       /\ (\A i \in 1..n : z[i] = ss[i]) /\ z[n + 1] = k
  BY <1>10, <1>12, AppendProperties
<1>14. FlattenSeq(z) = FlattenSeq(ss) \o k
  BY <1>10, <1>12, FlattenAppend
<1> HIDE DEF z
<1>15. ww = z
  <2>1. ww[n + 1] = z[n + 1]
    BY <1>8, <1>13, Zenon DEF k
  <2>2. \A i \in 1..n : ww[i] = z[i]
    BY <1>7, <1>8, <1>13
  <2>3. \A i \in 1..(n + 1) : i = n + 1 \/ i \in 1..n
    BY <1>4
  <2>4. \A i \in 1..(n + 1) : ww[i] = z[i]
    BY <2>1, <2>2, <2>3
  <2> QED BY <1>11, <1>13, <2>4, SeqEqual
<1>16. Filled(s) = FlattenSeq(ss) /\ Filled(w) = FlattenSeq(ww)
  BY DEF Filled, ss, ww
<1>17. IsSequence(w)
  BY <1>5 DEF IsSequence
<1> QED BY <1>14, <1>15, <1>16, <1>17 DEF w, k

\* The members of a message up to the k-th.
First(m, k) == [i \in 1..k |-> Members(m)[i]]

\* They grow one by one, from none to all.
LEMMA FirstGrow ==
  ASSUME NEW m \in Messages
  PROVE  /\ First(m, 0) = <<>> /\ First(m, Count(m)) = Members(m)
         /\ \A k \in 0..Count(m) : IsSequence(First(m, k))
         /\ \A k \in 1..Count(m) : First(m, k) = Append(First(m, k - 1), Members(m)[k])
<1> DEFINE n == Count(m)
           M == Members(m)
           S == {M[i] : i \in 1..n}
<1>1. n \in Nat /\ DOMAIN Layout(m.type) = 1..n
  BY PiecesOfFields
<1>2. M = [i \in 1..n |-> M[i]]
  BY <1>1 DEF Members
<1> HIDE DEF n, M
<1>3. ASSUME NEW k \in 0..n
      PROVE  First(m, k) \in Seq(S) /\ Len(First(m, k)) = k
  <2>1. k \in Nat
    OBVIOUS
  <2>2. First(m, k) \in [1..k -> S]
    BY <1>1 DEF First, M
  <2> HIDE DEF S
  <2> QED BY <2>1, <2>2, SegmentIsSeq
<1>4. First(m, 0) = <<>>
  <2>1. First(m, 0) \in Seq(S) /\ Len(First(m, 0)) = 0
    BY <1>1, <1>3
  <2> QED BY <2>1, EmptySeq
<1>5. First(m, n) = M
  BY <1>2 DEF First, M
<1>6. ASSUME NEW k \in 1..n
      PROVE  First(m, k) = Append(First(m, k - 1), M[k])
  <2> DEFINE a == First(m, k - 1)
             b == Append(a, M[k])
  <2>1. /\ k - 1 \in 0..n /\ k \in 0..n /\ (k - 1) + 1 = k
    BY <1>1
  <2>2. a \in Seq(S) /\ Len(a) = k - 1 /\ First(m, k) \in Seq(S) /\ Len(First(m, k)) = k
    BY <1>3, <2>1
  <2>3. M[k] \in S
    OBVIOUS
  <2>4. \A i \in 1..(k - 1) : a[i] = M[i]
    BY DEF First, M
  <2>5. \A i \in 1..k : First(m, k)[i] = M[i]
    BY DEF First, M
  <2> HIDE DEF a, S
  <2>6. /\ b \in Seq(S) /\ Len(b) = Len(a) + 1
        /\ (\A i \in 1..Len(a) : b[i] = a[i]) /\ b[Len(a) + 1] = M[k]
    BY <2>2, <2>3, AppendProperties
  <2> HIDE DEF b
  <2>7. Len(b) = k /\ b[k] = M[k] /\ \A i \in 1..(k - 1) : b[i] = M[i]
    BY <2>1, <2>2, <2>4, <2>6
  <2>8. \A i \in 1..k : First(m, k)[i] = b[i]
    <3> TAKE i \in 1..k
    <3>1. CASE i = k
      BY <2>5, <2>7, <3>1
    <3>2. CASE i # k
      <4>1. i \in 1..(k - 1)
        BY <3>2
      <4> QED BY <2>5, <2>7, <4>1
    <3> QED BY <3>1, <3>2
  <2>9. First(m, k) = b
    BY <2>2, <2>6, <2>7, <2>8, SeqEqual
  <2> QED BY <2>9 DEF b, a
<1>7. \A k \in 0..n : IsSequence(First(m, k))
  BY <1>3 DEF IsSequence
<1> QED BY <1>4, <1>5, <1>6, <1>7 DEF n, M

-----------------------------------------------------------------------------
(* Where the parser is in a message *)

Survives(m) == NoneEmpty(m) /\ m.type \notin Unsurvived

\* The first byte parsed is the token.
AtHeader ==
  msg # NULL =>
    /\ pc \in {"copy", "header"} => got = <<>>
    /\ pc = "header" => p = 2 /\ pe = Len(text) - 1

\* The machine of the body is at the beginning of a field, and has all before.
AtField ==
  msg # NULL /\ pc = "body" =>
    /\ type = msg.type /\ type \in Types /\ pe = Len(text) - 1
    /\ type # <<"S", "2">> =>
         /\ at \in 1..(Count(msg) + 1) /\ p = Place(msg, at)
         /\ type = <<"T", "4">> => at = 1
         /\ type = <<"D", "5">> /\ at > 1 => c # 0
         /\ IsSequence(got)
         /\ Survives(msg) => Filled(got) = Filled(First(msg, at - 1))

(***************************************************************************)
(* It has stopped at the end.  Not so for a T4, whose versions the machine *)
(* for additional attributes takes, and for a T2 without a version, which  *)
(* nothing takes.                                                          *)
(***************************************************************************)
AtUnits ==
  msg # NULL /\ pc = "attributes" =>
    /\ type = msg.type /\ pe = Len(text) - 1
    /\ type = <<"T", "4">> =>
         \/ at = 0 /\ p = Place(msg, 1) + Len(msg.values[1])
         \/ at \in Nat \ {0} /\ \E k \in 1..20 : p = Place(msg, k + 1)
    /\ type \notin Unsurvived =>
         /\ at = 0
         /\ \/ p = pe /\ (Survives(msg) => Filled(got) = Filled(Members(msg)))
            \/ /\ type = <<"T", "2">> /\ ~HasVersion(msg)
               /\ \E k \in 1..Count(msg) : p = Place(msg, k) /\ msg.values[k] = <<>>

RoundTripInv == AtHeader /\ AtField /\ AtUnits /\ RoundTrip /\ AnswersParse

-----------------------------------------------------------------------------
(* A value and the class that reads it *)

\* What is printed is of the wire format's characters and fits its array; what
\* answers consist of is taken by its class.
LEMMA PrintedIs ==
  ASSUME NEW kind, NEW class, NEW mark, <<kind, class, mark>> \in Pairs,
         NEW v \in Printed(kind)
  PROVE  /\ class \in Classes /\ Len(v) \in Nat
         /\ \A i \in 1..Len(v) : v[i] \in Ascii
         /\ class \in {"n*", "n"} => \A i \in 1..Len(v) : v[i] \in Digit
         /\ class \notin {"n*", "n", "h*"} => Len(v) <= Width
         /\ v = <<>> => kind \in {"string", "none"}
         /\ kind = "none" <=> class = "none"
         /\ class = "none" => v = <<>>
         /\ <<kind, class, mark>> \in StatusPairs /\ v = <<>> => class \in {"a+", "a+?"}
         /\ class \in Singles => Len(v) = 1
         /\ <<kind, class, mark>> \in AnswerPairs /\ (mark = "version" => v # <<>>) =>
              /\ \A i \in 1..Len(v) : v[i] \in Chars(class)
              /\ AtLeast(class) <= Len(v) /\ class # "aaa"
<1>0. Digit \subseteq Hex /\ Hex \subseteq Ascii /\ Width \in Nat /\ Width >= 1
  BY WidthAssumption DEF Hex, Ascii
<1>1. \A w : Len(<<w>>) = 1 /\ <<w>>[1] = w /\ <<w>> # <<>>
  OBVIOUS
<1>2. ASSUME NEW T, v \in Seq(T)
      PROVE  Len(v) \in Nat /\ (\A i \in 1..Len(v) : v[i] \in T) /\ (Len(v) = 0 <=> v = <<>>)
  BY <1>2, LenProperties, ElementOfSeq, EmptySeq
<1>3. CASE kind = "string"
  <2>1. v \in Seq(Ascii) /\ Len(v) <= Width
    BY <1>3 DEF Printed
  <2>2. Len(v) \in Nat /\ (\A i \in 1..Len(v) : v[i] \in Ascii) /\ (Len(v) = 0 <=> v = <<>>)
    BY <1>2, <2>1
  <2>3. \/ class = "a+" \/ class = "a+?" \/ class = "a*" \/ class = "n+" \/ class = "aaa"
    BY <1>3 DEF Pairs, AnswerPairs, StatusPairs, PaymentPairs
  <2>4. <<kind, class, mark>> \in AnswerPairs =>
          \/ class = "a+" /\ mark = "version"
          \/ class = "a+?"
          \/ class = "a*"
    BY <1>3 DEF AnswerPairs, StatusPairs
  <2>5. <<kind, class, mark>> \in StatusPairs => class \in {"a+", "a+?"}
    BY <1>3 DEF StatusPairs
  <2>6. \A x \in {"a+", "a+?", "a*"} : Chars(x) = Ascii
    BY DEF Chars
  <2>7. AtLeast("a+") = 1 /\ AtLeast("a+?") = 0 /\ AtLeast("a*") = 0
    BY DEF AtLeast
  <2>8. <<kind, class, mark>> \in AnswerPairs /\ (mark = "version" => v # <<>>) =>
              /\ \A i \in 1..Len(v) : v[i] \in Chars(class)
              /\ AtLeast(class) <= Len(v) /\ class # "aaa"
    <3> SUFFICES ASSUME <<kind, class, mark>> \in AnswerPairs, mark = "version" => v # <<>>
                 PROVE  /\ \A i \in 1..Len(v) : v[i] \in Chars(class)
                        /\ AtLeast(class) <= Len(v) /\ class # "aaa"
      OBVIOUS
    <3>1. CASE class = "a+" /\ mark = "version"
      <4>1. Chars(class) = Ascii /\ AtLeast(class) = 1 /\ Len(v) # 0
        BY <2>2, <2>6, <2>7, <3>1
      <4> QED BY <2>2, <3>1, <4>1
    <3>2. CASE class \in {"a+?", "a*"}
      <4>1. Chars(class) = Ascii /\ AtLeast(class) = 0
        BY <2>6, <2>7, <3>2
      <4> QED BY <2>2, <3>2, <4>1
    <3> QED BY <2>4, <3>1, <3>2
  <2>9. class \in Classes /\ class \notin Singles
    BY <2>3 DEF Classes, Singles
  <2> QED BY <1>3, <2>1, <2>2, <2>3, <2>5, <2>8, <2>9
<1>4. CASE kind = "integer"
  <2>1. v \in Seq(Digit) /\ v # <<>>
    BY <1>4 DEF Printed
  <2>2. Len(v) \in Nat /\ (\A i \in 1..Len(v) : v[i] \in Digit) /\ (Len(v) = 0 <=> v = <<>>)
    BY <1>2, <2>1
  <2>3. class = "n*"
    BY <1>4 DEF Pairs, AnswerPairs, StatusPairs, PaymentPairs
  <2>4. class \in Classes /\ Chars(class) = Digit /\ AtLeast(class) = 0 /\ class \notin Singles
    BY <2>3 DEF Classes, Chars, AtLeast, Singles
  <2> QED BY <1>0, <1>4, <2>1, <2>2, <2>3, <2>4
<1>5. CASE kind = "boolean"
  <2>1. v = <<"0">> \/ v = <<"1">>
    BY <1>5 DEF Printed
  <2>2. Len(v) = 1 /\ v # <<>> /\ v[1] \in {"0", "1"}
    BY <1>1, <2>1
  <2>3. class = "n"
    BY <1>5 DEF Pairs, AnswerPairs, StatusPairs, PaymentPairs
  <2>4. class \in Classes /\ Chars(class) = Digit /\ AtLeast(class) = 1
    BY <2>3 DEF Classes, Chars, AtLeast
  <2>5. \A i \in 1..Len(v) : v[i] \in Digit
    BY <2>2 DEF Digit
  <2> QED BY <1>0, <1>5, <2>2, <2>3, <2>4, <2>5
<1>6. CASE kind = "trx_type"
  <2>1. v = <<"S">> \/ v = <<"C">>
    BY <1>6 DEF Printed
  <2>2. Len(v) = 1 /\ v # <<>> /\ v[1] \in {"S", "C"}
    BY <1>1, <2>1
  <2>3. class = "S|C" /\ <<kind, class, mark>> \notin AnswerPairs
    BY <1>6 DEF Pairs, AnswerPairs, StatusPairs, PaymentPairs
  <2>4. class \in Classes /\ <<kind, class, mark>> \notin StatusPairs
    BY <2>3 DEF Classes, AnswerPairs
  <2>5. \A i \in 1..Len(v) : v[i] \in Ascii
    BY <2>2 DEF Ascii
  <2> QED BY <1>0, <1>6, <2>2, <2>3, <2>4, <2>5
<1>7. CASE kind = "topology"
  <2>1. v = <<"0">> \/ v = <<"1">> \/ v = <<"2">>
    BY <1>7 DEF Printed
  <2>2. Len(v) = 1 /\ v # <<>> /\ v[1] \in {"0", "1", "2"}
    BY <1>1, <2>1
  <2>3. class = "0|1|2|3"
    BY <1>7 DEF Pairs, AnswerPairs, StatusPairs, PaymentPairs
  <2>4. class \in Classes /\ Chars(class) = {"0", "1", "2"} /\ AtLeast(class) = 1
    BY <2>3 DEF Classes, Chars, AtLeast
  <2>5. \A i \in 1..Len(v) : v[i] \in Chars(class) /\ v[i] \in Ascii
    BY <2>2, <2>4 DEF Ascii, Hex, Digit
  <2> QED BY <1>0, <1>7, <2>2, <2>3, <2>4, <2>5
<1>8. CASE kind = "hex"
  <2>1. v \in Seq(Hex) /\ v # <<>>
    BY <1>8 DEF Printed
  <2>2. Len(v) \in Nat /\ (\A i \in 1..Len(v) : v[i] \in Hex) /\ (Len(v) = 0 <=> v = <<>>)
    BY <1>2, <2>1
  <2>3. class = "h*"
    BY <1>8 DEF Pairs, AnswerPairs, StatusPairs, PaymentPairs
  <2>4. class \in Classes /\ Chars(class) = Hex /\ AtLeast(class) = 0 /\ class \notin Singles
    BY <2>3 DEF Classes, Chars, AtLeast, Singles
  <2> QED BY <1>0, <1>8, <2>1, <2>2, <2>3, <2>4
<1>9. CASE kind = "none"
  <2>1. v = <<>> /\ Len(v) = 0
    BY <1>9, EmptySeq DEF Printed
  <2>3. class = "none" /\ <<kind, class, mark>> \notin StatusPairs
    BY <1>9 DEF Pairs, AnswerPairs, StatusPairs, PaymentPairs
  <2>4. class \in Classes /\ AtLeast(class) = 0 /\ class \notin Singles
    BY <2>3 DEF Classes, AtLeast, Singles
  <2> QED BY <1>0, <1>9, <2>1, <2>3, <2>4
<1>10. kind \in {"string", "integer", "boolean", "trx_type", "topology", "hex", "none"}
  BY DEF Pairs, AnswerPairs, StatusPairs, PaymentPairs
<1> QED BY <1>3, <1>4, <1>5, <1>6, <1>7, <1>8, <1>9, <1>10

\* No class is cut short by how many bytes it may take.
LEMMA RoomForClass ==
  ASSUME pe \in Nat, p \in 1..pe, NEW class, NEW l \in Nat, p + l < pe,
         class \in Singles => l = 1, class # "aaa"
  PROVE  l <= AtMost(class)
<1>0. l <= pe - p
  OBVIOUS
<1>1. CASE class \in Singles
  <2>1. AtMost(class) = 1
    BY <1>1, Zenon DEF AtMost, Singles
  <2> QED BY <1>1, <2>1
<1>2. CASE class \notin Singles
  <2>1. AtMost(class) = pe - p
    BY <1>2, Zenon DEF AtMost, Singles
  <2> QED BY <1>0, <2>1
<1> QED BY <1>1, <1>2

\* The layout of a T4, and how long the ones are that are asked for.
LEMMA SomeLayouts ==
  /\ Len(Layout(<<"T", "4">>)) = 21
  /\ \A k \in 1..20 : /\ Layout(<<"T", "4">>)[k].kind = "string"
                      /\ Layout(<<"T", "4">>)[k].end = "us"
  /\ Layout(<<"T", "4">>)[21].kind = "none" /\ Layout(<<"T", "4">>)[21].end = "fs"
  /\ Len(Layout(<<"D", "5">>)) = 31 /\ Layout(<<"D", "5">>)[1].kind = "integer"
  /\ Len(Layout(<<"B", "2">>)) = 7
  /\ Len(Layout(<<"T", "5">>)) = 1 /\ Layout(<<"T", "5">>)[1].name = "version"
  /\ \A k \in 1..4 : Layout(<<"T", "2">>)[k].end = "fs"
  /\ Len(Layout(<<"T", "2">>)) = 4
<1>1. /\ Len(Layout(<<"T", "2">>)) = 4 /\ Len(Layout(<<"T", "5">>)) = 1
      /\ Layout(<<"T", "5">>)[1].name = "version"
      /\ \A k \in 1..4 : Layout(<<"T", "2">>)[k].end = "fs"
  BY DEF Layout, Fields, Info
<1>2. Len(Layout(<<"B", "2">>)) = 7
  BY DEF Layout, Fields, Info
<1>3. Len(Layout(<<"D", "5">>)) = 31 /\ Layout(<<"D", "5">>)[1].kind = "integer"
  BY DEF Layout, Fields, Units, Fs, Printer, Modes, Limits, Keys, Features
<1>4. /\ Len(Layout(<<"T", "4">>)) = 21
      /\ \A k \in 1..20 : /\ Layout(<<"T", "4">>)[k].kind = "string"
                          /\ Layout(<<"T", "4">>)[k].end = "us"
      /\ Layout(<<"T", "4">>)[21].kind = "none" /\ Layout(<<"T", "4">>)[21].end = "fs"
  <2> DEFINE v == [name |-> "supported_version", kind |-> "string", end |-> "us"]
             e == [name |-> "", kind |-> "none", end |-> "fs"]
             a == Units(Versions)
             b == <<e>>
             S == {v, e}
  <2>1. Layout(<<"T", "4">>) = a \o b
    BY DEF Layout, Fs
  <2>2. v.kind = "string" /\ v.end = "us" /\ e.kind = "none" /\ e.end = "fs"
    OBVIOUS
  <2>3. DOMAIN a = 1..20 /\ a = [i \in DOMAIN a |-> v]
    BY DEF Units, Versions
  <2> HIDE DEF v, e, a
  <2>4. a \in [1..20 -> S] /\ \A k \in 1..20 : a[k] = v
    BY <2>3
  <2>5. b \in Seq(S) /\ Len(b) = 1 /\ b[1] = e
    OBVIOUS
  <2> HIDE DEF S, b
  <2>6. a \in Seq(S) /\ Len(a) = 20
    <3>1. 20 \in Nat /\ a \in [1..20 -> S]
      BY <2>4
    <3> QED BY <3>1, SegmentIsSeq, ZenonT(30)
  <2> DEFINE w == a \o b
  <2>7. a \in Seq(S) /\ b \in Seq(S)
    BY <2>5, <2>6
  <2>8. /\ Len(w) = Len(a) + Len(b)
        /\ \A i \in 1..(Len(a) + Len(b)) : w[i] = IF i <= Len(a) THEN a[i] ELSE b[i - Len(a)]
    BY <2>7, ConcatProperties, Zenon
  <2> HIDE DEF w
  <2>9. Len(w) = 21 /\ (\A k \in 1..20 : w[k] = v) /\ w[21] = e
    BY <2>4, <2>5, <2>6, <2>8
  <2> QED BY <2>1, <2>2, <2>9 DEF w
<1> QED BY <1>1, <1>2, <1>3, <1>4

-----------------------------------------------------------------------------
(* What the machine of the body takes of a message *)

\* Where the text of a message is parsed up to.
LEMMA WholeText ==
  ASSUME MessageInv, msg # NULL, pc \in {"header", "body", "attributes"}, pe = Len(text) - 1
  PROVE  /\ msg \in Messages /\ text = Encoding(msg) /\ text \in Seq(Byte)
         /\ pe = Place(msg, Count(msg) + 1) /\ pe \in Nat /\ p \in 1..pe /\ Len(text) \in Nat
<1>1. msg \in Messages /\ text = Encoding(msg) /\ text \in Seq(Byte)
  BY DEF MessageInv, Typed, Serializing
<1>2. p \in 1..pe /\ pe \in Nat
  BY CursorFacts
<1>3. Place(msg, Count(msg) + 1) = Len(Encoding(msg)) - 1 /\ Len(Encoding(msg)) \in Nat
  BY <1>1, FieldsInText
<1> QED BY <1>1, <1>2, <1>3

\* The cursor is where a field was written.
LEMMA AtPlace ==
  ASSUME MessageInv, msg # NULL, pc \in {"body", "attributes"}, pe = Len(text) - 1,
         NEW k \in 1..Count(msg), p = Place(msg, k)
  PROVE  LET v == msg.values[k]
             f == Layout(msg.type)[k]
         IN  /\ v \in Seq(Byte) /\ Len(v) \in Nat /\ p + Len(v) < pe
             /\ \A i \in 1..Len(v) : text[p + i - 1] = v[i]
             /\ text[p + Len(v)] = f.end
             /\ Place(msg, k + 1) = p + Len(v) + 1
             /\ v \in Printed(f.kind)
<1>1. /\ msg \in Messages /\ text = Encoding(msg) /\ pe = Place(msg, Count(msg) + 1)
  BY WholeText
<1>2. /\ DOMAIN Layout(msg.type) = 1..Count(msg) /\ msg.values[k] \in Seq(Byte)
  BY <1>1, PiecesOfFields
<1>3. LET q == Place(msg, k)
          v == msg.values[k]
      IN  /\ Len(v) \in Nat
          /\ Place(msg, k + 1) = q + Len(v) + 1
          /\ q + Len(v) < Place(msg, Count(msg) + 1)
          /\ \A i \in 1..Len(v) : Encoding(msg)[q + i - 1] = v[i]
          /\ Encoding(msg)[q + Len(v)] = Layout(msg.type)[k].end
  BY <1>1, FieldsInText
<1>4. msg.values[k] \in Printed(Layout(msg.type)[k].kind)
  BY <1>1, <1>2, PrintedAssumption
<1> QED BY <1>1, <1>2, <1>3, <1>4

\* The machine of the body is in the field that was written there.
LEMMA InItsField ==
  ASSUME MessageInv, AtField, msg # NULL, pc = "body", type \in Extracted,
         type \notin Unsurvived, at \in 1..Count(msg)
  PROVE  LET f == Layout(msg.type)[at]
         IN  /\ InField /\ Field.name = f.name /\ Field.end = f.end /\ f.end \in Ends
             /\ type \notin Fieldless
             /\ <<f.kind, Field.class, Mark(f.name)>> \in Pairs
             /\ type # <<"S", "1">> => <<f.kind, Field.class, Mark(f.name)>> \in AnswerPairs
             /\ type \in Statuses => <<f.kind, Field.class, Mark(f.name)>> \in StatusPairs
<1>1. type = msg.type
  BY DEF AtField
<1> DEFINE f == Layout(type)
           b == Machine(type).fields
<1>2. /\ type \in Fieldless => f = <<>> /\ b = JustFs
      /\ type = <<"S", "1">> => Match(PaymentPairs, f, b)
      /\ type \in Statuses => Match(StatusPairs, f, b)
      /\ type \notin Fieldless \cup {<<"S", "1">>} => Match(AnswerPairs, f, b)
  BY MachineMatches
<1>3. Len(f) = Count(msg)
  BY <1>1 DEF Count
<1>4. type \notin Fieldless
  <2> SUFFICES ASSUME type \in Fieldless PROVE FALSE
    OBVIOUS
  <2>1. Len(f) = 0
    BY <1>2, EmptySeq
  <2> QED BY <1>3, <2>1
<1>5. Body.fields = b /\ Field = b[at]
  BY DEF Body, Field
<1> HIDE DEF f, b
<1>6. ASSUME NEW R, Match(R, f, b)
      PROVE  /\ Len(b) = Count(msg) /\ f[at].name = b[at].name /\ f[at].end = b[at].end
             /\ f[at].end \in Ends
             /\ <<f[at].kind, b[at].class, Mark(f[at].name)>> \in R
  BY <1>3, <1>6 DEF Match
<1>7. Match(PaymentPairs, f, b) \/ Match(AnswerPairs, f, b)
  BY <1>2, <1>4
<1>8. InField
  <2>1. at <= Len(Body.fields)
    BY <1>3, <1>5, <1>6, <1>7
  <2> QED BY <2>1 DEF InField
<1>9. <<f[at].kind, b[at].class, Mark(f[at].name)>> \in Pairs
  BY <1>6, <1>7 DEF Pairs
<1>10. type # <<"S", "1">> => <<f[at].kind, b[at].class, Mark(f[at].name)>> \in AnswerPairs
  BY <1>2, <1>4, <1>6
<1>11. type \in Statuses => <<f[at].kind, b[at].class, Mark(f[at].name)>> \in StatusPairs
  BY <1>2, <1>6
<1>12. f[at].name = b[at].name /\ f[at].end = b[at].end /\ f[at].end \in Ends
  BY <1>6, <1>7
<1> QED BY <1>1, <1>4, <1>5, <1>8, <1>9, <1>10, <1>11, <1>12 DEF f

\* What the machine takes is the value or less, and less is not followed by a
\* delimiter.
LEMMA TakesValue ==
  ASSUME MessageInv, AtField, msg # NULL, pc = "body", type \in Extracted,
         type \notin Unsurvived, at \in 1..Count(msg)
  PROVE  /\ Taken \in 0..Len(msg.values[at])
         /\ FieldEnds => Taken = Len(msg.values[at]) /\ Taken >= AtLeast(Field.class)
<1> DEFINE v == msg.values[at]
           r == Len(v)
           f == Layout(msg.type)[at]
<1>1. pe = Len(text) - 1 /\ p = Place(msg, at)
  BY DEF AtField, Unsurvived
<1>2. p \in 1..pe /\ pe \in Nat
  BY <1>1, WholeText
<1>3. /\ r \in Nat /\ p + r < pe /\ v \in Printed(f.kind) /\ text[p + r] = f.end
      /\ \A i \in 1..r : text[p + i - 1] = v[i]
  BY <1>1, AtPlace
<1>4. f.end \in Ends /\ Field.end = f.end /\ <<f.kind, Field.class, Mark(f.name)>> \in Pairs
  BY InItsField
<1> HIDE DEF f
<1>5. Field.class \in Classes /\ \A i \in 1..r : v[i] \in Ascii
  BY <1>3, <1>4, PrintedIs
<1> HIDE DEF r, v
<1>6. ASSUME NEW i \in p..(p + r - 1) PROVE text[i] \in Ascii
  <2> DEFINE j == i - p + 1
  <2>1. j \in 1..r /\ p + j - 1 = i
    BY <1>2, <1>3
  <2> HIDE DEF j
  <2> QED BY <1>3, <1>5, <2>1
<1>7. /\ Taken \in 0..r
      /\ Taken < r => text[p + Taken] \in Ascii
  BY <1>2, <1>3, <1>4, <1>5, <1>6, RunStops DEF Taken
<1>8. FieldEnds => Taken >= AtLeast(Field.class) /\ text[p + Taken] \in Ends
  BY <1>4 DEF FieldEnds
<1>9. FieldEnds => Taken = r
  BY <1>3, <1>7, <1>8, NoDelimiters
<1> QED BY <1>7, <1>8, <1>9 DEF r, v

\* All of it is taken in what answers consist of, unless a version is missing.
LEMMA TakesAll ==
  ASSUME MessageInv, AtField, msg # NULL, pc = "body", type \in Extracted,
         type \notin Unsurvived, type # <<"S", "1">>, at \in 1..Count(msg),
         Layout(msg.type)[at].name = "version" => msg.values[at] # <<>>
  PROVE  FieldEnds
<1> DEFINE v == msg.values[at]
           r == Len(v)
           f == Layout(msg.type)[at]
           m == Mark(f.name)
<1>1. pe = Len(text) - 1 /\ p = Place(msg, at)
  BY DEF AtField, Unsurvived
<1>2. p \in 1..pe /\ pe \in Nat
  BY <1>1, WholeText
<1>3. /\ r \in Nat /\ p + r < pe /\ v \in Printed(f.kind) /\ text[p + r] = f.end
      /\ \A i \in 1..r : text[p + i - 1] = v[i]
  BY <1>1, AtPlace
<1>4. /\ f.end \in Ends /\ Field.end = f.end /\ InField
      /\ <<f.kind, Field.class, m>> \in AnswerPairs /\ <<f.kind, Field.class, m>> \in Pairs
  BY InItsField
<1>a. m = "version" => v # <<>>
  BY DEF Mark
<1> HIDE DEF f, m
<1>5. /\ Field.class \in Classes /\ \A i \in 1..r : v[i] \in Chars(Field.class)
      /\ AtLeast(Field.class) <= r /\ Field.class # "aaa"
      /\ Field.class \in Singles => r = 1
  BY <1>3, <1>4, <1>a, PrintedIs
<1> HIDE DEF r, v
<1>6. ASSUME NEW i \in p..(p + r - 1) PROVE text[i] \in Chars(Field.class)
  <2> DEFINE j == i - p + 1
  <2>1. j \in 1..r /\ p + j - 1 = i
    BY <1>2, <1>3
  <2> HIDE DEF j
  <2> QED BY <1>3, <1>5, <2>1
<1>7. r <= AtMost(Field.class)
  BY <1>2, <1>3, <1>5, RoomForClass
<1>8. Taken = r
  BY <1>2, <1>3, <1>4, <1>5, <1>6, <1>7, RunTakes DEF Taken
<1>9. AtLeast(Field.class) \in Nat
  BY DEF AtLeast
<1> QED BY <1>3, <1>4, <1>5, <1>8, <1>9 DEF FieldEnds

\* A member with nothing in it fills nothing.
LEMMA FilledNone ==
  ASSUME NEW s, IsSequence(s), NEW x, Kept(x) = <<>>
  PROVE  Filled(Append(s, x)) = Filled(s)
<1>1. PICK S : s \in Seq(S)
  BY DEF IsSequence
<1> DEFINE n == Len(s)
           ss == [i \in DOMAIN s |-> Kept(s[i])]
<1>2. n \in Nat /\ DOMAIN s = 1..n /\ \A i \in 1..n : s[i] \in S
  BY <1>1, LenProperties, ElementOfSeq
<1>3. ASSUME NEW i \in 1..n PROVE Kept(s[i]) \in Seq(S)
  <2> DEFINE y == s[i]
  <2>1. y \in S
    BY <1>2
  <2> HIDE DEF y
  <2>2. <<y>> \in Seq(S) /\ <<>> \in Seq(S)
    BY <2>1
  <2>3. Kept(y) = <<y>> \/ Kept(y) = <<>>
    BY Zenon DEF Kept
  <2> QED BY <2>2, <2>3 DEF y
<1>4. ss \in [1..n -> Seq(S)]
  BY <1>2, <1>3
<1> HIDE DEF ss
<1>5. ss \in Seq(Seq(S))
  BY <1>2, <1>4, SegmentIsSeq
<1>6. FlattenSeq(ss) \in Seq(S)
  BY <1>5, FlattenIsSeq
<1>7. Filled(s) \in Seq(S)
  BY <1>6 DEF Filled, ss
<1>8. Filled(Append(s, x)) = Filled(s) \o <<>>
  BY FilledAppend
<1> QED BY <1>7, <1>8, ConcatEmptySeq

\* What was copied of the first fields is what they hold, and one more.
LEMMA OneMore ==
  ASSUME MessageInv, AtField, msg # NULL, pc = "body", type \in Extracted,
         type \notin Unsurvived, at \in 1..Count(msg), FieldExtracted
  PROVE  /\ IsSequence(got')
         /\ Survives(msg) => Filled(got') = Filled(First(msg, at))
<1> DEFINE v == msg.values[at]
           r == Len(v)
           f == Layout(msg.type)[at]
           M == Members(msg)[at]
           z == First(msg, at - 1)
<1>1. pe = Len(text) - 1 /\ p = Place(msg, at) /\ type = msg.type /\ IsSequence(got)
      /\ (Survives(msg) => Filled(got) = Filled(z))
  BY DEF AtField, Unsurvived
<1>2. p \in 1..pe /\ pe \in Nat /\ msg \in Messages /\ text \in Seq(Byte) /\ Len(text) \in Nat
  BY <1>1, WholeText
<1>3. /\ r \in Nat /\ p + r < pe /\ v \in Printed(f.kind) /\ v \in Seq(Byte)
      /\ \A i \in 1..r : text[p + i - 1] = v[i]
  BY <1>1, AtPlace
<1>4. /\ Field.name = f.name
      /\ <<f.kind, Field.class, Mark(f.name)>> \in Pairs
      /\ type \in Statuses => <<f.kind, Field.class, Mark(f.name)>> \in StatusPairs
  BY InItsField
<1>5. /\ Count(msg) \in Nat /\ DOMAIN Layout(msg.type) = 1..Count(msg)
  BY <1>2, PiecesOfFields
<1>6. at - 1 \in 0..Count(msg) /\ IsSequence(z)
      /\ First(msg, at) = Append(z, M)
  BY <1>2, <1>5, FirstGrow
<1>7. M = <<f.name, IF f.kind = "none" THEN <<>> ELSE v>>
  BY <1>5 DEF Members
<1>8. /\ Taken = r /\ r >= AtLeast(Field.class)
      /\ c' = Began(r)
      /\ got' = IF Field.class = "none" \/ (Field.class = "a+?" /\ r = 0)
                  THEN got
                  ELSE Append(got, <<f.name, Contents(Field.class, c', p + r - 1)>>)
  <2>1. FieldEnds
    BY DEF FieldExtracted
  <2>2. Taken = r /\ r >= AtLeast(Field.class)
    BY <2>1, TakesValue
  <2> HIDE DEF r, f
  <2> QED BY <1>4, <2>2 DEF FieldExtracted
<1>9. r = 0 <=> v = <<>>
  BY <1>3, EmptySeq
<1>10. NoneEmpty(msg) => (f.kind # "none" /\ v = <<>> => type \in Statuses)
  BY <1>1, <1>5 DEF NoneEmpty, Statuses
<1> HIDE DEF f, M, z
<1>11. /\ Field.class \in {"n*", "n"} => \A i \in 1..r : v[i] \in Digit
       /\ Field.class \notin {"n*", "n", "h*"} => r <= Width
       /\ v = <<>> => f.kind \in {"string", "none"}
       /\ f.kind = "none" <=> Field.class = "none"
       /\ Field.class = "none" => v = <<>>
       /\ type \in Statuses /\ v = <<>> => Field.class \in {"a+", "a+?"}
  BY <1>3, <1>4, PrintedIs
<1>12. CASE Field.class = "none" \/ (Field.class = "a+?" /\ r = 0)
  <2>1. got' = got
    BY <1>8, <1>12
  <2>2. M = <<f.name, <<>>>>
    BY <1>7, <1>9, <1>11, <1>12
  <2>3. Kept(M) = <<>>
    BY <2>2 DEF Kept
  <2>4. Filled(First(msg, at)) = Filled(z)
    BY <1>6, <2>3, FilledNone
  <2> QED BY <1>1, <2>1, <2>4
<1>13. CASE ~(Field.class = "none" \/ (Field.class = "a+?" /\ r = 0))
  <2> DEFINE x == <<f.name, Contents(Field.class, c', p + r - 1)>>
  <2>1. got' = Append(got, x)
    BY <1>8, <1>13
  <2>2. IsSequence(got') /\ Filled(got') = Filled(got) \o Kept(x)
    <3> HIDE DEF x
    <3> QED BY <1>1, <2>1, FilledAppend
  <2>3. ASSUME Survives(msg) PROVE x = M
    <3>1. v # <<>>
      <4> SUFFICES ASSUME v = <<>> PROVE FALSE
        OBVIOUS
      <4>1. type \in Statuses
        BY <1>10, <1>11, <1>13, <2>3 DEF Survives
      <4>2. Field.class = "a+"
        BY <1>9, <1>11, <1>13, <4>1
      <4>3. AtLeast(Field.class) = 1
        BY <4>2 DEF AtLeast
      <4> QED BY <1>8, <1>9, <4>3
    <3>2. c' = p
      BY <1>3, <1>8, <1>9, <3>1 DEF Began
    <3>3. p \in Nat \ {0} /\ p + Len(v) - 1 <= Len(text)
      BY <1>1, <1>2, <1>3
    <3> HIDE DEF v
    <3>4. Contents(Field.class, p, p + r - 1) = v
      BY <1>2, <1>3, <1>11, <3>1, <3>3, ContentsAre
    <3>5. M = <<f.name, v>>
      BY <1>7, <1>11, <1>13
    <3> QED BY <3>2, <3>4, <3>5
  <2> HIDE DEF x
  <2>4. Filled(First(msg, at)) = Filled(z) \o Kept(M)
    BY <1>6, FilledAppend
  <2> QED BY <1>1, <2>2, <2>3, <2>4
<1> QED BY <1>12, <1>13

-----------------------------------------------------------------------------
(* The steps *)

\* The machine of a T4 takes the first version and stops at its US.
LEMMA StopsAtUnit ==
  ASSUME MessageInv, AtField, msg # NULL, pc = "body", type = <<"T", "4">>
  PROVE  /\ ~FieldEnds /\ Stop = Place(msg, 1) + Len(msg.values[1])
         /\ ~Body.checked /\ type \in Extracted
<1> DEFINE v == msg.values[1]
           r == Len(v)
           f == Layout(msg.type)[1]
<1>1. pe = Len(text) - 1 /\ type = msg.type /\ at = 1 /\ p = Place(msg, 1)
  BY DEF AtField
<1>2. p \in 1..pe /\ pe \in Nat
  BY <1>1, WholeText
<1>3. 1 \in 1..Count(msg) /\ f.kind = "string" /\ f.end = "us"
  <2>1. /\ Len(Layout(<<"T", "4">>)) = 21 /\ 1 \in 1..20
        /\ \A k \in 1..20 : /\ Layout(<<"T", "4">>)[k].kind = "string"
                            /\ Layout(<<"T", "4">>)[k].end = "us"
    BY SomeLayouts
  <2>2. msg.type = <<"T", "4">> /\ Count(msg) = Len(Layout(msg.type))
    BY <1>1 DEF Count
  <2>3. Count(msg) = 21
    BY <2>1, <2>2
  <2>4. Layout(msg.type)[1].kind = "string" /\ Layout(msg.type)[1].end = "us"
    BY <2>1, <2>2
  <2> QED BY <2>3, <2>4
<1>4. /\ r \in Nat /\ p + r < pe /\ v \in Printed(f.kind) /\ text[p + r] = f.end
      /\ \A i \in 1..r : text[p + i - 1] = v[i]
  BY <1>1, <1>3, AtPlace
<1>5. Body = Unchecked(Reads("a+", <<"supported_version">>))
  BY DEF Body, Machine, extract_t
<1>6. /\ Len(Body.fields) = 1 /\ Body.fields[1].class = "a+" /\ Body.fields[1].end = "fs"
      /\ ~Body.checked
  <2>1. Body.fields = Reads("a+", <<"supported_version">>) /\ ~Body.checked
    BY <1>5 DEF Unchecked
  <2>2. LET b == Reads("a+", <<"supported_version">>)
        IN  Len(b) = 1 /\ b[1].class = "a+" /\ b[1].end = "fs"
    BY DEF Reads
  <2> QED BY <2>1, <2>2
<1>7. Field.class = "a+" /\ Field.end = "fs"
  BY <1>1, <1>6 DEF Field
<1>8. type \in Extracted
  BY DEF Extracted
<1>9. InField
  BY <1>1, <1>6, <1>8 DEF InField
<1>10. /\ "a+" \in Classes /\ Chars("a+") = Ascii /\ \A i \in 1..r : v[i] \in Ascii
  <2>1. v \in Seq(Ascii)
    BY <1>3, <1>4 DEF Printed
  <2> QED BY <2>1, ElementOfSeq DEF Classes, Chars
<1> HIDE DEF f, v, r
<1>11. ASSUME NEW i \in p..(p + r - 1) PROVE text[i] \in Ascii
  <2> DEFINE j == i - p + 1
  <2>1. j \in 1..r /\ p + j - 1 = i
    BY <1>2, <1>4
  <2> HIDE DEF j
  <2> QED BY <1>4, <1>10, <2>1
<1>12. AtMost("a+") = pe - p
  BY DEF AtMost
<1>13. r <= AtMost("a+")
  BY <1>2, <1>4, <1>12
<1>14. "us" \in Ends
  BY DEF Ends
<1>15. Taken = r
  BY <1>2, <1>3, <1>4, <1>7, <1>10, <1>11, <1>13, <1>14, RunTakes DEF Taken
<1>16. ~FieldEnds
  BY <1>3, <1>4, <1>7, <1>15 DEF FieldEnds
<1>17. Stop = Place(msg, 1) + r
  BY <1>1, <1>9, <1>15 DEF Stop
<1> QED BY <1>6, <1>8, <1>16, <1>17 DEF r, v

\* Behind the last field nothing is left, and there no field begins.
LEMMA AtTheEnd ==
  ASSUME MessageInv, AtField, msg # NULL, pc = "body", type \in Extracted,
         type \notin Unsurvived, at \notin 1..Count(msg)
  PROVE  /\ at = Count(msg) + 1 /\ p = pe /\ ~FieldEnds /\ Stop = pe
<1>1. /\ at \in 1..(Count(msg) + 1) /\ p = Place(msg, at) /\ pe = Len(text) - 1
  BY DEF AtField, Unsurvived
<1>2. msg \in Messages /\ pe = Place(msg, Count(msg) + 1) /\ pe \in Nat /\ p \in 1..pe
  BY <1>1, WholeText
<1>3. Count(msg) \in Nat
  BY <1>2, PiecesOfFields
<1>4. at = Count(msg) + 1 /\ p = pe
  BY <1>1, <1>2, <1>3
<1>5. Taken \in 0..(pe - p)
  BY CursorFacts DEF Taken
<1>6. ~FieldEnds /\ Stop = pe
  BY <1>2, <1>4, <1>5 DEF FieldEnds, Stop
<1> QED BY <1>4, <1>6

\* A field that is read brings the machine to the next one.
LEMMA FieldStep ==
  ASSUME MessageInv, RoundTripInv, FieldExtracted
  PROVE  RoundTripInv'
<1>1. pc = "body" /\ pc' = "body" /\ type \in Extracted /\ FieldEnds
  BY DEF FieldExtracted, FieldEnds, InField
<1>2. /\ msg' = msg /\ text' = text /\ type' = type /\ pe' = pe /\ p' = p + Taken + 1
      /\ at' = NextField
  BY DEF FieldExtracted
<1>3. AtHeader' /\ AtUnits' /\ RoundTrip' /\ AnswersParse'
  BY <1>1 DEF AtHeader, AtUnits, RoundTrip, AnswersParse
<1>4. AtField'
  <2> SUFFICES ASSUME msg # NULL PROVE AtField'
    BY <1>2 DEF AtField
  <2>1. AtField
    BY DEF RoundTripInv
  <2>2. type = msg.type /\ type \in Types /\ pe = Len(text) - 1
    BY <1>1, <2>1 DEF AtField
  <2>3. CASE type = <<"S", "2">>
    BY <1>2, <2>2, <2>3 DEF AtField
  <2>4. CASE type = <<"T", "4">>
    BY <1>1, <2>1, <2>4, StopsAtUnit
  <2>5. CASE type \notin Unsurvived
    <3>1. at \in 1..Count(msg)
      BY <1>1, <2>1, <2>5, AtTheEnd
    <3>2. p = Place(msg, at)
      BY <1>1, <2>1, <2>5 DEF AtField, Unsurvived
    <3>3. Taken = Len(msg.values[at])
      BY <1>1, <2>1, <2>5, <3>1, TakesValue
    <3>4. Place(msg, at + 1) = p + Len(msg.values[at]) + 1
      BY <1>1, <2>2, <3>1, <3>2, AtPlace
    <3>5. at' = at + 1
      BY <1>2, <2>5 DEF NextField, Unsurvived
    <3>6. msg \in Messages
      BY <1>1, <2>2, WholeText
    <3>7. Count(msg) \in Nat
      BY <3>6, PiecesOfFields
    <3>8. at' \in 1..(Count(msg) + 1) /\ at' - 1 = at
      BY <3>1, <3>5, <3>7
    <3>9. p' = Place(msg, at')
      BY <1>2, <3>3, <3>4, <3>5
    <3>10. IsSequence(got') /\ (Survives(msg) => Filled(got') = Filled(First(msg, at' - 1)))
      BY <1>1, <2>1, <2>5, <3>1, <3>8, OneMore
    <3>11. type' # <<"T", "4">>
      BY <1>2, <2>5 DEF Unsurvived
    <3>12. type = <<"D", "5">> => c' # 0
      <4> SUFFICES ASSUME type = <<"D", "5">> PROVE c' # 0
        OBVIOUS
      <4>1. c' = Began(Taken) /\ p \in Nat /\ p # 0
        <5>1. p \in 1..pe
          BY <1>1, CursorFacts
        <5> QED BY <5>1 DEF FieldExtracted
      <4>2. CASE at = 1
        <5> DEFINE f == Layout(msg.type)[at]
        <5>1. <<f.kind, Field.class, Mark(f.name)>> \in Pairs /\ f.kind = "integer"
          <6>1. f.kind = "integer"
            BY <2>2, <4>2, SomeLayouts
          <6> QED BY <1>1, <2>1, <2>2, <2>5, <3>1, <6>1, InItsField
        <5>2. msg.values[at] \in Printed(f.kind)
          BY <1>1, <2>2, <3>1, <3>2, AtPlace
        <5> HIDE DEF f
        <5>3. msg.values[at] # <<>>
          BY <5>1, <5>2, PrintedIs
        <5>4. Len(msg.values[at]) > 0
          <6>1. msg.values[at] \in Seq(Byte) /\ Len(msg.values[at]) \in Nat
            BY <1>1, <2>2, <3>1, <3>2, AtPlace
          <6> QED BY <5>3, <6>1, EmptySeq
        <5> QED BY <3>3, <4>1, <5>4 DEF Began
      <4>3. CASE at # 1
        <5>1. at > 1
          BY <3>1, <4>3
        <5>2. c # 0
          BY <1>1, <2>1, <2>2, <5>1 DEF AtField
        <5> QED BY <4>1, <5>2 DEF Began
      <4> QED BY <4>2, <4>3
    <3> QED BY <1>2, <2>2, <3>8, <3>9, <3>10, <3>11, <3>12 DEF AtField
  <2> QED BY <2>3, <2>4, <2>5 DEF Unsurvived
<1> QED BY <1>3, <1>4 DEF RoundTripInv

\* How the machine of a body ends: at the end, or before the version of a T2.
LEMMA BodyEnds ==
  ASSUME MessageInv, AtField, msg # NULL, pc = "body", type \in Extracted,
         type \notin Unsurvived, ~FieldEnds, Body.checked => Final
  PROVE  \/ Stop = pe /\ at = Count(msg) + 1
         \/ /\ type = <<"T", "2">> /\ ~HasVersion(msg) /\ at \in 1..Count(msg)
            /\ Stop = Place(msg, at) /\ msg.values[at] = <<>>
<1>1. CASE at \notin 1..Count(msg)
  BY <1>1, AtTheEnd
<1>2. CASE at \in 1..Count(msg)
  <2> DEFINE v == msg.values[at]
  <2>1. pe = Len(text) - 1 /\ p = Place(msg, at) /\ type = msg.type
    BY DEF AtField, Unsurvived
  <2>2. msg \in Messages /\ p \in 1..pe /\ pe \in Nat
    BY <2>1, WholeText
  <2>3. Len(v) \in Nat /\ p + Len(v) < pe
    BY <1>2, <2>1, AtPlace
  <2>4. ~Body.checked
    BY <2>2, <2>3 DEF Final
  <2>5. InField /\ type \notin Fieldless
    BY <1>2, InItsField
  <2>6. type = <<"T", "2">>
    BY <2>4, <2>5
       DEF Body, Machine, Extracted, Unsurvived, Fieldless, extract_t, extract_s1, extract_d5,
           extract_b, extract_k, By
  <2>7. Layout(msg.type)[at].name = "version" /\ v = <<>>
    BY <1>2, <2>6, TakesAll
  <2>8. Taken \in 0..Len(v)
    BY <1>2, TakesValue
  <2>9. Len(v) = 0
    BY <2>7, EmptySeq
  <2>10. Stop = Place(msg, at)
    BY <2>1, <2>2, <2>5, <2>8, <2>9 DEF Stop
  <2>11. DOMAIN Layout(msg.type) = 1..Count(msg)
    BY <2>2, PiecesOfFields
  <2>12. ~HasVersion(msg)
    BY <1>2, <2>7, <2>11 DEF HasVersion
  <2> QED BY <1>2, <2>6, <2>7, <2>10, <2>12
<1> QED BY <1>1, <1>2

\* What is behind the body is where the next machine begins.
LEMMA BodyStep ==
  ASSUME MessageInv, RoundTripInv, BodyExtracted
  PROVE  RoundTripInv'
<1>1. /\ pc = "body" /\ pc' = "attributes" /\ type \in Extracted /\ ~FieldEnds
      /\ Body.checked => Final
  BY DEF BodyExtracted
<1>2. /\ msg' = msg /\ text' = text /\ type' = type /\ pe' = pe /\ p' = Stop
      /\ at' = 0 /\ got' = got
  BY DEF BodyExtracted
<1>3. AtHeader' /\ AtField' /\ RoundTrip' /\ AnswersParse'
  BY <1>1 DEF AtHeader, AtField, RoundTrip, AnswersParse
<1>4. AtUnits'
  <2> SUFFICES ASSUME msg # NULL PROVE AtUnits'
    BY <1>2 DEF AtUnits
  <2>1. AtField
    BY DEF RoundTripInv
  <2>2. type = msg.type /\ pe = Len(text) - 1
    BY <1>1, <2>1 DEF AtField
  <2>3. CASE type = <<"S", "2">>
    <3>1. type' # <<"T", "4">> /\ type' \in Unsurvived
      BY <1>2, <2>3 DEF Unsurvived
    <3> QED BY <1>2, <2>2, <3>1 DEF AtUnits
  <2>4. CASE type = <<"T", "4">>
    <3>1. Stop = Place(msg, 1) + Len(msg.values[1])
      BY <1>1, <2>1, <2>4, StopsAtUnit
    <3>2. type' \in Unsurvived
      BY <1>2, <2>4 DEF Unsurvived
    <3> QED BY <1>2, <2>2, <3>1, <3>2 DEF AtUnits
  <2>5. CASE type \notin Unsurvived
    <3>1. type' # <<"T", "4">>
      BY <1>2, <2>5 DEF Unsurvived
    <3>2. \/ Stop = pe /\ at = Count(msg) + 1
          \/ /\ type = <<"T", "2">> /\ ~HasVersion(msg) /\ at \in 1..Count(msg)
             /\ Stop = Place(msg, at) /\ msg.values[at] = <<>>
      BY <1>1, <2>1, <2>5, BodyEnds
    <3>3. CASE Stop = pe /\ at = Count(msg) + 1
      <4>1. msg \in Messages
        BY <1>1, <2>2, WholeText
      <4>2. Count(msg) \in Nat /\ First(msg, Count(msg)) = Members(msg)
        BY <4>1, PiecesOfFields, FirstGrow
      <4>3. at - 1 = Count(msg)
        BY <3>3, <4>2
      <4>4. Survives(msg) => Filled(got) = Filled(Members(msg))
        BY <1>1, <2>1, <2>5, <4>2, <4>3 DEF AtField, Unsurvived
      <4>5. (Survives(msg) => Filled(got) = Filled(Members(msg)))'
        BY <1>2, <4>4 DEF Survives
      <4> QED BY <1>2, <2>2, <3>1, <3>3, <4>5 DEF AtUnits
    <3>4. CASE /\ type = <<"T", "2">> /\ ~HasVersion(msg) /\ at \in 1..Count(msg)
               /\ Stop = Place(msg, at) /\ msg.values[at] = <<>>
      <4>1. (\E k \in 1..Count(msg) : p = Place(msg, k) /\ msg.values[k] = <<>>)'
        BY <1>2, <3>4
      <4> QED BY <1>2, <2>2, <3>1, <3>4, <4>1 DEF AtUnits
    <3> QED BY <3>2, <3>3, <3>4
  <2> QED BY <2>3, <2>4, <2>5 DEF Unsurvived
<1> QED BY <1>3, <1>4 DEF RoundTripInv

\* No machine turns down the body of an answer.
LEMMA BodyRefused ==
  ASSUME MessageInv, RoundTripInv, BodyRejected
  PROVE  RoundTripInv'
<1>1. /\ pc = "body" /\ pc' = "rejected" /\ msg' = msg
      /\ type \in Extracted => ~FieldEnds /\ Body.checked /\ ~Final
  BY DEF BodyRejected
<1>2. AtHeader' /\ AtField' /\ AtUnits' /\ RoundTrip'
  BY <1>1 DEF AtHeader, AtField, AtUnits, RoundTrip
<1>3. AnswersParse'
  <2> SUFFICES ASSUME msg # NULL, msg.type \in Answers, HasVersion(msg) PROVE FALSE
    BY <1>1 DEF AnswersParse
  <2>1. AtField
    BY DEF RoundTripInv
  <2>2. type = msg.type /\ pe = Len(text) - 1
    BY <1>1, <2>1 DEF AtField
  <2>3. type \in Extracted /\ type # <<"S", "1">> /\ type # <<"S", "2">>
    BY <2>2 DEF Answers, Extracted
  <2>4. type # <<"T", "4">>
    BY <1>1, <2>1, <2>3, StopsAtUnit
  <2>5. type \notin Unsurvived
    BY <2>3, <2>4 DEF Unsurvived
  <2>6. msg \in Messages
    BY <1>1, <2>2, WholeText
  <2>7. DOMAIN Layout(msg.type) = 1..Count(msg)
    BY <2>6, PiecesOfFields
  <2>8. at \notin 1..Count(msg)
    <3> SUFFICES ASSUME at \in 1..Count(msg) PROVE FALSE
      OBVIOUS
    <3>1. Layout(msg.type)[at].name = "version" => msg.values[at] # <<>>
      BY <2>7 DEF HasVersion
    <3>2. FieldEnds
      BY <1>1, <2>1, <2>3, <2>5, <3>1, TakesAll
    <3> QED BY <1>1, <2>3, <3>2
  <2>9. at = Count(msg) + 1 /\ p = pe
    BY <1>1, <2>1, <2>3, <2>5, <2>8, AtTheEnd
  <2>10. Count(msg) = Len(Layout(type))
    BY <2>2 DEF Count
  <2>11. type # <<"T", "2">>
    BY <1>1, <2>3 DEF Body, Machine, extract_t, Unchecked
  <2>12. type \in {<<"T", "3">>, <<"T", "5">>, <<"D", "5">>, <<"B", "2">>, <<"K", "1">>}
    BY <2>2, <2>4, <2>11 DEF Answers
  <2>13. at > Body.required
    <3>1. CASE type \in {<<"T", "3">>, <<"K", "1">>}
      <4>1. Body.required = 0
        BY <3>1 DEF Body, Machine, extract_t, extract_k, By
      <4>2. Count(msg) \in Nat
        BY <2>6, PiecesOfFields
      <4> QED BY <2>9, <4>1, <4>2
    <3>2. CASE type = <<"T", "5">>
      <4>1. Body.required = 1
        BY <3>2 DEF Body, Machine, extract_t, By
      <4>2. Count(msg) = 1
        BY <2>10, <3>2, SomeLayouts
      <4> QED BY <2>9, <4>1, <4>2
    <3>3. CASE type = <<"D", "5">>
      <4>1. Body.required = 31
        BY <3>3 DEF Body, Machine, extract_d5, By
      <4>2. Count(msg) = 31
        BY <2>10, <3>3, SomeLayouts
      <4> QED BY <2>9, <4>1, <4>2
    <3>4. CASE type = <<"B", "2">>
      <4>1. Body.required = 5
        BY <3>4 DEF Body, Machine, extract_b, By
      <4>2. Count(msg) = 7
        BY <2>10, <3>4, SomeLayouts
      <4> QED BY <2>9, <4>1, <4>2
    <3> QED BY <2>12, <3>1, <3>2, <3>3, <3>4
  <2> QED BY <1>1, <2>3, <2>9, <2>13 DEF Final
<1> QED BY <1>2, <1>3 DEF RoundTripInv

\* A field of an answer that is empty is one for which nothing is copied, or
\* not the first one.
LEMMA FieldReturns ==
  ASSUME MessageInv, RoundTripInv, FieldFaults
  PROVE  RoundTripInv'
<1>1. /\ pc = "body" /\ pc' = "fault" /\ msg' = msg /\ type \in Extracted /\ FieldEnds
      /\ c = 0 /\ Taken = 0 /\ Field.class \notin {"none", "a+?"}
  BY DEF FieldFaults, FieldEnds, InField, Wild
<1>2. AtHeader' /\ AtField' /\ AtUnits' /\ RoundTrip'
  BY <1>1 DEF AtHeader, AtField, AtUnits, RoundTrip
<1>3. AnswersParse'
  <2> SUFFICES ASSUME msg # NULL, msg.type \in Answers, HasVersion(msg) PROVE FALSE
    BY <1>1 DEF AnswersParse
  <2>1. AtField
    BY DEF RoundTripInv
  <2>2. type = msg.type /\ pe = Len(text) - 1
    BY <1>1, <2>1 DEF AtField
  <2>3. type # <<"T", "4">> /\ type # <<"S", "2">>
    BY <1>1, <2>1, <2>2, StopsAtUnit DEF Answers
  <2>4. type \notin Unsurvived
    BY <2>3 DEF Unsurvived
  <2>5. at \in 1..Count(msg)
    BY <1>1, <2>1, <2>4, AtTheEnd
  <2>6. p = Place(msg, at)
    BY <1>1, <2>1, <2>4 DEF AtField, Unsurvived
  <2> DEFINE v == msg.values[at]
             f == Layout(msg.type)[at]
             k == <<f.kind, Field.class, Mark(f.name)>>
  <2>7. Taken = Len(v) /\ 0 >= AtLeast(Field.class)
    BY <1>1, <2>1, <2>4, <2>5, TakesValue
  <2>8. v \in Printed(f.kind) /\ v \in Seq(Byte)
    BY <1>1, <2>2, <2>5, <2>6, AtPlace
  <2>9. v = <<>>
    BY <1>1, <2>7, <2>8, EmptySeq
  <2>10. /\ type \notin Fieldless /\ k \in Pairs
         /\ type \in Statuses => k \in StatusPairs
    BY <1>1, <2>1, <2>4, <2>5, InItsField
  <2>11. Field.class # "a+"
    BY <2>7 DEF AtLeast
  <2>12. type \notin Statuses
    <3> SUFFICES ASSUME type \in Statuses PROVE FALSE
      OBVIOUS
    <3> HIDE DEF f, v
    <3>1. Field.class \in {"a+", "a+?"}
      BY <2>8, <2>9, <2>10, PrintedIs
    <3> QED BY <1>1, <2>11, <3>1
  <2>13. type \in {<<"T", "5">>, <<"D", "5">>}
    BY <2>2, <2>3, <2>10, <2>12 DEF Answers, Statuses, Fieldless
  <2>14. Count(msg) = Len(Layout(type))
    BY <2>2 DEF Count
  <2>15. msg \in Messages
    BY <1>1, <2>2, WholeText
  <2>16. CASE type = <<"T", "5">>
    <3>3. Count(msg) = 1
      BY <2>2, <2>14, <2>16, SomeLayouts
    <3>4. at = 1
      BY <2>5, <3>3
    <3>1. at = 1 /\ f.name = "version"
      BY <2>2, <2>16, <3>4, SomeLayouts
    <3>2. DOMAIN Layout(msg.type) = 1..Count(msg)
      BY <2>15, PiecesOfFields
    <3> QED BY <2>5, <2>9, <3>1, <3>2 DEF HasVersion
  <2>17. CASE type = <<"D", "5">>
    <3>1. ~(at > 1)
      BY <1>1, <2>1, <2>17 DEF AtField
    <3>2. at = 1
      BY <2>5, <3>1
    <3>3. f.kind = "integer"
      BY <2>2, <2>17, <3>2, SomeLayouts
    <3> HIDE DEF f, v
    <3>4. v # <<>>
      BY <2>8, <2>10, <3>3, PrintedIs
    <3> QED BY <2>9, <3>4
  <2> QED BY <2>13, <2>16, <2>17
<1> QED BY <1>2, <1>3 DEF RoundTripInv

\* A unit is taken up to its delimiter.
LEMMA UnitIs ==
  ASSUME MessageInv, pc = "attributes", NEW r \in Nat, p + r < pe,
         \A i \in 1..r : text[p + i - 1] \in Ascii, text[p + r] \in Ends
  PROVE  Unit = r
<1>1. p \in 1..pe /\ pe \in Nat
  BY CursorFacts
<1>2. "a*" \in Classes /\ Chars("a*") = Ascii /\ AtMost("a*") = pe - p
  BY DEF Classes, Chars, AtMost
<1>3. r <= AtMost("a*")
  BY <1>1, <1>2
<1>4. ASSUME NEW i \in p..(p + r - 1) PROVE text[i] \in Chars("a*")
  <2> DEFINE j == i - p + 1
  <2>1. j \in 1..r /\ p + j - 1 = i
    BY <1>1
  <2> HIDE DEF j
  <2> QED BY <1>2, <2>1
<1> QED BY <1>1, <1>2, <1>3, <1>4, RunTakes DEF Unit

\* A T4's versions are units, the last thing in it is an FS.
LEMMA UnitsOfVersions ==
  ASSUME MessageInv, AtUnits, msg # NULL, pc = "attributes", type = <<"T", "4">>
  PROVE  \/ UnitEnds /\ at \in Nat /\ \E k \in 1..20 : p + Unit + 1 = Place(msg, k + 1)
         \/ ~UnitEnds /\ AttributesFinal
<1>1. /\ type = msg.type /\ pe = Len(text) - 1
      /\ \/ at = 0 /\ p = Place(msg, 1) + Len(msg.values[1])
         \/ at \in Nat \ {0} /\ \E k \in 1..20 : p = Place(msg, k + 1)
  BY DEF AtUnits
<1>2. /\ msg \in Messages /\ text = Encoding(msg) /\ pe = Place(msg, Count(msg) + 1)
      /\ p \in 1..pe /\ pe \in Nat
  BY <1>1, WholeText
<1>3. /\ Count(msg) = 21
      /\ \A k \in 1..20 : /\ Layout(msg.type)[k].kind = "string"
                          /\ Layout(msg.type)[k].end = "us"
      /\ Layout(msg.type)[21].kind = "none" /\ Layout(msg.type)[21].end = "fs"
  <2>1. msg.type = <<"T", "4">> /\ Count(msg) = Len(Layout(msg.type))
    BY <1>1 DEF Count
  <2> QED BY <2>1, SomeLayouts
<1>4. "us" \in Ends /\ "fs" \in Ends /\ "us" # "fs"
  BY DEF Ends
<1>5. CASE at = 0 /\ p = Place(msg, 1) + Len(msg.values[1])
  <2>1. 1 \in 1..Count(msg) /\ 1 \in 1..20
    BY <1>3
  <2>2. /\ Encoding(msg)[Place(msg, 1) + Len(msg.values[1])] = Layout(msg.type)[1].end
        /\ Place(msg, 1 + 1) = Place(msg, 1) + Len(msg.values[1]) + 1
        /\ Place(msg, 1) + Len(msg.values[1]) < Place(msg, Count(msg) + 1)
    BY <1>2, <2>1, FieldsInText
  <2>3. text[p + 0] = "us" /\ p + 0 < pe /\ Place(msg, 1 + 1) = p + 1
    <3>1. text[p] = "us" /\ p < pe /\ Place(msg, 1 + 1) = p + 1
      BY <1>2, <1>3, <1>5, <2>1, <2>2, Zenon
    <3>2. p + 0 = p
      BY <1>2
    <3> QED BY <3>1, <3>2
  <2>4. \A i \in 1..0 : text[p + i - 1] \in Ascii
    OBVIOUS
  <2>5. Unit = 0
    BY <1>4, <2>3, <2>4, UnitIs
  <2>6. UnitEnds
    BY <2>3, <2>5 DEF UnitEnds
  <2>7. p + Unit + 1 = Place(msg, 1 + 1)
    BY <1>2, <1>5, <2>3, <2>5
  <2> QED BY <1>5, <2>1, <2>6, <2>7
<1>6. ASSUME at \in Nat \ {0}, NEW n \in 1..20, p = Place(msg, n + 1)
      PROVE  \/ UnitEnds /\ \E i \in 1..20 : p + Unit + 1 = Place(msg, i + 1)
             \/ ~UnitEnds /\ AttributesFinal
  <2> DEFINE k == n + 1
             v == msg.values[k]
             r == Len(v)
             f == Layout(msg.type)[k]
  <2>1. k \in 1..Count(msg) /\ p = Place(msg, k) /\ k + 1 = n + 2
    BY <1>3, <1>6
  <2>2. /\ r \in Nat /\ p + r < pe /\ v \in Printed(f.kind)
        /\ \A i \in 1..r : text[p + i - 1] = v[i]
        /\ text[p + r] = f.end
        /\ Place(msg, k + 1) = p + r + 1
    <3> HIDE DEF k
    <3> QED BY <1>1, <2>1, AtPlace
  <2>3. CASE n # 20
    <3>1. f.kind = "string" /\ f.end = "us" /\ n + 1 \in 1..20
      BY <1>3, <1>6, <2>3
    <3>2. v \in Seq(Ascii)
      BY <2>2, <3>1 DEF Printed
    <3> HIDE DEF f, v
    <3>3. \A i \in 1..r : v[i] \in Ascii
      BY <3>2, ElementOfSeq
    <3> HIDE DEF k, r
    <3>4. Unit = r
      BY <1>4, <2>2, <3>1, <3>3, UnitIs
    <3>5. UnitEnds
      BY <2>2, <3>1, <3>4 DEF UnitEnds
    <3>6. p + Unit + 1 = Place(msg, (n + 1) + 1)
      <4>1. k + 1 = (n + 1) + 1
        BY <2>1
      <4> QED BY <2>1, <2>2, <3>4, <4>1
    <3> QED BY <3>1, <3>5, <3>6
  <2>4. CASE n = 20
    <3>1. f.kind = "none" /\ f.end = "fs"
      BY <1>3, <2>4
    <3>2. v = <<>>
      BY <2>2, <3>1 DEF Printed
    <3>3. r = 0
      BY <3>2, EmptySeq
    <3>4. text[p + 0] = "fs" /\ p + 0 < pe /\ Place(msg, 22) = p + 1
      BY <1>2, <2>1, <2>2, <2>4, <3>1, <3>3
    <3>5. \A i \in 1..0 : text[p + i - 1] \in Ascii
      OBVIOUS
    <3>6. Unit = 0
      BY <1>4, <3>4, <3>5, UnitIs
    <3>7. ~UnitEnds
      BY <1>4, <3>4, <3>6 DEF UnitEnds
    <3>9. Place(msg, 22) = pe
      <4>1. Count(msg) + 1 = 22
        BY <1>3
      <4> QED BY <1>2, <4>1, Zenon
    <3>10. p + 0 = p /\ p = pe - 1 /\ at > 0
      BY <1>2, <1>6, <3>4, <3>9
    <3>8. p = pe - 1 /\ text[p] = "fs" /\ at > 0
      BY <3>4, <3>10
    <3> QED BY <3>7, <3>8 DEF AttributesFinal
  <2> QED BY <2>3, <2>4
<1>7. at \in Nat
  BY <1>1
<1> QED BY <1>1, <1>5, <1>6, <1>7

\* Of every other type nothing is left for a unit: the end, or an FS.
LEMMA NoUnits ==
  ASSUME MessageInv, AtUnits, msg # NULL, pc = "attributes", type \notin Unsurvived
  PROVE  ~UnitEnds /\ at = 0
<1>1. /\ type = msg.type /\ pe = Len(text) - 1 /\ at = 0
      /\ \/ p = pe
         \/ /\ type = <<"T", "2">>
            /\ \E k \in 1..Count(msg) : p = Place(msg, k) /\ msg.values[k] = <<>>
  BY DEF AtUnits
<1>2. /\ p \in 1..pe /\ pe \in Nat /\ Unit \in 0..(pe - p)
  BY CursorFacts DEF Unit
<1>3. CASE p = pe
  BY <1>1, <1>2, <1>3 DEF UnitEnds
<1>4. CASE /\ type = <<"T", "2">>
           /\ \E k \in 1..Count(msg) : p = Place(msg, k) /\ msg.values[k] = <<>>
  <2>1. PICK k \in 1..Count(msg) : p = Place(msg, k) /\ msg.values[k] = <<>>
    BY <1>4
  <2>2. /\ p + Len(msg.values[k]) < pe
        /\ text[p + Len(msg.values[k])] = Layout(msg.type)[k].end
    BY <1>1, <2>1, AtPlace
  <2>3. Len(msg.values[k]) = 0
    BY <2>1, EmptySeq
  <2>4. Layout(msg.type)[k].end = "fs"
    <3>1. msg.type = <<"T", "2">> /\ Count(msg) = Len(Layout(msg.type))
      BY <1>1, <1>4 DEF Count
    <3>2. Count(msg) = 4
      BY <3>1, SomeLayouts
    <3> QED BY <3>1, <3>2, SomeLayouts
  <2>5. p + 0 < pe /\ text[p + 0] = "fs" /\ "fs" \in Ends /\ "fs" # "us"
    BY <1>2, <2>2, <2>3, <2>4 DEF Ends
  <2>6. \A i \in 1..0 : text[p + i - 1] \in Ascii
    OBVIOUS
  <2>7. Unit = 0
    BY <2>5, <2>6, UnitIs
  <2> QED BY <1>1, <2>5, <2>7 DEF UnitEnds
<1> QED BY <1>1, <1>3, <1>4

\* A unit that is taken is a version of a T4.
LEMMA UnitStep ==
  ASSUME MessageInv, RoundTripInv, AttributeExtracted
  PROVE  RoundTripInv'
<1>1. pc = "attributes" /\ pc' = "attributes" /\ UnitEnds
  BY DEF AttributeExtracted, UnitEnds
<1>2. /\ msg' = msg /\ text' = text /\ type' = type /\ pe' = pe /\ p' = p + Unit + 1
      /\ \/ at < 19 /\ \E n \in {2, 3} : at' = at + n
         \/ ~(at < 19) /\ at' = at
  BY DEF AttributeExtracted, Counts
<1>3. AtHeader' /\ AtField' /\ RoundTrip' /\ AnswersParse'
  BY <1>1 DEF AtHeader, AtField, RoundTrip, AnswersParse
<1>4. AtUnits'
  <2> SUFFICES ASSUME msg # NULL PROVE AtUnits'
    BY <1>2 DEF AtUnits
  <2>1. AtUnits
    BY DEF RoundTripInv
  <2>2. type = msg.type /\ pe = Len(text) - 1
    BY <1>1, <2>1 DEF AtUnits
  <2>3. type \in Unsurvived
    BY <1>1, <2>1, NoUnits
  <2>4. CASE type = <<"T", "4">>
    <3>1. at \in Nat /\ \E k \in 1..20 : p + Unit + 1 = Place(msg, k + 1)
      BY <1>1, <2>1, <2>4, UnitsOfVersions
    <3>2. at' \in Nat \ {0} /\ \E k \in 1..20 : p' = Place(msg', k + 1)
      <4>1. at' \in Nat \ {0}
        BY <1>2, <3>1
      <4> QED BY <1>2, <3>1, <4>1
    <3> QED BY <1>2, <2>2, <2>3, <3>2 DEF AtUnits
  <2>5. CASE type # <<"T", "4">>
    BY <1>2, <2>2, <2>3, <2>5 DEF AtUnits
  <2> QED BY <2>4, <2>5
<1> QED BY <1>3, <1>4 DEF RoundTripInv

\* Of all answers only T4 has units, so that one of them may come first and empty.
LEMMA UnitReturns ==
  ASSUME MessageInv, RoundTripInv, AttributeFaults
  PROVE  RoundTripInv'
<1>1. pc = "attributes" /\ pc' = "fault" /\ msg' = msg /\ UnitEnds
  BY DEF AttributeFaults, UnitEnds
<1>2. AtHeader' /\ AtField' /\ AtUnits' /\ RoundTrip'
  BY <1>1 DEF AtHeader, AtField, AtUnits, RoundTrip
<1>3. AnswersParse'
  <2> SUFFICES ASSUME msg # NULL, msg.type \in Answers, msg.type # <<"T", "4">> PROVE FALSE
    BY <1>1 DEF AnswersParse
  <2>1. AtUnits
    BY DEF RoundTripInv
  <2>2. type = msg.type
    BY <1>1, <2>1 DEF AtUnits
  <2>3. type \notin Unsurvived
    BY <2>2 DEF Answers, Unsurvived
  <2> QED BY <1>1, <2>1, <2>3, NoUnits
<1> QED BY <1>2, <1>3 DEF RoundTripInv

\* What the last machine accepts is whole, and it turns down no answer.
LEMMA UnitsStep ==
  ASSUME MessageInv, RoundTripInv, AttributesEnd
  PROVE  RoundTripInv'
<1>1. /\ pc = "attributes" /\ ~UnitEnds
      /\ pc' = IF AttributesFinal THEN "parsed" ELSE "rejected"
      /\ msg' = msg /\ got' = got
  BY DEF AttributesEnd
<1>2. AtHeader' /\ AtField' /\ AtUnits'
  BY <1>1 DEF AtHeader, AtField, AtUnits
<1>3. AtUnits
  BY DEF RoundTripInv
<1>4. RoundTrip'
  <2> SUFFICES ASSUME AttributesFinal, msg # NULL, NoneEmpty(msg), msg.type \notin Unsurvived
               PROVE  Filled(got) = Filled(Members(msg))
    BY <1>1 DEF RoundTrip, Unsurvived
  <2>1. type \notin Unsurvived /\ Survives(msg) /\ pe = Len(text) - 1 /\ type = msg.type
    BY <1>1, <1>3 DEF AtUnits, Survives
  <2>2. at = 0
    BY <1>1, <1>3, <2>1, NoUnits
  <2>3. p = pe
    BY <2>2 DEF AttributesFinal
  <2>4. pe \in Nat
    BY <1>1, <2>1, WholeText
  <2>5. ASSUME NEW k \in 1..Count(msg), p = Place(msg, k) PROVE FALSE
    <3>1. Len(msg.values[k]) \in Nat /\ p + Len(msg.values[k]) < pe
      BY <1>1, <2>1, <2>5, AtPlace
    <3> QED BY <2>3, <2>4, <3>1
  <2> QED BY <1>1, <1>3, <2>1, <2>5 DEF AtUnits
<1>5. AnswersParse'
  <2> SUFFICES ASSUME ~AttributesFinal, msg # NULL, msg.type \in Answers, HasVersion(msg)
               PROVE  FALSE
    BY <1>1 DEF AnswersParse
  <2>1. type = msg.type
    BY <1>1, <1>3 DEF AtUnits
  <2>2. type # <<"T", "4">>
    BY <1>1, <1>3, UnitsOfVersions
  <2>3. type \notin Unsurvived
    BY <2>1, <2>2 DEF Answers, Unsurvived
  <2>4. at = 0 /\ p = pe
    BY <1>1, <1>3, <2>3 DEF AtUnits
  <2> QED BY <2>4 DEF AttributesFinal
<1> QED BY <1>2, <1>4, <1>5 DEF RoundTripInv

\* The header of an answer has a token of one digit, and is accepted.
LEMMA HeaderStep ==
  ASSUME MessageInv, RoundTripInv, HeaderExtracted \/ HeaderRejected
  PROVE  RoundTripInv'
<1>1. pc = "header"
  BY DEF HeaderExtracted, HeaderRejected
<1>2. AtHeader
  BY DEF RoundTripInv
<1>3. "7" \in Hex /\ "fs" \notin Hex
  BY DEF Hex, Digit
<1>4. ASSUME msg # NULL
      PROVE  /\ msg \in Messages /\ text = Encoding(msg) /\ p = 2 /\ pe = Len(text) - 1
             /\ got = <<>> /\ pe \in Nat /\ Count(msg) \in Nat
             /\ text[2] = "7" /\ text[3] = "fs" /\ text[4 + Len(msg.type)] = "fs"
             /\ \A i \in 1..Len(msg.type) : text[3 + i] = msg.type[i]
             /\ Place(msg, 1) = 5 + Len(msg.type) /\ Place(msg, 1) <= pe
  <2>1. p = 2 /\ pe = Len(text) - 1 /\ got = <<>>
    BY <1>1, <1>2, <1>4 DEF AtHeader
  <2>2. /\ msg \in Messages /\ text = Encoding(msg) /\ pe = Place(msg, Count(msg) + 1)
        /\ pe \in Nat
    BY <1>1, <1>4, <2>1, WholeText
  <2>3. Count(msg) \in Nat
    BY <2>2, PiecesOfFields
  <2>4. /\ text[2] = "7" /\ text[3] = "fs" /\ text[4 + Len(msg.type)] = "fs"
        /\ \A i \in 1..Len(msg.type) : text[3 + i] = msg.type[i]
        /\ Place(msg, 1) = 5 + Len(msg.type)
    BY <2>2, FieldsInText
  <2>5. Place(msg, 1) <= pe
    <3>1. CASE Count(msg) = 0
      BY <2>2, <3>1
    <3>2. CASE Count(msg) # 0
      <4>1. 1 \in 1..Count(msg)
        BY <2>3, <3>2
      <4>2. LET q == Place(msg, 1)
                v == msg.values[1]
            IN  q \in Nat /\ Len(v) \in Nat /\ q + Len(v) < Place(msg, Count(msg) + 1)
        BY <2>2, <4>1, FieldsInText
      <4> QED BY <2>2, <4>2
    <3> QED BY <3>1, <3>2
  <2> QED BY <2>1, <2>2, <2>3, <2>4, <2>5
<1>5. \A t \in Types : Len(t) = 2 /\ t = <<t[1], t[2]>>
  BY DEF Types
<1>6. CASE HeaderExtracted
  <2>1. /\ pc' = "body" /\ msg' = msg /\ text' = text /\ pe' = pe /\ at' = 1 /\ got' = got
    BY <1>6 DEF HeaderExtracted
  <2>2. AtHeader' /\ AtUnits' /\ RoundTrip' /\ AnswersParse'
    BY <2>1 DEF AtHeader, AtUnits, RoundTrip, AnswersParse
  <2>3. AtField'
    <3> SUFFICES ASSUME msg # NULL PROVE AtField'
      BY <2>1 DEF AtField
    <3>1. PICK n \in 1..6 : /\ Header(n) /\ type' = <<text[p + n + 1], text[p + n + 2]>>
                            /\ type' = msg.type /\ p' = p + n + 4
      BY <1>6 DEF HeaderExtracted
    <3>2. n = 1
      <4> SUFFICES ASSUME n # 1 PROVE FALSE
        OBVIOUS
      <4>1. 3 \in p..(p + n - 1)
        BY <1>4
      <4>2. text[3] \in Hex
        BY <3>1, <4>1 DEF Header
      <4> QED BY <1>3, <1>4, <4>2
    <3>3. type' \in Types
      BY <3>1 DEF Header
    <3>4. Len(msg.type) = 2
      BY <1>5, <3>1, <3>3
    <3>5. p' = Place(msg, 1)
      BY <1>4, <3>1, <3>2, <3>4
    <3>6. at' \in 1..(Count(msg) + 1) /\ p' = Place(msg, at')
      BY <1>4, <2>1, <3>5
    <3>7. IsSequence(got')
      <4>1. <<>> \in Seq({})
        OBVIOUS
      <4> QED BY <1>4, <2>1, <4>1 DEF IsSequence
    <3>8. at' - 1 = 0
      BY <2>1
    <3>9. Filled(got') = Filled(First(msg, at' - 1))
      <4>1. First(msg, 0) = <<>>
        BY <1>4, FirstGrow
      <4> QED BY <1>4, <2>1, <3>8, <4>1
    <3> QED BY <1>4, <2>1, <3>1, <3>3, <3>6, <3>7, <3>9 DEF AtField
  <2> QED BY <2>2, <2>3 DEF RoundTripInv
<1>7. CASE HeaderRejected
  <2>1. /\ pc' = "rejected" /\ msg' = msg
        /\ \A n \in 1..6 :
             Header(n) => msg # NULL /\ <<text[p + n + 1], text[p + n + 2]>> # msg.type
    BY <1>7 DEF HeaderRejected
  <2>2. AtHeader' /\ AtField' /\ AtUnits' /\ RoundTrip'
    BY <2>1 DEF AtHeader, AtField, AtUnits, RoundTrip
  <2>3. AnswersParse'
    <3> SUFFICES ASSUME msg # NULL, msg.type \in Answers PROVE FALSE
      BY <2>1 DEF AnswersParse
    <3>1. msg.type \in Types
      BY DEF Answers, Types, Digit
    <3>2. Len(msg.type) = 2 /\ msg.type = <<msg.type[1], msg.type[2]>>
      BY <1>5, <3>1
    <3>3. 1 \in 1..Len(msg.type) /\ 2 \in 1..Len(msg.type) /\ 3 + 1 = 4 /\ 3 + 2 = 5 /\ 4 + 2 = 6
      BY <3>2
    <3>4. text[4] = msg.type[1] /\ text[5] = msg.type[2] /\ text[6] = "fs"
      BY <1>4, <3>2, <3>3
    <3>5. <<text[4], text[5]>> = msg.type
      BY <3>2, <3>4
    <3>6. p = 2 /\ p + 1 = 3 /\ p + 1 + 1 = 4 /\ p + 1 + 2 = 5 /\ p + 1 + 3 = 6 /\ p + 1 + 4 <= pe
      BY <1>4, <3>2
    <3>7. \A i \in p..(p + 1 - 1) : text[i] \in Hex
      BY <1>3, <1>4, <3>6
    <3>8. Header(1)
      BY <1>4, <3>1, <3>4, <3>5, <3>6, <3>7 DEF Header
    <3> QED BY <2>1, <3>5, <3>6, <3>8
  <2> QED BY <2>2, <2>3 DEF RoundTripInv
<1> QED BY <1>6, <1>7

\* The fields of an answer are made of what is printed, which no etx is.
LEMMA NoEtx ==
  ASSUME NEW m \in Messages, m.type \in Answers, NEW k \in 1..Count(m)
  PROVE  LET v == m.values[k]
         IN  /\ \A i \in 1..Len(v) : v[i] # "etx"
             /\ Layout(m.type)[k].end # "etx"
<1> DEFINE v == m.values[k]
           f == Layout(m.type)[k]
<1>1. "etx" \notin Ascii /\ \A e \in Ends : e # "etx"
  BY DEF Ascii, Hex, Digit, Ends
<1>2. DOMAIN Layout(m.type) = 1..Count(m) /\ Count(m) = Len(Layout(m.type))
  BY PiecesOfFields DEF Count
<1>3. v \in Printed(f.kind)
  BY <1>2, PrintedAssumption
<1>4. CASE m.type = <<"T", "4">>
  <2>1. f.kind \in {"string", "none"} /\ f.end \in Ends
    <3>4. Count(m) = 21
      BY <1>2, <1>4, SomeLayouts
    <3>1. k \in 1..20 \/ k = 21
      BY <1>2, <3>4
    <3>2. CASE k \in 1..20
      BY <1>4, <3>2, SomeLayouts DEF Ends
    <3>3. CASE k = 21
      BY <1>4, <3>3, SomeLayouts DEF Ends
    <3> QED BY <3>1, <3>2, <3>3
  <2>2. v \in Seq(Ascii)
    <3>1. CASE f.kind = "string"
      BY <1>3, <3>1 DEF Printed
    <3>2. CASE f.kind = "none"
      <4>1. v = <<>>
        BY <1>3, <3>2 DEF Printed
      <4> QED BY <4>1, EmptySeq
    <3> QED BY <2>1, <3>1, <3>2
  <2> HIDE DEF v, f
  <2>3. \A i \in 1..Len(v) : v[i] \in Ascii
    BY <2>2, ElementOfSeq
  <2> QED BY <1>1, <2>1, <2>3 DEF v, f
<1>5. CASE m.type # <<"T", "4">>
  <2> DEFINE t == m.type
             b == Machine(t).fields
  <2>1. t \in Extracted /\ t \notin Unsurvived /\ t # <<"S", "1">>
    BY <1>5 DEF Answers, Extracted, Unsurvived
  <2>2. /\ t \in Fieldless => Layout(t) = <<>>
        /\ t \in Statuses => Match(StatusPairs, Layout(t), b)
        /\ t \notin Fieldless \cup {<<"S", "1">>} => Match(AnswerPairs, Layout(t), b)
    BY <2>1, MachineMatches
  <2>3. t \notin Fieldless
    <3> SUFFICES ASSUME t \in Fieldless PROVE FALSE
      OBVIOUS
    <3>1. Len(Layout(t)) = 0
      BY <2>2, EmptySeq
    <3> QED BY <1>2, <3>1
  <2>4. Match(AnswerPairs, Layout(t), b)
    BY <2>1, <2>2, <2>3
  <2>5. k \in 1..Len(Layout(t))
    BY <1>2
  <2> DEFINE class == b[k].class
             mark == Mark(f.name)
  <2>6. f.end \in Ends /\ <<f.kind, class, mark>> \in AnswerPairs
    <3> HIDE DEF b
    <3> QED BY <2>4, <2>5 DEF Match
  <2>7. <<f.kind, class, mark>> \in Pairs
    BY <2>6 DEF Pairs
  <2> HIDE DEF class, mark, f, v
  <2>8. \A i \in 1..Len(v) : v[i] \in Ascii
    BY <1>3, <2>7, PrintedIs
  <2> QED BY <1>1, <2>6, <2>8 DEF v, f
<1> QED BY <1>4, <1>5

\* The first etx of an answer is the one that serialize() ends it with.
LEMMA AnswerFramed ==
  ASSUME NEW m \in Messages, m.type \in Answers, text = Encoding(m)
  PROVE  Framed
<1> DEFINE n == Count(m)
           t == Encoding(m)
           Bad == {k \in 1..(n + 1) : \E i \in 2..(Place(m, k) - 1) : t[i] = "etx"}
<1>1. /\ n \in Nat /\ Len(t) \in Nat
      /\ t[1] = "stx" /\ t[Len(t) - 1] = "etx" /\ t[Len(t)] = "lrc"
      /\ t[2] = "7" /\ t[3] = "fs" /\ t[4 + Len(m.type)] = "fs"
      /\ \A i \in 1..Len(m.type) : t[3 + i] = m.type[i]
      /\ Place(m, 1) = 5 + Len(m.type)
      /\ Place(m, n + 1) = Len(t) - 1
      /\ \A k \in 1..n :
           LET q == Place(m, k)
               v == m.values[k]
           IN  /\ q \in Nat \ {0} /\ Len(v) \in Nat
               /\ Place(m, k + 1) = q + Len(v) + 1
               /\ q + Len(v) < Place(m, n + 1)
               /\ \A i \in 1..Len(v) : t[q + i - 1] = v[i]
               /\ t[q + Len(v)] = Layout(m.type)[k].end
  BY FieldsInText
<1>2. Len(m.type) = 2 /\ m.type[1] # "etx" /\ m.type[2] # "etx"
  BY DEF Answers
<1>3. \A k \in 1..n : /\ \A i \in 1..Len(m.values[k]) : m.values[k][i] # "etx"
                      /\ Layout(m.type)[k].end # "etx"
  BY NoEtx
<1> HIDE DEF n, t
<1>4. Bad = {}
  <2> SUFFICES ASSUME Bad # {} PROVE FALSE
    OBVIOUS
  <2>1. Bad \in SUBSET Nat
    BY <1>1
  <2> HIDE DEF Bad
  <2>2. PICK k \in Bad : \A j \in Bad : k <= j
    BY <2>1, LeastNat
  <2>3. PICK i \in 2..(Place(m, k) - 1) : t[i] = "etx"
    BY <2>2 DEF Bad
  <2>4. k \in 1..(n + 1)
    BY <2>2 DEF Bad
  <2>5. CASE k = 1
    <3>1. i \in 2..6
      BY <1>1, <1>2, <2>3, <2>5
    <3>2. t[4] = m.type[1] /\ t[5] = m.type[2] /\ t[6] = "fs"
      <4>1. 1 \in 1..Len(m.type) /\ 2 \in 1..Len(m.type) /\ 3 + 1 = 4 /\ 3 + 2 = 5 /\ 4 + Len(m.type) = 6
        BY <1>2
      <4> QED BY <1>1, <4>1
    <3> QED BY <1>1, <1>2, <2>3, <3>1, <3>2
  <2>6. CASE k # 1
    <3> DEFINE j == k - 1
               q == Place(m, j)
               v == m.values[j]
    <3>1. j \in 1..n /\ j \in 1..(n + 1) /\ j \notin Bad /\ j + 1 = k
      BY <1>1, <2>2, <2>4, <2>6
    <3> HIDE DEF j
    <3>2. /\ q \in Nat \ {0} /\ Len(v) \in Nat /\ Place(m, k) = q + Len(v) + 1
          /\ \A l \in 1..Len(v) : t[q + l - 1] = v[l]
          /\ t[q + Len(v)] = Layout(m.type)[j].end
      BY <1>1, <3>1
    <3>3. /\ \A l \in 1..Len(v) : v[l] # "etx"
          /\ Layout(m.type)[j].end # "etx"
      <4>2. j \in 1..n
        BY <3>1
      <4> HIDE DEF v, q
      <4>1. /\ \A l \in 1..Len(m.values[j]) : m.values[j][l] # "etx"
            /\ Layout(m.type)[j].end # "etx"
        BY <1>3, <4>2, Zenon
      <4> QED BY <4>1 DEF v
    <3>4. ~(i <= q - 1)
      <4> SUFFICES ASSUME i <= q - 1 PROVE FALSE
        OBVIOUS
      <4>1. i \in 2..(q - 1)
        BY <2>3, <3>2
      <4> QED BY <2>3, <3>1, <4>1 DEF Bad
    <3> HIDE DEF q, v
    <3>5. i \in q..(q + Len(v))
      BY <2>3, <3>2, <3>4
    <3>6. CASE i = q + Len(v)
      BY <2>3, <3>2, <3>3, <3>6
    <3>7. CASE i # q + Len(v)
      <4> DEFINE l == i - q + 1
      <4> DEFINE w == Len(v)
      <4>3. w \in Nat /\ q \in Nat /\ i \in q..(q + w) /\ i # q + w
        BY <3>2, <3>5, <3>7
      <4>4. l \in 1..w /\ q + l - 1 = i
        <5> HIDE DEF w
        <5> QED BY <4>3
      <4>1. l \in 1..Len(v) /\ q + l - 1 = i
        BY <4>4
      <4> HIDE DEF l
      <4>2. t[i] = v[l]
        BY <3>2, <4>1
      <4> QED BY <2>3, <3>3, <4>1, <4>2
    <3> QED BY <3>6, <3>7
  <2> QED BY <2>5, <2>6
<1>5. \A i \in 2..(Len(t) - 2) : t[i] # "etx"
  <2>1. n + 1 \in 1..(n + 1)
    BY <1>1
  <2>2. \A i \in 2..(Place(m, n + 1) - 1) : t[i] # "etx"
    BY <1>4, <2>1
  <2>3. Place(m, n + 1) - 1 = Len(t) - 2
    BY <1>1
  <2> QED BY <2>2, <2>3
<1>6. Len(t) > 3
  <2>1. CASE n = 0
    BY <1>1, <1>2, <2>1
  <2>2. CASE n # 0
    <3>1. 1 \in 1..n
      BY <1>1, <2>2
    <3>2. Place(m, 1) < Place(m, n + 1)
      <4>1. LET q == Place(m, 1)
                v == m.values[1]
            IN  q \in Nat /\ Len(v) \in Nat /\ q + Len(v) < Place(m, n + 1)
        BY <1>1, <3>1
      <4> QED BY <1>1, <4>1
    <3> QED BY <1>1, <1>2, <3>2
  <2> QED BY <2>1, <2>2
<1>7. text = t
  BY DEF t
<1> QED BY <1>1, <1>5, <1>6, <1>7 DEF Framed

\* serialize() hands the parser what it wrote but for the first and last byte,
\* and an answer it hands over is a frame.
LEMMA SerializeStep ==
  ASSUME MessageInv, RoundTripInv, Copies \/ Bails \/ Seals
  PROVE  RoundTripInv'
<1>1. /\ pc = "copy" /\ pc' \in {"copy", "refused", "header", "misframed"}
      /\ msg' = msg /\ got' = got
      /\ pc' = "header" => p' = 2 /\ pe' = Len(text) - 1 /\ text' = text
      /\ pc' = "misframed" => Seals /\ ~Framed /\ text' = text
  BY DEF Copies, Bails, Seals, Copying, Parser
<1>2. AtHeader'
  BY <1>1 DEF RoundTripInv, AtHeader
<1>3. AtField' /\ AtUnits' /\ RoundTrip'
  BY <1>1 DEF AtField, AtUnits, RoundTrip
<1>4. AnswersParse'
  <2>1. CASE pc' # "misframed"
    BY <1>1, <2>1 DEF AnswersParse
  <2>2. CASE pc' = "misframed"
    <3>2. text = Encoding(msg) /\ msg \in Messages
      BY <1>1, <2>2, SealedIs
    <3>3. msg.type \notin Answers
      BY <1>1, <2>2, <3>2, AnswerFramed
    <3> QED BY <1>1, <3>3 DEF AnswersParse
  <2> QED BY <2>1, <2>2
<1> QED BY <1>2, <1>3, <1>4 DEF RoundTripInv

\* A text from a file is nobody's message.
LEMMA NoMessage ==
  ASSUME msg' = NULL
  PROVE  RoundTripInv'
BY DEF RoundTripInv, AtHeader, AtField, AtUnits, RoundTrip, AnswersParse

\* Every step keeps the invariant.
LEMMA RoundTripStep ==
  ASSUME MessageInv, RoundTripInv, [SlurpNext]_slurpVars
  PROVE  RoundTripInv'
<1>1. CASE ReadsSome \/ EreadReturns \/ EreadRefuses \/ SlurpFails
  <2>1. pc = "read" /\ msg' = msg
    BY <1>1 DEF ReadsSome, EreadReturns, EreadRefuses, ReadsNothing, SlurpFails, Leaves
  <2>2. msg = NULL
    BY <2>1 DEF MessageInv, Origins
  <2> QED BY <2>1, <2>2, NoMessage
<1>2. CASE Next
  BY <1>2, SerializeStep, HeaderStep, FieldStep, FieldReturns, BodyStep, BodyRefused, UnitStep,
     UnitReturns, UnitsStep DEF Next
<1>3. CASE UNCHANGED slurpVars
  BY <1>3
     DEF RoundTripInv, AtHeader, AtField, AtUnits, RoundTrip, AnswersParse, Survives, slurpVars,
         vars
<1> QED BY <1>1, <1>2, <1>3 DEF SlurpNext

\* Hence it holds for every message, of every size, in every buffer.
LEMMA RoundTripAlways == SlurpSpec => []RoundTripInv
<1>1. SlurpInit => RoundTripInv
  <2> SUFFICES ASSUME SlurpInit PROVE RoundTripInv
    OBVIOUS
  <2>1. got = <<>> /\ (pc = "copy" \/ msg = NULL)
    BY DEF SlurpInit, Init, Start
  <2> QED BY <2>1
      DEF RoundTripInv, AtHeader, AtField, AtUnits, RoundTrip, AnswersParse
<1>2. MessageInv /\ RoundTripInv /\ [SlurpNext]_slurpVars => RoundTripInv'
  BY RoundTripStep
<1> QED BY <1>1, <1>2, MessageAlways, PTL DEF SlurpSpec

(***************************************************************************)
(* What serialize() writes of a message and parse_message() then accepts   *)
(* has every member filled that was filled, and filled with the same       *)
(* value, however long the values are; save for T4 and S2, and for an      *)
(* empty field where the machine has no case for one.                      *)
(***************************************************************************)
THEOREM SerializedSurvives == SlurpSpec => []RoundTrip
<1>1. RoundTripInv => RoundTrip
  BY DEF RoundTripInv
<1> QED BY <1>1, RoundTripAlways, PTL

(***************************************************************************)
(* The asserts at the end of serialize() do not fail for any answer of     *)
(* autoresponder, whatever the values in it: what is written is a frame,   *)
(* parse_message() accepts it, and of all of them only T4, whose versions  *)
(* go to the attributes' machine after a unit that is empty, has it read   *)
(* through a pointer that was never set.                                   *)
(***************************************************************************)
THEOREM AnswersAreParsed == SlurpSpec => []AnswersParse
<1>1. RoundTripInv => AnswersParse
  BY DEF RoundTripInv
<1> QED BY <1>1, RoundTripAlways, PTL

=============================================================================
