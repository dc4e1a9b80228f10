----------------------------- MODULE MCMessage -----------------------------
(* Messages with every member at its first choice but for one or two, and  *)
(* texts of every type with a few arbitrary bytes after the header.        *)
EXTENDS Slurp

Contenders(kind) ==
  CASE kind = "string"   -> {<<"7", "4", "2">>, <<"7", "0", "A", "N", "1">>, <<>>}
    [] kind = "integer"  -> {<<"0">>, <<"4", "2">>}
    [] kind = "boolean"  -> {<<"0">>, <<"1">>}
    [] kind = "trx_type" -> {<<"S">>, <<"C">>}
    [] kind = "topology" -> {<<"0">>, <<"2">>}
    [] kind = "hex"      -> {<<"A", "0">>, <<"4", "2">>}
    [] kind = "none"     -> {<<>>}

Usual(kind) == CASE kind = "string"   -> <<"7", "4", "2">>
                 [] kind = "integer"  -> <<"0">>
                 [] kind = "boolean"  -> <<"1">>
                 [] kind = "trx_type" -> <<"S">>
                 [] kind = "topology" -> <<"0">>
                 [] kind = "hex"      -> <<"A", "0">>
                 [] kind = "none"     -> <<>>

Variants(t) ==
  LET fields == Layout(t)
      Ordinary == [i \in DOMAIN fields |-> Usual(fields[i].kind)]
  IN  {[type |-> t, values |-> Ordinary]} \cup
      UNION {UNION {{[type |-> t, values |-> [Ordinary EXCEPT ![i] = x, ![j] = y]] :
                       y \in Contenders(fields[j].kind)} : x \in Contenders(fields[i].kind)} :
             <<i, j>> \in {ij \in (DOMAIN fields) \X (DOMAIN fields) : ij[1] < ij[2]}}

Kinds == Types \cup {<<"I", "1">>, <<"A", "2">>}
Serialized == {<<"T", "1">>, <<"T", "2">>, <<"T", "3">>, <<"T", "4">>, <<"T", "5">>,
               <<"D", "4">>, <<"D", "5">>, <<"S", "1">>, <<"S", "2">>, <<"I", "1">>,
               <<"P", "1">>, <<"A", "1">>, <<"A", "2">>, <<"B", "1">>, <<"B", "2">>,
               <<"B", "3">>, <<"B", "4">>, <<"K", "0">>, <<"K", "1">>}

\* T4 has 20 versions, the first n of which are used, and which may fill their
\* arrays; D5 a key without a name.
MCMessages ==
  UNION {Variants(t) : t \in Serialized \ {<<"T", "4">>, <<"D", "5">>}}
    \cup {[type |-> <<"T", "4">>, values |-> [i \in 1..21 |-> IF i \in 1..n THEN v ELSE <<>>]] :
            n \in 0..20, v \in {<<"1", "7">>, <<"1", "0", "1", "0", "1">>}}
    \cup {[type |-> <<"D", "5">>, values |->
             [i \in 1..31 |-> IF i = n THEN <<>> ELSE Usual(Layout(<<"D", "5">>)[i].kind)]] :
            n \in 0..0 \cup 17..25}

Tails == UNION {[1..n -> {"7", "N", "fs", "us"}] : n \in 0..3}
Headers == {<<"A", "7">> \o <<"fs">> \o t \o <<"fs">> : t \in Kinds}
BadHeaders == {<<>>, <<"fs", "T", "1", "fs">>, <<"N", "fs", "T", "1", "fs">>,
               <<"7", "fs", "T", "fs">>, <<"7", "fs", "T", "7", "fs">>, <<"7", "fs", "T", "1">>,
               <<"7", "7", "7", "7", "7", "7", "7", "fs", "T", "1", "fs">>}

MCTexts == {h \o t : h \in Headers, t \in Tails} \cup BadHeaders
MCSizes == 0..20 \cup {40, 100, 250}

\* Files for D5: one lacks the name of a key.
Num(n) == [i \in 1..(2 * n) |-> IF i % 2 = 1 THEN "2" ELSE "fs"]
Key(n) == [i \in 1..(2 * n) |-> IF i % 2 = 1 THEN "N" ELSE "us"]
D5(keys) == <<"0", "fs", "D", "5", "fs">> \o Num(16) \o Key(keys) \o <<"fs">> \o Num(5)
MCFiles == {D5(8), D5(9), <<"7", "fs", "T", "1", "fs">>, <<>>}
MCBuffers == {0, 3, 5, 6, Len(D5(9)), 256}
=============================================================================
