------------------------------ MODULE MCEngine ------------------------------
(* Requests for the legacy engine, with the reply due to each.              *)
EXTENDS Engine

Framed(type, lrc) == <<"stx", "tok", type, "etx", lrc>>
Asks(type, reply) == [bytes |-> Framed(type, "ok"), reply |-> <<"ACK">> \o reply]
Spoilt == [bytes |-> Framed("T1", "bad"), reply |-> <<"NAK">>]
Both(p, q) == [bytes |-> p.bytes \o q.bytes, reply |-> p.reply \o q.reply]

T1 == Asks("T1", <<"T2">>)
T3 == Asks("T3", <<"T4">>)
S1 == Asks("S1", <<"S1">>)
Stray(byte) == [bytes |-> <<byte>>, reply |-> <<>>]

Considerate == {T1, S1, Spoilt, Both(Stray("nak"), T3), Asks("P1", <<>>), Asks("T5", <<>>)}

\* Also two frames at once, more frames than there is room for answers to,
\* an empty frame, a T2 nobody asked for, and a message without a handler.
Anything ==
  {T1, S1, Spoilt, Asks("T2", <<>>), Asks("D5", <<>>), Stray("ack"), Both(T1, T3), Both(Spoilt, Both(T1, Both(T1, T1))),
   [bytes |-> <<"stx", "etx", "ok">>, reply |-> <<>>]}

Setting(how, wait, tty, sends, jams, interrupts, keyed) ==
  [manner |-> how, timeout |-> wait, console |-> tty,
   budget |-> [sends |-> sends, jams |-> jams, interrupts |-> interrupts, lines |-> keyed]]

Consoles == {"tty", "shared", "none"}

Kinds ==
  {Setting("polite", wait, "tty", 3, 0, 0, 0) : wait \in {"some", "never", "zero"}}
    \cup {Setting("polite", "never", tty, 1, 0, 2, 3) : tty \in Consoles}
    \cup {Setting("rude", "never", "tty", 2, 0, 0, 0),
          Setting("rude", "some", "tty", 1, 0, 1, 0)}
    \cup {Setting("rude", "never", tty, 1, 1, 1, 1) : tty \in Consoles}

\* A terminal that is opened for both directions.
Shared == {Setting("polite", "never", "shared", 1, 0, 1, 2)}
=============================================================================
