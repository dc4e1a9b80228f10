------------------------------ MODULE MCFrobd ------------------------------
(* What the peer sends in the runs of Frobd.                                *)
EXTENDS Frobd

Frame(m) == <<"stx", m, "etx", "ok">>
Damaged(m) == <<"stx", m, "etx", "bad">>

\* A good frame and a damaged one, alone or after bytes of no frame; an empty
\* frame; and a message that ends the process.
Mixed == {Frame("T1"), Damaged("T1"), <<"junk">> \o Frame("D4"),
          <<"nak">> \o Frame("T1"), <<"lf", "nul", "ack">> \o Frame("T1"),
          <<"stx", "etx", "ok">>, Frame("P1")}

\* Only what keeps the program alive, for the run about its end.
Harmless == {Frame("T1"), Frame("D4"), Damaged("T1"), <<"ack">>}

OneGood == {Frame("T1")}
OneBad == {Damaged("T1")}
=============================================================================
