----------------------------- MODULE PeerProofs -----------------------------
(***************************************************************************)
(* The legacy engine with a polite peer: one that has one exchange at a    *)
(* time, acknowledges what it gets and answers pings before a timer runs   *)
(* out.  With it the program fails none of its asserts.                    *)
(***************************************************************************)
EXTENDS EngineProofs

-----------------------------------------------------------------------------
(* What is said in an exchange *)

AckBytes == <<"ack">>
PongBytes == <<"stx", "tok", "T2", "etx", "ok">>

\* What a polite peer has still to say.
AckOwed == <<AckBytes>>
PongOwed == <<PongBytes>>
BothOwed == <<AckBytes, PongBytes>>

Nothing == <<>>

\* What the program has to say on MAIN.
AckSaid == <<"ACK">>
NakSaid == <<"NAK">>
Reply(type) == <<"ACK", "stx", type>>
PingSaid == <<"stx", "T1">>
Answered == {"T2", "T4", "T5", "D5", "B2", "S2"}

-----------------------------------------------------------------------------
(* The invariant *)

\* No timer has run out, select has forgotten nothing, and a ping is always left.
Calm ==
  /\ \A timer \in {"timer_ack", "timer_ping"} :
       ~Contains(alarms, timer) /\ ~Contains(buf["II_SIGNAL"], timer)
  /\ ~jammed /\ machine = "main"
  /\ pings_left + (IF ping THEN 1 ELSE 0) >= 2

\* What select may be asked for can be asked for, and what is watched has something to write.
Watching ==
  /\ rset \subseteq fd
  /\ Payment => "NO_PAYMENT" \in fd
  /\ \A c \in wset : buf[c] # Nothing

\* The connection is closed only when nothing is on its way in either direction.
Connected ==
  /\ "FO_MAIN" \notin fd => hungup
  /\ hungup => /\ inbox = Nothing /\ owes = Nothing
               /\ buf["FO_MAIN"] = Nothing /\ buf["FI_MAIN"] = Nothing
  /\ pc = "io" /\ "FI_MAIN" \in todo => inbox # Nothing \/ hungup
  /\ buf["FI_MAIN"] # Nothing =>
       \/ pc = "io" /\ "FI_MAIN" \notin todo /\ "FI_MAIN" \in rset
       \/ pc = "process" /\ "FI_MAIN" \in todo

(***************************************************************************)
(* Where an exchange is.  In the first two the program has nothing to say: *)
(* the peer has neither, or has sent, what the program may have read but   *)
(* not yet processed.                                                      *)
(***************************************************************************)
Listening ==
  /\ inbox = Nothing /\ owes = Nothing /\ buf["FO_MAIN"] = Nothing
  /\ ~ack /\ "timer_ack" \notin armed
  /\ Idle(buf["FI_MAIN"]) \/ OneFrame(buf["FI_MAIN"])
  /\ ping \/ "timer_ping" \in armed => buf["FI_MAIN"] = PongBytes

Requested ==
  /\ owes = Nothing /\ buf["FO_MAIN"] = Nothing /\ buf["FI_MAIN"] = Nothing
  /\ ~ack /\ ~ping /\ armed = {}
  /\ \E b \in Seq(Symbol) : inbox = <<b>> /\ (Idle(b) \/ OneFrame(b))

\* The program has something to say, and no timer runs: it is no retransmission.
Answering ==
  /\ inbox = Nothing /\ owes = Nothing /\ Idle(buf["FI_MAIN"])
  /\ "FO_MAIN" \in wset /\ armed = {}
  /\ \/ buf["FO_MAIN"] \in {AckSaid, NakSaid} /\ ~ack /\ ~ping
     \/ (\E type \in Answered : buf["FO_MAIN"] = Reply(type)) /\ ack /\ ~ping
     \/ buf["FO_MAIN"] = PingSaid /\ ack /\ ping

\* It has said it and the peer owes an acknowledge, and for a ping a T2 after it.  (A line
\* of the console that begins with NAK counts as the acknowledge.)
AwaitsAck ==
  /\ buf["FO_MAIN"] = Nothing /\ Idle(buf["FI_MAIN"]) /\ ("timer_ack" \in armed => ack)
  /\ \/ inbox = Nothing /\ owes = BothOwed
     \/ inbox = AckOwed /\ owes = PongOwed
     \/ /\ ~ping /\ "timer_ping" \notin armed
        /\ \/ inbox = Nothing /\ owes = AckOwed
           \/ inbox = AckOwed /\ owes = Nothing

AwaitsPong ==
  /\ buf["FO_MAIN"] = Nothing /\ Idle(buf["FI_MAIN"]) /\ ~ack /\ "timer_ack" \notin armed
  /\ \/ inbox = Nothing /\ owes = PongOwed
     \/ inbox = PongOwed /\ owes = Nothing

Phase == Listening \/ Requested \/ Answering \/ AwaitsAck \/ AwaitsPong

Orderly == Calm /\ Watching /\ Connected /\ Phase

\* The console has a descriptor for each direction, or none was opened yet.
Separate == console = "tty" \/ sigint

\* A line is answered with a prompt when the last one has been written.
Prompt == <<"prompt">>
Prompted ==
  /\ buf["CO_MASTER"] \in {Nothing, Prompt}
  /\ pc = "process" /\ "CI_MASTER" \in todo => buf["CO_MASTER"] = Nothing

PeerInv ==
  manner = "polite" /\ Separate => /\ process \in {"up", "returned", "killed", "fault"}
                                   /\ process = "up" => Orderly /\ Prompted

-----------------------------------------------------------------------------
(* The frame machine on what a polite peer says *)

\* n is what a byte at i makes of m.
Moves(m, n, byte, i) ==
  /\ n.cs = Step(m.cs, byte)
  /\ n.start = IF m.cs = "first" /\ n.cs = "data" THEN i ELSE m.start
  /\ n.end = IF n.cs = "lrc" THEN i ELSE m.end
  /\ n.error = (m.cs = "lrc" /\ byte # "ok")

\* One byte, as long as the machine is not in error.
LEMMA ByteIs ==
  ASSUME NEW bytes, NEW i, NEW m, m.error = FALSE, m.cs # "error"
  PROVE  Moves(m, Scanned(bytes, m, i), bytes[i], i)
<1> DEFINE cs == Step(m.cs, bytes[i])
           start == IF m.cs = "first" /\ cs = "data" THEN i ELSE m.start
           end == IF cs = "lrc" THEN i ELSE m.end
           error == (m.cs = "lrc" /\ bytes[i] # "ok")
           next == Scanned(bytes, m, i)
<1>1. next = [cs |-> cs, start |-> start, end |-> end, error |-> error]
  BY DEF Scanned
<1> HIDE DEF cs, start, end, error, next
<1>2. next.cs = cs /\ next.start = start /\ next.end = end /\ next.error = error
  BY <1>1
<1> QED BY <1>2 DEF cs, start, end, error, next, Moves

\* A run goes from the initial state step by step.
LEMMA RunGoes ==
  ASSUME NEW bytes, NEW r, Run("main", bytes, r)
  PROVE  /\ r[0].cs = "main" /\ r[0].start = 1 /\ r[0].end = 0 /\ r[0].error = FALSE
         /\ \A i \in 1..Len(bytes) : r[i] = Scanned(bytes, r[i - 1], i)
BY DEF Run

\* Without bytes there is no frame, and an acknowledge is none.
LEMMA IdleAre == Idle(Nothing) /\ Idle(AckBytes)
<1>1. "main" \in States
  BY DEF States
<1>2. Idle(Nothing)
  <2> DEFINE m == Exec("main", Nothing)
  <2>1. Nothing \in Seq(Symbol) /\ Len(Nothing) = 0
    BY ShortSeqs DEF Nothing
  <2>2. PICK r : Run("main", Nothing, r) /\ m = r[Len(Nothing)]
    BY <1>1, <2>1, RunIs
  <2>3. r[0].cs = "main" /\ r[0].end = 0
    BY <2>2, RunGoes, Zenon
  <2> HIDE DEF m
  <2>4. m.end = 0 /\ m.cs = "main"
    BY <2>1, <2>2, <2>3
  <2> QED BY <2>4 DEF Idle, frob_frame_process, m
<1>3. Idle(AckBytes)
  <2> DEFINE m == Exec("main", AckBytes)
             b == AckBytes
  <2>1. b \in Seq(Symbol) /\ Len(b) = 1 /\ b[1] = "ack"
    BY SymbolsAre, ShortSeqs DEF AckBytes
  <2>2. PICK r : Run("main", b, r) /\ m = r[Len(b)]
    BY <1>1, <2>1, RunIs
  <2>3. /\ r[0].cs = "main" /\ r[0].end = 0 /\ r[0].error = FALSE
        /\ \A i \in 1..Len(b) : r[i] = Scanned(b, r[i - 1], i)
    BY <2>2, RunGoes, Zenon
  <2> HIDE DEF m, b
  <2>4. 1 \in 1..Len(b) /\ 1 - 1 = 0 /\ m = r[1]
    BY <2>1, <2>2
  <2>5. m = Scanned(b, r[0], 1)
    BY <2>3, <2>4
  <2>6. Moves(r[0], m, b[1], 1)
    <3>1. r[0].cs # "error"
      BY <2>3
    <3> QED BY <2>3, <2>5, <3>1, ByteIs, Zenon
  <2>7. Step("main", "ack") = "main"
    BY DEF Step
  <2>8. m.end = 0 /\ m.cs = "main"
    BY <2>1, <2>3, <2>6, <2>7 DEF Moves
  <2> QED BY <2>8 DEF Idle, frob_frame_process, m, b
<1> QED BY <1>2, <1>3

\* The answer to a ping is one frame, with a T2 in it and nothing behind it.
LEMMA PongIs ==
  LET f == frob_frame_process("main", PongBytes)
  IN  /\ PongBytes \in Seq(Symbol) /\ PongBytes # Nothing /\ f.e = "found"
      /\ Inside(PongBytes, f) # Nothing /\ Parsed(Inside(PongBytes, f)) = "T2"
      /\ OneFrame(PongBytes)
<1> DEFINE b == PongBytes
           m == Exec("main", b)
           f == frob_frame_process("main", b)
<1>1. /\ b \in Seq(Symbol) /\ Len(b) = 5 /\ b # Nothing
      /\ b[1] = "stx" /\ b[2] = "tok" /\ b[3] = "T2" /\ b[4] = "etx" /\ b[5] = "ok"
  BY SymbolsAre DEF PongBytes, Nothing
<1>2. "main" \in States
  BY DEF States
<1>3. PICK r : Run("main", b, r) /\ m = r[Len(b)]
  BY <1>1, <1>2, RunIs
<1>4. /\ r[0].cs = "main" /\ r[0].start = 1 /\ r[0].end = 0 /\ r[0].error = FALSE
      /\ \A i \in 1..Len(b) : r[i] = Scanned(b, r[i - 1], i)
  BY <1>3, RunGoes, Zenon
<1> HIDE DEF m, b
<1>5. /\ r[1] = Scanned(b, r[0], 1) /\ r[2] = Scanned(b, r[1], 2)
      /\ r[3] = Scanned(b, r[2], 3) /\ r[4] = Scanned(b, r[3], 4) /\ m = Scanned(b, r[4], 5)
  <2>1. \A i \in 1..5 : r[i] = Scanned(b, r[i - 1], i)
    BY <1>1, <1>4
  <2>2. /\ r[1] = Scanned(b, r[1 - 1], 1) /\ r[2] = Scanned(b, r[2 - 1], 2)
        /\ r[3] = Scanned(b, r[3 - 1], 3) /\ r[4] = Scanned(b, r[4 - 1], 4)
        /\ r[5] = Scanned(b, r[5 - 1], 5)
    BY <2>1
  <2>3. 1 - 1 = 0 /\ 2 - 1 = 1 /\ 3 - 1 = 2 /\ 4 - 1 = 3 /\ 5 - 1 = 4
    OBVIOUS
  <2> QED BY <1>1, <1>3, <2>2, <2>3
<1>6. Step("main", "stx") = "first" /\ Step("first", "tok") = "data"
      /\ Step("data", "T2") = "data" /\ Step("data", "etx") = "lrc" /\ Step("lrc", "ok") = "final"
  BY DEF Step
<1> DEFINE Is(n, cs, start, end) ==
             n.cs = cs /\ n.start = start /\ n.end = end /\ n.error = FALSE
<1>7. Is(r[1], "first", 1, 0)
  <2>1. Moves(r[0], r[1], b[1], 1)
    <3>1. r[0].cs # "error"
      BY <1>4
    <3> QED BY <1>4, <1>5, <3>1, ByteIs, Zenon
  <2> QED BY <1>1, <1>4, <1>6, <2>1 DEF Moves
<1>8. Is(r[2], "data", 2, 0)
  <2>1. Moves(r[1], r[2], b[2], 2)
    <3>1. r[1].cs # "error"
      BY <1>7
    <3> QED BY <1>5, <1>7, <3>1, ByteIs, Zenon
  <2> QED BY <1>1, <1>6, <1>7, <2>1 DEF Moves
<1>9. Is(r[3], "data", 2, 0)
  <2>1. Moves(r[2], r[3], b[3], 3)
    <3>1. r[2].cs # "error"
      BY <1>8
    <3> QED BY <1>5, <1>8, <3>1, ByteIs, Zenon
  <2> QED BY <1>1, <1>6, <1>8, <2>1 DEF Moves
<1>10. Is(r[4], "lrc", 2, 4)
  <2>1. Moves(r[3], r[4], b[4], 4)
    <3>1. r[3].cs # "error"
      BY <1>9
    <3> QED BY <1>5, <1>9, <3>1, ByteIs, Zenon
  <2> QED BY <1>1, <1>6, <1>9, <2>1 DEF Moves
<1>11. Is(m, "final", 2, 4)
  <2>1. Moves(r[4], m, b[5], 5)
    <3>1. r[4].cs # "error"
      BY <1>10
    <3> QED BY <1>5, <1>10, <3>1, ByteIs, Zenon
  <2> QED BY <1>1, <1>6, <1>10, <2>1 DEF Moves
<1>12. f.e = "found" /\ f.start = 2 /\ f.end = 4
  BY <1>11 DEF frob_frame_process, m
<1> DEFINE t == Inside(b, f)
<1> HIDE DEF f
<1>13. t = SubSeq(b, 2, 3) /\ Behind(b, f) = SubSeq(b, 6, 5)
  BY <1>1, <1>12 DEF Inside, Behind
<1>14. Len(t) = 2 /\ t[1] = "tok" /\ t[2] = "T2" /\ t # Nothing
  <2>1. /\ Len(t) = 2 /\ \A i \in 1..2 : t[i] = b[i + 1]
    BY <1>1, <1>13, PartIsSeq
  <2>2. t[1] = b[2] /\ t[2] = b[3]
    BY <2>1
  <2>3. t # Nothing
    BY <2>1, ShortSeqs DEF Nothing
  <2> QED BY <1>1, <2>1, <2>2, <2>3
<1>15. Behind(b, f) = Nothing
  <2>1. Behind(b, f) \in Seq(Symbol) /\ Len(Behind(b, f)) = 0
    BY <1>1, <1>13, PartIsSeq
  <2> QED BY <2>1, EmptySeq DEF Nothing
<1>16. Parsed(t) = "T2"
  BY <1>14 DEF Parsed, Parseable, Response
<1>17. OneFrame(b)
  BY <1>12, <1>14, <1>15, <1>16, IdleAre DEF OneFrame, Response, f, Nothing
<1> QED BY <1>1, <1>12, <1>14, <1>16, <1>17 DEF b, f

-----------------------------------------------------------------------------
(* What is said and what it calls for *)

\* One element before one and before two.
LEMMA OneThenMore ==
  ASSUME NEW S
  PROVE  /\ \A x, y \in S : <<x>> \o <<y>> = <<x, y>>
         /\ \A x, y, z \in S : <<x>> \o <<y, z>> = <<x, y, z>>
<1>1. ASSUME NEW x \in S, NEW y \in S PROVE <<x>> \o <<y>> = <<x, y>>
  <2> DEFINE a == <<x>>
             b == <<y>>
             c == <<x, y>>
  <2>1. /\ a \in Seq(S) /\ Len(a) = 1 /\ a[1] = x /\ b \in Seq(S) /\ Len(b) = 1 /\ b[1] = y
        /\ c \in Seq(S) /\ Len(c) = 2 /\ c[1] = x /\ c[2] = y
    BY <1>1
  <2> HIDE DEF a, b, c
  <2> DEFINE d == a \o b
  <2>6. a \in Seq(S) /\ b \in Seq(S)
    BY <2>1
  <2>7. /\ d \in Seq(S) /\ Len(d) = Len(a) + Len(b)
        /\ \A i \in 1..(Len(a) + Len(b)) : d[i] = IF i <= Len(a) THEN a[i] ELSE b[i - Len(a)]
    BY <2>6, ConcatProperties, Zenon
  <2> HIDE DEF d
  <2>2. d \in Seq(S) /\ Len(d) = 1 + 1 /\ \A i \in 1..(1 + 1) : d[i] = IF i <= 1 THEN a[i] ELSE b[i - 1]
    BY <2>1, <2>7
  <2>3. Len(d) = 2 /\ d[1] = x /\ d[2] = y
    BY <2>1, <2>2
  <2>4. \A i \in 1..Len(d) : d[i] = c[i]
    BY <2>1, <2>3
  <2>5. d = c
    BY <2>1, <2>2, <2>3, <2>4, SeqEqual
  <2> QED BY <2>5 DEF a, b, c, d
<1>2. ASSUME NEW x \in S, NEW y \in S, NEW z \in S PROVE <<x>> \o <<y, z>> = <<x, y, z>>
  <2> DEFINE a == <<x>>
             b == <<y, z>>
             c == <<x, y, z>>
  <2>1. /\ a \in Seq(S) /\ Len(a) = 1 /\ a[1] = x
        /\ b \in Seq(S) /\ Len(b) = 2 /\ b[1] = y /\ b[2] = z
        /\ c \in Seq(S) /\ Len(c) = 3 /\ c[1] = x /\ c[2] = y /\ c[3] = z
    BY <1>2
  <2> HIDE DEF a, b, c
  <2> DEFINE d == a \o b
  <2>6. a \in Seq(S) /\ b \in Seq(S)
    BY <2>1
  <2>7. /\ d \in Seq(S) /\ Len(d) = Len(a) + Len(b)
        /\ \A i \in 1..(Len(a) + Len(b)) : d[i] = IF i <= Len(a) THEN a[i] ELSE b[i - Len(a)]
    BY <2>6, ConcatProperties, Zenon
  <2> HIDE DEF d
  <2>2. d \in Seq(S) /\ Len(d) = 1 + 2 /\ \A i \in 1..(1 + 2) : d[i] = IF i <= 1 THEN a[i] ELSE b[i - 1]
    BY <2>1, <2>7
  <2>3. Len(d) = 3 /\ d[1] = x /\ d[2] = y /\ d[3] = z
    BY <2>1, <2>2
  <2>4. \A i \in 1..Len(d) : d[i] = c[i]
    BY <2>1, <2>3
  <2>5. d = c
    BY <2>1, <2>2, <2>3, <2>4, SeqEqual
  <2> QED BY <2>5 DEF a, b, c, d
<1> QED BY <1>1, <1>2

\* The things said are sequences of symbols, and differ from one another.
LEMMA SaidAre ==
  /\ AckBytes \in Seq(Symbol) /\ AckBytes # Nothing /\ Head(AckBytes) = "ack"
  /\ AckSaid \in Seq(Symbol) /\ NakSaid \in Seq(Symbol) /\ PingSaid \in Seq(Symbol)
  /\ AckSaid # Nothing /\ NakSaid # Nothing /\ PingSaid # Nothing
  /\ \A type \in Answered : Reply(type) \in Seq(Symbol) /\ Reply(type) # Nothing
  /\ Answered \subseteq Symbol
  /\ \A type \in Symbol : <<"ACK">> \o Message(type) = Reply(type)
  /\ PingSaid = Message("T1")
<1>1. AckBytes \in Seq(Symbol) /\ AckBytes # Nothing /\ Head(AckBytes) = "ack"
  BY SymbolsAre, ShortSeqs DEF AckBytes, Nothing
<1>2. AckSaid \in Seq(Symbol) /\ AckSaid # Nothing /\ NakSaid \in Seq(Symbol) /\ NakSaid # Nothing
  BY SymbolsAre, ShortSeqs DEF AckSaid, NakSaid, Nothing
<1>3. PingSaid \in Seq(Symbol) /\ PingSaid # Nothing
  BY SymbolsAre, ShortSeqs DEF PingSaid, Nothing
<1>4. Answered \subseteq Symbol
  <2>1. /\ DOMAIN Response = {"T1", "T3", "T4", "D4", "B1", "T2", "T5"}
        /\ Response["T1"] = "T2" /\ Response["T3"] = "T4" /\ Response["T4"] = "T5"
        /\ Response["D4"] = "D5" /\ Response["B1"] = "B2"
    BY DEF Response
  <2>2. {"T2", "T4", "T5", "D5", "B2"} \subseteq Symbol
    BY <2>1, SymbolsAre
  <2> QED BY <2>2, SymbolsAre DEF Answered
<1>5. ASSUME NEW type \in Answered PROVE Reply(type) \in Seq(Symbol) /\ Reply(type) # Nothing
  BY <1>4, <1>5, SymbolsAre, ShortSeqs DEF Reply, Nothing
<1>6. \A type \in Symbol : <<"ACK">> \o Message(type) = Reply(type)
  BY SymbolsAre, OneThenMore DEF Reply, Message
<1>7. PingSaid = Message("T1")
  BY DEF PingSaid, Message
<1> QED BY <1>1, <1>2, <1>3, <1>4, <1>5, <1>6, <1>7

\* What a polite peer owes is said one by one.
LEMMA OwedAre ==
  /\ AckOwed \in Seq(Seq(Symbol)) /\ PongOwed \in Seq(Seq(Symbol)) /\ BothOwed \in Seq(Seq(Symbol))
  /\ AckOwed # Nothing /\ PongOwed # Nothing /\ BothOwed # Nothing
  /\ Head(AckOwed) = AckBytes /\ Tail(AckOwed) = Nothing /\ <<AckBytes>> = AckOwed
  /\ Head(PongOwed) = PongBytes /\ Tail(PongOwed) = Nothing /\ <<PongBytes>> = PongOwed
  /\ Head(BothOwed) = AckBytes /\ Tail(BothOwed) = PongOwed
  /\ AckOwed # PongOwed /\ BothOwed # AckOwed /\ BothOwed # PongOwed
  /\ FlattenSeq(AckOwed) = AckBytes /\ FlattenSeq(PongOwed) = PongBytes
  /\ AckBytes # PongBytes
<1> DEFINE W == Seq(Symbol)
<1>1. AckBytes \in W /\ PongBytes \in W /\ AckBytes # PongBytes
  <2>1. Head(AckBytes) = "ack" /\ Head(PongBytes) = "stx"
    BY DEF AckBytes, PongBytes
  <2> QED BY <2>1, SaidAre, PongIs
<1>2. FlattenSeq(AckOwed) = AckBytes /\ FlattenSeq(PongOwed) = PongBytes
  BY <1>1, FlattenFew DEF AckOwed, PongOwed
<1> HIDE DEF W
<1>3. AckOwed \in Seq(W) /\ PongOwed \in Seq(W) /\ BothOwed \in Seq(W)
  BY <1>1 DEF AckOwed, PongOwed, BothOwed
<1>4. /\ Head(AckOwed) = AckBytes /\ Tail(AckOwed) = Nothing /\ AckOwed # Nothing
      /\ Head(PongOwed) = PongBytes /\ Tail(PongOwed) = Nothing /\ PongOwed # Nothing
      /\ Head(BothOwed) = AckBytes /\ Tail(BothOwed) = PongOwed /\ BothOwed # Nothing
      /\ Len(AckOwed) = 1 /\ Len(PongOwed) = 1 /\ Len(BothOwed) = 2
  BY <1>1 DEF AckOwed, PongOwed, BothOwed, Nothing
<1>5. AckOwed # PongOwed /\ BothOwed # AckOwed /\ BothOwed # PongOwed
  BY <1>1, <1>4
<1>6. <<AckBytes>> = AckOwed /\ <<PongBytes>> = PongOwed
  BY DEF AckOwed, PongOwed
<1> QED BY <1>1, <1>2, <1>3, <1>4, <1>5, <1>6 DEF W

\* A message on MAIN calls for an acknowledge, and a ping for its answer too.
LEMMA DebtsAre ==
  /\ Debt(AckSaid) = Nothing /\ Debt(NakSaid) = Nothing
  /\ \A type \in Answered : Debt(Reply(type)) = AckOwed
  /\ Debt(PingSaid) = BothOwed
<1> DEFINE W == Seq(Symbol)
           e == <<>>
           One(x) == CASE x = "stx" -> <<AckBytes>>
                       [] x = "T1"  -> <<PongBytes>>
                       [] OTHER     -> e
<1>1. \A s : Debt(s) = FlattenSeq([i \in DOMAIN s |-> One(s[i])])
  BY DEF Debt, AckBytes, PongBytes
<1>2. AckBytes \in W /\ PongBytes \in W /\ e \in Seq(W)
  BY SaidAre, PongIs
<1>3. <<AckBytes>> \in Seq(W) /\ <<PongBytes>> \in Seq(W)
  BY <1>2
<1>4. /\ One("ACK") = e /\ One("NAK") = e /\ One("stx") = AckOwed /\ One("T1") = PongOwed
      /\ \A type \in Answered : One(type) = e
  BY DEF Answered, AckOwed, PongOwed
<1> HIDE DEF One, W
<1>5. AckOwed \in Seq(W) /\ PongOwed \in Seq(W)
  BY <1>3 DEF AckOwed, PongOwed
<1>6. ASSUME NEW x, One(x) = e PROVE Debt(<<x>>) = Nothing
  <2>1. [i \in DOMAIN <<x>> |-> One(<<x>>[i])] = <<e>>
    BY <1>6
  <2>2. FlattenSeq(<<e>>) = e
    BY <1>2, FlattenFew
  <2> QED BY <1>1, <2>1, <2>2 DEF Nothing
<1>7. Debt(AckSaid) = Nothing /\ Debt(NakSaid) = Nothing
  BY <1>4, <1>6 DEF AckSaid, NakSaid
<1>8. ASSUME NEW type \in Answered PROVE Debt(Reply(type)) = AckOwed
  <2> DEFINE s == Reply(type)
  <2>1. [i \in DOMAIN s |-> One(s[i])] = <<e, AckOwed, e>>
    BY <1>4, <1>8 DEF Reply
  <2>2. FlattenSeq(<<e, AckOwed, e>>) = (e \o AckOwed) \o e
    BY <1>2, <1>5, FlattenFew
  <2>3. (e \o AckOwed) \o e = AckOwed
    BY <1>5, ConcatEmptySeq
  <2> QED BY <1>1, <2>1, <2>2, <2>3
<1>9. Debt(PingSaid) = BothOwed
  <2> DEFINE s == PingSaid
  <2>1. [i \in DOMAIN s |-> One(s[i])] = <<AckOwed, PongOwed>>
    BY <1>4 DEF PingSaid
  <2>2. FlattenSeq(<<AckOwed, PongOwed>>) = AckOwed \o PongOwed
    BY <1>5, FlattenFew
  <2>3. AckOwed \o PongOwed = BothOwed
    BY <1>2, OneThenMore DEF AckOwed, PongOwed, BothOwed
  <2> QED BY <1>1, <2>1, <2>2, <2>3
<1> QED BY <1>7, <1>8, <1>9

-----------------------------------------------------------------------------
(* wait_for_io *)

Civil == manner = "polite" /\ Separate /\ process = "up" /\ Orderly /\ Prompted

\* What a step leads to, the prompt apart.
Settles ==
  Separate' => /\ process' \in {"up", "returned", "killed", "fault"}
               /\ process' = "up" => Orderly'

\* The process goes on.
LEMMA GoesOn == ASSUME process' = "up", Orderly' PROVE Settles
BY DEF Settles

\* Or it ends in one of the ways it may.
LEMMA Stops ==
  ASSUME process' \in {"returned", "killed", "fault"}
  PROVE  Settles
BY DEF Settles

\* An exchange is where it was if what it is told by is as it was.
LEMMA PhaseKept ==
  ASSUME Phase, UNCHANGED <<inbox, owes, ack, ping, armed>>,
         buf'["FO_MAIN"] = buf["FO_MAIN"], buf'["FI_MAIN"] = buf["FI_MAIN"],
         "FO_MAIN" \in wset => "FO_MAIN" \in wset'
  PROVE  Phase'
<1>1. CASE Listening
  BY <1>1 DEF Phase, Listening
<1>2. CASE Requested
  BY <1>2 DEF Phase, Requested
<1>3. CASE Answering
  BY <1>3 DEF Phase, Answering
<1>4. CASE AwaitsAck
  BY <1>4 DEF Phase, AwaitsAck
<1>5. CASE AwaitsPong
  BY <1>5 DEF Phase, AwaitsPong
<1> QED BY <1>1, <1>2, <1>3, <1>4, <1>5 DEF Phase

\* A polite peer takes all it gets.
LEMMA NoneJammed ==
  ASSUME manner = "polite", NEW full, MayJam(full), Jams(full)
  PROVE  full = {} /\ jammed' = jammed
BY DEF MayJam, Jams, history

\* select reports what can be read, and all that is to be written.
LEMMA PoliteSelect == ASSUME EngineInv, Civil, SelectReports PROVE Settles
<1>0. Inner /\ Stage /\ Calm /\ Watching /\ Connected /\ Phase
  BY DEF EngineInv, Base, Civil, Orderly
<1>1. PICK full \in SUBSET wset :
        /\ MayJam(full) /\ Jams(full) /\ wset' = wset \ full
        /\ todo' = (wset \ full) \cup Readable
                    \cup (IF console = "shared" /\ "CI_MASTER" \in Readable THEN {"CO_MASTER"} ELSE {})
  BY DEF SelectReports
<1>2. full = {} /\ jammed' = jammed
  BY <1>1, NoneJammed DEF Civil
<1>3. /\ process' = "up" /\ pc = "select" /\ pc' = "io" /\ rset' = Readable
      /\ wset' = wset /\ ("FI_MAIN" \in todo' => "FI_MAIN" \in wset \cup Readable)
      /\ UNCHANGED <<fd, buf, machine, ack, ping, pings_left, armed, alarms>>
      /\ UNCHANGED <<manner, inbox, hungup, owes>>
  BY <1>1, <1>2 DEF SelectReports, At, flags, timers
<1>4. Readable \subseteq fd /\ ("FI_MAIN" \in Readable => inbox # Nothing \/ hungup)
  BY DEF Readable, Nothing
<1>5. "FI_MAIN" \notin wset
  BY <1>0, Channels DEF Inner, Inputs
<1>6. Calm' /\ Watching'
  BY <1>0, <1>2, <1>3, <1>4 DEF Calm, Watching
<1>7. Connected'
  BY <1>0, <1>3, <1>4, <1>5 DEF Connected
<1>8. Phase'
  BY <1>0, <1>3, PhaseKept
<1> QED BY <1>3, <1>6, <1>7, <1>8, GoesOn DEF Orderly

\* When nothing is on its way and the program waits, no exchange is unfinished.
LEMMA Resting ==
  ASSUME EngineInv, Civil, pc = "select",
         inbox = Nothing, owes = Nothing, buf["FO_MAIN"] = Nothing
  PROVE  Listening /\ ~ping /\ armed = {} /\ buf["FI_MAIN"] = Nothing
<1>0. Outer /\ Connected /\ Phase
  BY DEF EngineInv, Base, Civil, Orderly
<1>1. buf["FI_MAIN"] = Nothing
  BY <1>0 DEF Connected
<1>2. Listening
  <2>1. \A b : <<b>> # Nothing
    BY DEF Nothing
  <2> QED BY <1>0, <2>1, OwedAre, SaidAre DEF Phase, Requested, Answering, AwaitsAck, AwaitsPong
<1>3. ~ping /\ armed = {}
  BY <1>0, <1>1, <1>2, PongIs DEF Listening, Outer
<1> QED BY <1>1, <1>2, <1>3

\* The clock runs out only when nothing is said or owed.
LEMMA AtEase ==
  ASSUME EngineInv, Civil, TimesOut
  PROVE  /\ pc = "select" /\ wset = {} /\ Listening /\ ~ping /\ armed = {}
         /\ buf["FI_MAIN"] = Nothing /\ buf["FO_MAIN"] = Nothing
         /\ "FO_MAIN" \in fd => ~hungup
<1>0. Wiring /\ Connected /\ Phase
  BY DEF EngineInv, Base, Civil, Orderly
<1>1. pc = "select" /\ Readable = {} /\ MayJam(wset) /\ owes = Nothing
  BY DEF TimesOut, NothingReady, At, Nothing
<1>2. wset = {}
  BY <1>1 DEF MayJam, Civil
<1>3. "FI_MAIN" \in fd => inbox = Nothing /\ ~hungup
  BY <1>1 DEF Readable, Inputs, Nothing
<1>4. inbox = Nothing
  BY <1>0, <1>3 DEF Connected, Wiring
<1>5. buf["FO_MAIN"] = Nothing
  BY <1>0, <1>2 DEF Phase, Listening, Requested, Answering, AwaitsAck, AwaitsPong
<1> QED BY <1>0, <1>1, <1>2, <1>3, <1>4, <1>5, Resting DEF Wiring

\* A ping is said when there is nothing else to say.
LEMMA PolitePings == ASSUME EngineInv, Civil, Pings PROVE Settles
<1>0. Inner /\ Calm /\ Watching /\ Connected
  BY DEF EngineInv, Base, Civil, Orderly
<1>1. /\ pc = "select" /\ wset = {} /\ Listening /\ ~ping /\ armed = {}
      /\ buf["FI_MAIN"] = Nothing /\ buf["FO_MAIN"] = Nothing
      /\ "FO_MAIN" \in fd /\ ~hungup
  BY AtEase DEF Pings, MayPing
<1>2. /\ process' = "up" /\ pc' = "io" /\ pings_left' = pings_left - 1 /\ ping' = TRUE /\ ack' = TRUE
      /\ buf' = [buf EXCEPT !["FO_MAIN"] = @ \o Message("T1")]
      /\ wset' = {"FO_MAIN"} /\ rset' = {} /\ todo' = {"FO_MAIN"}
      /\ UNCHANGED <<fd, machine, armed, alarms, inbox, hungup, owes>>
      /\ MayJam(wset) /\ Jams(wset)
  BY DEF Pings, TimesOut, NothingReady, At, Put, Commission, timers, Civil
<1>3. jammed' = jammed
  BY <1>2, NoneJammed DEF Civil
<1>4. /\ buf'["FO_MAIN"] = PingSaid
      /\ buf'["FI_MAIN"] = Nothing /\ buf'["II_SIGNAL"] = buf["II_SIGNAL"]
  <2>1. Nothing \o PingSaid = PingSaid
    BY SaidAre, ShortSeqs, ConcatEmptySeq DEF Nothing
  <2>2. buf' = [buf EXCEPT !["FO_MAIN"] = PingSaid]
    BY <1>1, <1>2, <2>1, SaidAre
  <2> QED BY <1>0, <1>1, <2>2, Channels DEF Inner, Inputs
<1>5. Calm'
  <2>1. pings_left \in Nat
    BY DEF EngineInv, Base, Outer
  <2>2. pings_left' + 1 >= 2
    BY <1>0, <1>1, <1>2, <2>1 DEF Calm
  <2>3. pings_left' + (IF ping' THEN 1 ELSE 0) >= 2
    BY <1>2, <2>2
  <2> QED BY <1>0, <1>2, <1>3, <1>4, <2>3 DEF Calm
<1>6. Watching' /\ Connected'
  BY <1>0, <1>1, <1>2, <1>4, SaidAre DEF Watching, Connected
<1>7. Answering'
  BY <1>1, <1>2, <1>4, IdleAre DEF Answering, Listening
<1> QED BY <1>2, <1>5, <1>6, <1>7, GoesOn DEF Orderly, Phase

\* select never fails, and the pings are never used up.
LEMMA PoliteWait == ASSUME EngineInv, Civil, WaitForIo PROVE Settles
<1>1. CASE SelectReports
  BY <1>1, PoliteSelect
<1>2. CASE Pings
  BY <1>2, PolitePings
<1>3. CASE SelectPolls \/ PingImpossible
  <2>1. process' = "returned"
    <3>1. CASE SelectPolls
      BY <3>1 DEF SelectPolls, Ends
    <3>2. CASE PingImpossible
      <4>1. buf["FO_MAIN"] = Nothing
        BY <3>2, AtEase DEF PingImpossible
      <4>2. Within("FO_MAIN")
        BY <4>1, ShortSeqs, CapacityAssumption DEF Within, Nothing
      <4> QED BY <3>2, <4>2 DEF PingImpossible, Ends
    <3> QED BY <1>3, <3>1, <3>2
  <2> QED BY <2>1, Stops
<1>4. CASE SelectFails
  BY <1>4 DEF SelectFails, At, EngineInv, Base, Stage, Civil, Orderly, Watching
<1>5. CASE PingsExhausted
  <2>1. ~ping /\ pings_left = 0
    BY <1>5, AtEase DEF PingsExhausted
  <2> QED BY <2>1 DEF Civil, Orderly, Calm
<1> QED BY <1>1, <1>2, <1>3, <1>4, <1>5 DEF WaitForIo

-----------------------------------------------------------------------------
(* perform_pending_io *)

\* Only while it answers has the program something in MAIN's buffer.
LEMMA AnsweringIs ==
  ASSUME Phase
  PROVE  buf["FO_MAIN"] # Nothing <=> Answering
<1>1. ASSUME Answering PROVE buf["FO_MAIN"] # Nothing
  BY <1>1, SaidAre DEF Answering
<1> QED BY <1>1 DEF Phase, Listening, Requested, AwaitsAck, AwaitsPong

\* What was said on MAIN calls for what the peer then owes.
LEMMA MainWritten ==
  ASSUME EngineInv, Civil, PendingWrite("FO_MAIN")
  PROVE  /\ Phase' /\ ~hungup
<1>0. Inner /\ Outer /\ Connected /\ Phase
  BY DEF EngineInv, Base, Civil, Orderly
<1>1. /\ buf["FO_MAIN"] # Nothing /\ armed' = armed \cup Guards
      /\ buf' = [buf EXCEPT !["FO_MAIN"] = Nothing]
      /\ owes' = owes \o Debt(buf["FO_MAIN"])
      /\ UNCHANGED <<inbox, ack, ping>>
  BY DEF PendingWrite, Arms, Civil, flags, Nothing
<1>2. Answering
  BY <1>0, <1>1, AnsweringIs
<1>3. buf'["FO_MAIN"] = Nothing /\ buf'["FI_MAIN"] = buf["FI_MAIN"]
  BY <1>0, <1>1, Channels DEF Inner, Inputs
<1>4. inbox' = Nothing /\ Idle(buf'["FI_MAIN"]) /\ armed' = Guards /\ owes = Nothing
  BY <1>1, <1>2, <1>3 DEF Answering
<1>5. ~hungup
  BY <1>0, <1>1 DEF Connected
<1>6. CASE buf["FO_MAIN"] \in {AckSaid, NakSaid} /\ ~ack /\ ~ping
  <2>1. owes' = Nothing
    BY <1>1, <1>4, <1>6, DebtsAre DEF Nothing
  <2>2. armed' = {}
    BY <1>4, <1>6 DEF Guards
  <2>3. Listening'
    BY <1>1, <1>3, <1>4, <1>6, <2>1, <2>2 DEF Listening
  <2> QED BY <1>5, <2>3 DEF Phase
<1>7. CASE (\E type \in Answered : buf["FO_MAIN"] = Reply(type)) /\ ack /\ ~ping
  <2>1. Debt(buf["FO_MAIN"]) = AckOwed
    BY <1>7, DebtsAre
  <2>2. owes' = AckOwed
    BY <1>1, <1>4, <2>1, OwedAre, ConcatEmptySeq DEF Nothing
  <2>3. "timer_ping" \notin armed'
    BY <1>4, <1>7 DEF Guards
  <2>4. AwaitsAck'
    BY <1>1, <1>3, <1>4, <1>7, <2>2, <2>3 DEF AwaitsAck
  <2> QED BY <1>5, <2>4 DEF Phase
<1>8. CASE buf["FO_MAIN"] = PingSaid /\ ack /\ ping
  <2>1. Debt(buf["FO_MAIN"]) = BothOwed
    BY <1>8, DebtsAre
  <2>2. owes' = BothOwed
    BY <1>1, <1>4, <2>1, OwedAre, ConcatEmptySeq DEF Nothing
  <2>3. AwaitsAck'
    BY <1>1, <1>3, <1>4, <1>8, <2>2 DEF AwaitsAck
  <2> QED BY <1>5, <2>3 DEF Phase
<1> QED BY <1>2, <1>6, <1>7, <1>8 DEF Answering

\* The console's output is not read: it has a descriptor of its own.
LEMMA OutputsWritten ==
  ASSUME EngineInv, Civil
  PROVE  /\ ~TtyReadable
         /\ At("io") /\ todo # {} /\ First(todo) = "CO_MASTER" => "CO_MASTER" \in wset
<1>0. Inner /\ Stage /\ Unopened
  BY DEF EngineInv, Base
<1>1. console = "shared" => "CI_MASTER" \notin rset \cup todo
  BY <1>0 DEF Unopened, Civil, Separate
<1>2. ASSUME At("io"), todo # {}, First(todo) = "CO_MASTER" PROVE "CO_MASTER" \in wset
  <2>1. "CO_MASTER" \in todo
    BY <1>0, <1>2, FirstIs DEF Inner
  <2>2. "CO_MASTER" \in Outputs /\ pc = "io"
    BY <1>2, Channels DEF At
  <2> QED BY <1>0, <1>1, <2>1, <2>2 DEF Stage
<1> QED BY <1>1, <1>2 DEF TtyReadable

\* A write empties what is watched.
LEMMA PoliteWrite ==
  ASSUME EngineInv, Civil, NEW c \in Outputs, PendingWrite(c)
  PROVE  Settles
<1>0. Inner /\ Calm /\ Watching /\ Connected /\ Phase
  BY DEF EngineInv, Base, Civil, Orderly
<1>1. /\ process' = "up" /\ pc = "io" /\ pc' = "io" /\ todo' = todo \ {c}
      /\ buf' = [buf EXCEPT ![c] = Nothing] /\ wset' = wset \ {c}
      /\ UNCHANGED <<fd, rset, machine, ack, ping, pings_left, alarms, inbox, hungup, jammed>>
  BY OutputsWritten DEF PendingWrite, At, flags, Nothing
<1>2. /\ buf'[c] = Nothing /\ \A d \in Channel : d # c => buf'[d] = buf[d]
      /\ c # "FI_MAIN" /\ c # "II_SIGNAL" /\ {"FI_MAIN", "II_SIGNAL", "FO_MAIN"} \subseteq Channel
      /\ wset \subseteq Channel
  BY <1>0, <1>1, Channels DEF Inner, Inputs
<1>3. Calm' /\ Watching'
  BY <1>0, <1>1, <1>2 DEF Calm, Watching
<1>4. CASE c = "FO_MAIN"
  <2>1. Phase' /\ ~hungup
    BY <1>4, MainWritten
  <2>2. Connected'
    BY <1>0, <1>1, <1>2, <2>1 DEF Connected
  <2> QED BY <1>1, <1>3, <2>1, <2>2, GoesOn DEF Orderly
<1>5. CASE c # "FO_MAIN"
  <2>1. owes' = owes /\ armed' = armed
    BY <1>5 DEF PendingWrite, Arms
  <2>2. Phase'
    BY <1>0, <1>1, <1>2, <1>5, <2>1, PhaseKept
  <2>3. Connected'
    BY <1>0, <1>1, <1>2, <1>5, <2>1 DEF Connected
  <2> QED BY <1>1, <1>3, <2>2, <2>3, GoesOn DEF Orderly
<1> QED BY <1>4, <1>5

\* The signals read are no timer's.
LEMMA PoliteSignals == ASSUME EngineInv, Civil, ReadSignals PROVE Settles
<1>0. Inner /\ Outer /\ Delivered /\ Calm /\ Watching /\ Connected /\ Phase
  BY DEF EngineInv, Base, Civil, Orderly
<1>1. "II_SIGNAL" \in Inputs /\ "II_SIGNAL" \in Channel
  BY Channels DEF Inputs
<1>2. pc = "io" /\ "II_SIGNAL" \in todo /\ todo' = todo \ {"II_SIGNAL"}
  BY <1>1, InputVisited DEF ReadSignals
<1>3. /\ process' = "up" /\ pc' = "io" /\ alarms' = Nothing
      /\ buf' = [buf EXCEPT !["II_SIGNAL"] = @ \o alarms]
      /\ UNCHANGED <<fd, wset, rset, machine, ack, ping, pings_left, armed, inbox, hungup, owes, jammed>>
  BY <1>2 DEF ReadSignals, Put, flags, world, history, Civil, Nothing
<1>4. buf["II_SIGNAL"] = Nothing
  BY <1>0, <1>2 DEF Delivered, Nothing
<1>5. Nothing \o alarms = alarms
  BY <1>0, ConcatEmptySeq DEF Outer, Nothing
<1>6. buf'["II_SIGNAL"] = alarms /\ \A d \in Channel : d # "II_SIGNAL" => buf'[d] = buf[d]
  BY <1>0, <1>1, <1>3, <1>4, <1>5 DEF Inner
<1>7. \A x : ~Contains(Nothing, x)
  BY DEF Contains, Nothing
<1>8. {"FI_MAIN", "FO_MAIN"} \subseteq Channel /\ wset \subseteq Channel /\ "II_SIGNAL" \notin wset
  BY <1>0, Channels DEF Inner, Inputs
<1>9. Calm' /\ Watching'
  BY <1>0, <1>3, <1>6, <1>7, <1>8 DEF Calm, Watching
<1>10. Connected'
  BY <1>0, <1>2, <1>3, <1>6, <1>8 DEF Connected
<1>11. Phase'
  BY <1>0, <1>3, <1>6, <1>8, PhaseKept
<1> QED BY <1>3, <1>9, <1>10, <1>11, GoesOn DEF Orderly

\* A read that begins with ACK or NAK takes the output back; any other only adds to the buffer.
TakesBack(bytes) ==
  /\ ack /\ Head(bytes) \in {"ack", "nak"} /\ ack' = FALSE /\ armed' = armed \ {"timer_ack"}
  /\ buf'["FO_MAIN"] = Nothing

Adds(bytes) ==
  /\ ~(ack /\ Head(bytes) \in {"ack", "nak"}) /\ UNCHANGED <<ack, armed>>
  /\ buf'["FO_MAIN"] = buf["FO_MAIN"]

\* What a read does to an exchange.
LEMMA ReadIs ==
  ASSUME EngineInv, NEW c \in {"CO_MASTER", "CI_MASTER", "FI_MAIN"},
         NEW bytes \in Seq(Symbol), Took(c, bytes)
  PROVE  /\ TakesBack(bytes) \/ Adds(bytes)
         /\ buf'[c] = buf[c] \o bytes
         /\ \A d \in Channel : d \notin {c, "FO_MAIN"} => buf'[d] = buf[d]
         /\ \A x : ~Contains(alarms, x) => ~Contains(alarms', x)
<1>0. buf \in [Channel -> Seq(Symbol)] /\ alarms \in Seq(Signal) /\ IsInjective(alarms)
  BY DEF EngineInv, Base, Inner, Outer
<1>1. c \in Channel /\ "FO_MAIN" \in Channel /\ c # "FO_MAIN"
  BY Channels DEF Inputs
<1> DEFINE u == buf[c] \o bytes
<1>2. CASE ack /\ Head(bytes) \in {"ack", "nak"}
  <2>1. /\ ack' = FALSE /\ buf' = [buf EXCEPT ![c] = u, !["FO_MAIN"] = Nothing]
        /\ armed' = armed \ {"timer_ack"}
        /\ alarms' \in {alarms, RemoveFirst(alarms, "timer_ack")}
    BY <1>2 DEF Took, Acknowledged, Disarm, Nothing
  <2> HIDE DEF u
  <2>2. /\ buf'[c] = u /\ buf'["FO_MAIN"] = Nothing
        /\ \A d \in Channel : d \notin {c, "FO_MAIN"} => buf'[d] = buf[d]
    BY <1>0, <1>1, <2>1
  <2>3. \A x : ~Contains(alarms, x) => ~Contains(alarms', x)
    <3>1. LET r == RemoveFirst(alarms, "timer_ack")
          IN  /\ ~Contains(r, "timer_ack")
              /\ \A x : x # "timer_ack" => (Contains(r, x) <=> Contains(alarms, x))
      BY <1>0, WithoutOne
    <3> QED BY <2>1, <3>1
  <2> QED BY <1>2, <2>1, <2>2, <2>3 DEF TakesBack, u
<1>3. CASE ~(ack /\ Head(bytes) \in {"ack", "nak"})
  <2>1. buf' = [buf EXCEPT ![c] = u] /\ UNCHANGED <<ack, armed, alarms>>
    BY <1>3 DEF Took, Put, timers
  <2> HIDE DEF u
  <2>2. buf'[c] = u /\ \A d \in Channel : d # c => buf'[d] = buf[d]
    BY <1>0, <1>1, <2>1
  <2> QED BY <1>1, <1>3, <2>1, <2>2 DEF Adds, u
<1> QED BY <1>2, <1>3

\* A line of the console adds nothing to what is on MAIN; it may stand for the acknowledge.
LEMMA PoliteConsole == ASSUME EngineInv, Civil, ConsoleRead("CI_MASTER") PROVE Settles
<1>0. Inner /\ Calm /\ Watching /\ Connected /\ Phase
  BY DEF EngineInv, Base, Civil, Orderly
<1>1. PICK a \in Seq(Symbol) : Visits("CI_MASTER") /\ Took("CI_MASTER", a)
  BY ConsoleReadIs
<1>2. /\ process' = "up" /\ pc = "io" /\ pc' = "io"
      /\ UNCHANGED <<fd, wset, rset, machine, ping, pings_left, inbox, hungup, owes, jammed>>
  BY <1>1 DEF ConsoleRead, Visits, At, history
<1>3. /\ TakesBack(a) \/ Adds(a)
      /\ \A d \in Channel : d \notin {"CI_MASTER", "FO_MAIN"} => buf'[d] = buf[d]
      /\ \A x : ~Contains(alarms, x) => ~Contains(alarms', x)
  BY <1>1, ReadIs
<1>4. wset = {} /\ todo' = todo \ {"CI_MASTER"}
  BY <1>1, InputVisited DEF Inputs
<1>5. buf["FO_MAIN"] = Nothing /\ ~Answering
  BY <1>0, <1>4, AnsweringIs DEF Answering
<1>6. buf'["FO_MAIN"] = Nothing /\ buf'["FI_MAIN"] = buf["FI_MAIN"] /\ buf'["II_SIGNAL"] = buf["II_SIGNAL"]
  BY <1>3, <1>5, Channels DEF TakesBack, Adds, Inputs
<1>7. Calm' /\ Watching' /\ Connected'
  BY <1>0, <1>2, <1>3, <1>4, <1>5, <1>6 DEF Calm, Watching, Connected
<1>8. Phase'
  <2>1. CASE Adds(a)
    BY <1>0, <1>2, <1>4, <1>5, <1>6, <2>1, PhaseKept DEF Adds
  <2>2. CASE TakesBack(a)
    <3>1. AwaitsAck
      BY <1>0, <1>5, <2>2 DEF TakesBack, Phase, Listening, Requested, AwaitsPong
    <3>2. AwaitsAck'
      BY <1>2, <1>6, <2>2, <3>1 DEF TakesBack, AwaitsAck
    <3> QED BY <3>2 DEF Phase
  <2> QED BY <1>3, <2>1, <2>2
<1> QED BY <1>2, <1>7, <1>8, GoesOn DEF Orderly

\* The console goes; nothing else does.
LEMMA PoliteConsoleCloses == ASSUME EngineInv, Civil, ConsoleCloses PROVE Settles
<1>0. Inner /\ Calm /\ Watching /\ Connected /\ Phase
  BY DEF EngineInv, Base, Civil, Orderly
<1>1. /\ process' = "up" /\ pc = "io" /\ pc' = "io"
      /\ fd' = fd \ {"CI_MASTER", "CO_MASTER"} /\ rset' = rset \ {"CI_MASTER"}
      /\ todo' = todo \ {"CI_MASTER"}
      /\ UNCHANGED <<buf, wset, machine, ack, ping, pings_left, armed, alarms>>
      /\ UNCHANGED <<inbox, hungup, owes, jammed>>
  BY DEF ConsoleCloses, Visits, At, flags, timers, history
<1>2. "CO_MASTER" \notin rset
  BY <1>0 DEF Inner, Inputs
<1>3. Calm' /\ Watching' /\ Connected'
  BY <1>0, <1>1, <1>2 DEF Calm, Watching, Connected
<1>4. Phase'
  BY <1>0, <1>1, PhaseKept
<1> QED BY <1>1, <1>3, <1>4, GoesOn DEF Orderly

\* A polite peer's bytes are read all at once.
LEMMA AllRead ==
  ASSUME EngineInv, manner = "polite", MainRead
  PROVE  /\ inbox # Nothing /\ inbox' = Nothing
         /\ Took("FI_MAIN", FlattenSeq(inbox)) /\ FlattenSeq(inbox) \in Seq(Symbol)
         /\ UNCHANGED history
<1> DEFINE W == Seq(Symbol)
           n == Len(inbox)
<1>1. inbox \in Seq(W) /\ inbox # Nothing
  BY DEF EngineInv, Base, Outer, MainRead, Nothing
<1>2. FlattenSeq(inbox) \in W
  BY <1>1, FlattenIsSeq
<1>3. /\ Took("FI_MAIN", FlattenSeq(SubSeq(inbox, 1, n)))
      /\ inbox' = SubSeq(inbox, n + 1, n)
      /\ UNCHANGED history
  BY DEF MainRead
<1> HIDE DEF W
<1>4. n \in Nat /\ n \in 0..n
  BY <1>1, LenProperties
<1>5. SubSeq(inbox, 1, n) = inbox
  <2>1. 1 \in Nat \ {0}
    OBVIOUS
  <2> DEFINE p == SubSeq(inbox, 1, n)
  <2>2. /\ p \in Seq(W) /\ Len(p) = (IF 1 <= n THEN n - 1 + 1 ELSE 0)
        /\ \A i \in 1..(n - 1 + 1) : p[i] = inbox[1 + i - 1]
    BY <1>1, <1>4, <2>1, PartIsSeq
  <2> HIDE DEF p
  <2>3. Len(p) = n /\ \A i \in 1..n : p[i] = inbox[i]
    BY <1>4, <2>2
  <2>4. p = inbox
    BY <1>1, <2>2, <2>3, SeqEqual
  <2> QED BY <2>4 DEF p
<1>6. SubSeq(inbox, n + 1, n) = Nothing
  <2> DEFINE p == SubSeq(inbox, n + 1, n)
  <2>1. n + 1 \in Nat \ {0} /\ ~(n + 1 <= n)
    BY <1>4
  <2>2. p \in Seq(W) /\ Len(p) = (IF n + 1 <= n THEN n - (n + 1) + 1 ELSE 0)
    BY <1>1, <1>4, <2>1, PartIsSeq
  <2> HIDE DEF p
  <2>3. p = Nothing
    BY <2>1, <2>2, EmptySeq DEF Nothing
  <2> QED BY <2>3 DEF p
<1> QED BY <1>1, <1>2, <1>3, <1>5, <1>6 DEF W

\* What a polite peer said is read when there is nothing left of what it said before.
LEMMA PoliteRead == ASSUME EngineInv, Civil, MainRead PROVE Settles
<1>0. Inner /\ Stage /\ Calm /\ Watching /\ Connected /\ Phase
  BY DEF EngineInv, Base, Civil, Orderly
<1> DEFINE t == FlattenSeq(inbox)
<1>1. /\ inbox # Nothing /\ inbox' = Nothing /\ Took("FI_MAIN", t) /\ t \in Seq(Symbol)
      /\ jammed' = jammed
  BY AllRead DEF Civil, history
<1>2. /\ process' = "up" /\ pc = "io" /\ pc' = "io" /\ Visits("FI_MAIN")
      /\ UNCHANGED <<fd, wset, rset, machine, ping, pings_left, hungup, owes>>
  BY DEF MainRead, Visits, At
<1> HIDE DEF t
<1>3. wset = {} /\ todo' = todo \ {"FI_MAIN"} /\ "FI_MAIN" \in todo
  BY <1>2, InputVisited DEF Inputs
<1>4. /\ TakesBack(t) \/ Adds(t)
      /\ buf'["FI_MAIN"] = buf["FI_MAIN"] \o t
      /\ \A d \in Channel : d \notin {"FI_MAIN", "FO_MAIN"} => buf'[d] = buf[d]
      /\ \A x : ~Contains(alarms, x) => ~Contains(alarms', x)
  BY <1>1, ReadIs
<1>5. buf["FI_MAIN"] = Nothing
  BY <1>0, <1>2, <1>3 DEF Connected
<1>6. buf'["FI_MAIN"] = t
  BY <1>1, <1>4, <1>5, ConcatEmptySeq DEF Nothing
<1>7. buf["FO_MAIN"] = Nothing /\ ~Answering
  BY <1>0, <1>3, AnsweringIs DEF Answering
<1>8. buf'["FO_MAIN"] = Nothing /\ buf'["II_SIGNAL"] = buf["II_SIGNAL"]
  BY <1>4, <1>7, Channels DEF TakesBack, Adds, Inputs
<1>9. ~hungup /\ "FI_MAIN" \in rset
  BY <1>0, <1>1, <1>2, <1>3 DEF Connected, Stage, Inputs
<1>10. Calm' /\ Watching' /\ Connected'
  BY <1>0, <1>1, <1>2, <1>3, <1>4, <1>8, <1>9 DEF Calm, Watching, Connected
<1>11. Phase'
  <2>1. CASE Requested
    <3>1. PICK b \in Seq(Symbol) : inbox = <<b>> /\ (Idle(b) \/ OneFrame(b))
      BY <2>1 DEF Requested
    <3>2. t = b
      BY <3>1, FlattenFew DEF t
    <3>3. Adds(t)
      BY <1>4, <2>1 DEF Requested, TakesBack
    <3>4. Listening'
      BY <1>1, <1>2, <1>6, <1>8, <2>1, <3>1, <3>2, <3>3 DEF Requested, Listening, Adds
    <3> QED BY <3>4 DEF Phase
  <2>2. CASE AwaitsAck
    <3>1. inbox = AckOwed /\ t = AckBytes
      BY <1>1, <2>2, OwedAre DEF AwaitsAck, t
    <3>2. ~ack' /\ "timer_ack" \notin armed' /\ ("timer_ping" \in armed' => "timer_ping" \in armed)
      BY <1>4, <2>2, <3>1, SaidAre DEF TakesBack, Adds, AwaitsAck
    <3>3. Idle(buf'["FI_MAIN"])
      BY <1>6, <3>1, IdleAre
    <3>4. CASE owes = PongOwed
      <4>1. AwaitsPong'
        BY <1>1, <1>2, <1>8, <3>2, <3>3, <3>4 DEF AwaitsPong
      <4> QED BY <4>1 DEF Phase
    <3>5. CASE owes = Nothing /\ ~ping /\ "timer_ping" \notin armed
      <4>1. Listening'
        BY <1>1, <1>2, <1>8, <3>2, <3>3, <3>5 DEF Listening
      <4> QED BY <4>1 DEF Phase
    <3> QED BY <2>2, <3>1, <3>4, <3>5, OwedAre DEF AwaitsAck
  <2>3. CASE AwaitsPong
    <3>1. inbox = PongOwed /\ t = PongBytes /\ owes = Nothing
      BY <1>1, <2>3, OwedAre DEF AwaitsPong, t
    <3>2. ~ack' /\ "timer_ack" \notin armed'
      BY <1>4, <2>3 DEF TakesBack, Adds, AwaitsPong
    <3>3. Listening'
      BY <1>1, <1>2, <1>6, <1>8, <3>1, <3>2, PongIs DEF Listening
    <3> QED BY <3>3 DEF Phase
  <2>4. ~Listening
    BY <1>1 DEF Listening
  <2> QED BY <1>0, <1>7, <2>1, <2>2, <2>3, <2>4 DEF Phase
<1> QED BY <1>2, <1>10, <1>11, GoesOn DEF Orderly

\* The end of the connection is read only after the peer has hung up.
LEMMA PoliteEnd == ASSUME EngineInv, Civil, MainEnds PROVE Settles
<1>0. Inner /\ Calm /\ Watching /\ Connected /\ Phase
  BY DEF EngineInv, Base, Civil, Orderly
<1>1. /\ process' = "up" /\ pc = "io" /\ pc' = "io" /\ Visits("FI_MAIN") /\ inbox = Nothing
      /\ fd' = fd \ {"FO_MAIN", "FI_MAIN"} /\ rset' = rset \ {"FI_MAIN"}
      /\ UNCHANGED <<buf, wset, machine, ack, ping, pings_left, armed, alarms>>
      /\ UNCHANGED <<inbox, hungup, owes, jammed>>
  BY DEF MainEnds, close_main_channel, Visits, At, flags, timers, world, history, Nothing
<1>2. "FI_MAIN" \in todo /\ todo' = todo \ {"FI_MAIN"}
  BY <1>1, InputVisited DEF Inputs
<1>3. hungup
  BY <1>0, <1>1, <1>2 DEF Connected
<1>4. "FO_MAIN" \notin rset
  BY <1>0 DEF Inner, Inputs
<1>5. Calm' /\ Watching' /\ Connected'
  BY <1>0, <1>1, <1>2, <1>3, <1>4 DEF Calm, Watching, Connected
<1>6. Phase'
  BY <1>0, <1>1, PhaseKept
<1> QED BY <1>1, <1>5, <1>6, GoesOn DEF Orderly

\* All was visited: what was read is now processed.
LEMMA PoliteDone == ASSUME EngineInv, Civil, IoDone PROVE Settles
<1>0. Inner /\ Stage /\ Calm /\ Watching /\ Connected /\ Phase
  BY DEF EngineInv, Base, Civil, Orderly
<1>1. /\ process' = "up" /\ pc = "io" /\ pc' = "process" /\ todo = {} /\ todo' = rset /\ wset' = {}
      /\ UNCHANGED <<fd, buf, rset, machine, ack, ping, pings_left, armed, alarms>>
      /\ UNCHANGED <<inbox, hungup, owes, jammed>>
  BY DEF IoDone, At, flags, timers, world, history
<1>2. wset = {}
  BY <1>0, <1>1 DEF Stage
<1>3. Calm' /\ Watching' /\ Connected'
  BY <1>0, <1>1 DEF Calm, Watching, Connected
<1>4. Phase'
  BY <1>0, <1>1, <1>2, PhaseKept
<1> QED BY <1>1, <1>3, <1>4, GoesOn DEF Orderly

\* No output has more than an answer to write, or what of payments there was room for.
LEMMA AllWithin ==
  ASSUME EngineInv, Civil, NEW c \in Outputs
  PROVE  Within(c)
<1>0. Bounds /\ Phase
  BY DEF EngineInv, Civil, Orderly
<1>4. \A n \in {0, 1, 2, 3} : n <= Capacity
  BY CapacityAssumption
<1>1. CASE c = "NO_PAYMENT"
  BY <1>0, <1>1 DEF Bounds, Within
<1>2. CASE c = "CO_MASTER"
  <2>1. buf[c] \in {Nothing, Prompt}
    BY <1>2 DEF Civil, Prompted
  <2>2. Len(Nothing) = 0 /\ Len(Prompt) = 1
    BY SymbolsAre, ShortSeqs DEF Nothing, Prompt
  <2>3. Len(buf[c]) \in {0, 1}
    BY <2>1, <2>2
  <2> QED BY <2>3, <1>4 DEF Within
<1>3. CASE c = "FO_MAIN"
  <2>1. CASE buf[c] = Nothing
    BY <2>1, ShortSeqs, CapacityAssumption DEF Within, Nothing
  <2>2. CASE buf[c] # Nothing
    <3>1. Answering
      BY <1>0, <1>3, <2>2, AnsweringIs
    <3>2. /\ Len(AckSaid) = 1 /\ Len(NakSaid) = 1 /\ Len(PingSaid) = 2
          /\ \A type \in Answered : Len(Reply(type)) = 3
      BY SymbolsAre, SaidAre, ShortSeqs DEF AckSaid, NakSaid, PingSaid, Reply
    <3>3. Len(buf[c]) \in {1, 2, 3}
      BY <1>3, <3>1, <3>2 DEF Answering
    <3> QED BY <3>3, <1>4 DEF Within
  <2> QED BY <2>1, <2>2
<1> QED BY <1>1, <1>2, <1>3, Channels

\* No write is empty, and no timer is started that runs.
LEMMA PolitePending == ASSUME EngineInv, Civil, PerformPendingIo PROVE Settles
<1>0. Inner /\ Watching /\ Phase
  BY DEF EngineInv, Base, Civil, Orderly
<1>1. CASE \E c \in Outputs : PendingWrite(c)
  BY <1>1, PoliteWrite
<1>2. CASE \E c \in Outputs : WritesNothing(c)
  BY <1>0, <1>2 DEF WritesNothing, Watching, Nothing
<1>3. CASE ArmsTwice
  <2>1. buf["FO_MAIN"] # Nothing /\ Guards \cap armed # {}
    BY <1>3 DEF ArmsTwice, Nothing
  <2>2. armed = {}
    BY <1>0, <2>1, AnsweringIs DEF Answering
  <2> QED BY <2>1, <2>2
<1>4. CASE ReadSignals
  BY <1>4, PoliteSignals
<1>5. CASE ConsoleCloses
  BY <1>5, PoliteConsoleCloses
<1>6. CASE \E c \in {"CO_MASTER", "CI_MASTER"} : ConsoleRead(c)
  <2>1. ~ConsoleRead("CO_MASTER")
    BY OutputsWritten DEF ConsoleRead, Visits
  <2> QED BY <1>6, <2>1, PoliteConsole
<1>7. CASE MainRead
  BY <1>7, PoliteRead
<1>8. CASE MainEnds
  BY <1>8, PoliteEnd
<1>9. CASE IoDone
  BY <1>9, PoliteDone
<1>10. CASE OutputRead
  BY <1>10, OutputsWritten DEF OutputRead
<1>11. CASE \E c \in Outputs : WritesBeyond(c)
  BY <1>11, AllWithin DEF WritesBeyond
<1> QED BY <1>1, <1>2, <1>3, <1>4, <1>5, <1>6, <1>7, <1>8, <1>9, <1>10, <1>11 DEF PerformPendingIo

-----------------------------------------------------------------------------
(* The handlers *)

\* Without a timer's signal there is none to act on.
LEMMA NoAlarm ==
  ASSUME buf["II_SIGNAL"] \in Seq(Signal),
         \A timer \in {"timer_ack", "timer_ping"} : ~Contains(buf["II_SIGNAL"], timer)
  PROVE  Alarm = "none"
<1> DEFINE s == buf["II_SIGNAL"]
           I == {i \in 1..Len(s) : s[i] # "SIGINT"}
<1>1. Len(s) \in Nat /\ \A i \in 1..Len(s) : s[i] \in Signal
  BY LenProperties, ElementOfSeq
<1>2. I = {}
  BY <1>1 DEF Signal, Contains
<1> QED BY <1>2 DEF Alarm, SelectInSeq

\* A console may be opened, or SIGINT end the process.
LEMMA PoliteSignal == ASSUME EngineInv, Civil, process_signal PROVE Settles
<1>0. Inner /\ Stage /\ Calm /\ Watching /\ Connected /\ Phase
  BY DEF EngineInv, Base, Civil, Orderly
<1>1. Alarm = "none"
  BY <1>0, NoAlarm DEF Inner, Calm
<1> DEFINE m == IF Interrupted THEN Append(buf["CO_MASTER"], "prompt") ELSE buf["CO_MASTER"]
<1>2. /\ pc = "process" /\ pc' = "process" /\ todo' = todo \ {"II_SIGNAL"} /\ Handles("II_SIGNAL")
      /\ buf' = [buf EXCEPT !["II_SIGNAL"] = Nothing, !["CO_MASTER"] = m]
      /\ fd' = fd \cup Opened /\ wset' = wset \cup (Opened \cap Outputs)
      /\ sigint' = (sigint /\ ~Interrupted) /\ process' \in Outcome /\ process = "up"
      /\ UNCHANGED <<rset, machine, ack, ping, pings_left, armed, alarms, inbox, hungup, owes, jammed>>
      /\ console' = console
  BY <1>1 DEF process_signal, Handles, At, flags, timers, world, history, Nothing
<1>3. "II_SIGNAL" \in todo
  BY <1>2, Handled DEF Handles
<1>4. wset = {}
  BY <1>0, <1>2, <1>3 DEF Stage
<1>5. {"II_SIGNAL", "CO_MASTER", "FI_MAIN", "FO_MAIN"} \subseteq Channel
  BY Channels DEF Inputs
<1>6. /\ buf'["II_SIGNAL"] = Nothing /\ buf'["FI_MAIN"] = buf["FI_MAIN"]
      /\ buf'["FO_MAIN"] = buf["FO_MAIN"]
      /\ Interrupted => buf'["CO_MASTER"] # Nothing
  <2>1. Interrupted => m # Nothing
    <3>1. buf["CO_MASTER"] \in Seq(Symbol) /\ "prompt" \in Symbol
      BY <1>0, <1>5, SymbolsAre DEF Inner
    <3>2. Append(buf["CO_MASTER"], "prompt") # Nothing
      BY <3>1, AppendProperties, ShortSeqs DEF Nothing
    <3> QED BY <3>2
  <2> HIDE DEF m
  <2> QED BY <1>0, <1>2, <1>5, <2>1 DEF Inner
<1>7. Opened \subseteq {"CI_MASTER", "CO_MASTER"} /\ (Opened # {} => Interrupted)
  BY DEF Opened
<1>8. Opened \cap Outputs \subseteq {"CO_MASTER"}
  BY <1>7 DEF Outputs, Inputs
<1>9. \A x : ~Contains(Nothing, x)
  BY DEF Contains, Nothing
<1>10. Calm' /\ Watching'
  BY <1>0, <1>2, <1>4, <1>6, <1>7, <1>8, <1>9 DEF Calm, Watching
<1>11. Connected'
  BY <1>0, <1>2, <1>6, <1>7 DEF Connected
<1>12. Phase'
  BY <1>0, <1>2, <1>4, <1>6, PhaseKept
<1>13. Orderly'
  BY <1>10, <1>11, <1>12 DEF Orderly
<1>14. Separate' => process' \in {"up", "killed"}
  <2>1. Separate' => ~(Interrupted /\ console = "none")
    BY <1>2 DEF Separate
  <2>2. ~(Interrupted /\ console = "none") => Outcome \subseteq {"up", "killed"}
    BY <1>2 DEF Outcome
  <2> QED BY <1>2, <2>1, <2>2
<1> QED BY <1>13, <1>14 DEF Settles

\* The console's line is answered with a prompt.
LEMMA PoliteMaster == ASSUME EngineInv, Civil, process_master PROVE Settles
<1>0. Inner /\ Calm /\ Watching /\ Connected /\ Phase
  BY DEF EngineInv, Base, Civil, Orderly
<1>1. /\ process' = "up" /\ pc = "process" /\ pc' = "process" /\ todo' = todo \ {"CI_MASTER"}
      /\ buf' = [buf EXCEPT !["CO_MASTER"] = Prompt] /\ wset' = wset \cup {"CO_MASTER"}
      /\ UNCHANGED <<fd, rset, machine, ack, ping, pings_left, armed, alarms>>
      /\ UNCHANGED <<inbox, hungup, owes, jammed>>
  <2>1. pc = "process" /\ "CI_MASTER" \in todo /\ process = "up"
    BY Handled DEF process_master, Handles, At
  <2>2. buf["CO_MASTER"] = Nothing
    BY <2>1 DEF Civil, Prompted
  <2>3. Nothing \o Prompt = Prompt /\ Len(Nothing) = 0
    BY SymbolsAre, ShortSeqs, ConcatEmptySeq DEF Nothing, Prompt
  <2>4. ~Leaves("CO_MASTER")
    BY <2>2, <2>3, CapacityAssumption DEF Leaves
  <2>5. buf' = [buf EXCEPT !["CO_MASTER"] = buf["CO_MASTER"] \o Prompt]
    BY DEF process_master, Put, Prompt
  <2> QED BY <2>1, <2>2, <2>3, <2>4, <2>5
      DEF process_master, Handles, At, flags, timers, world, history
<1>2. {"II_SIGNAL", "CO_MASTER", "FI_MAIN", "FO_MAIN"} \subseteq Channel /\ wset \subseteq Channel
  BY <1>0, Channels DEF Inner, Inputs
<1>3. Prompt # Nothing
  BY SymbolsAre, ShortSeqs DEF Nothing, Prompt
<1>4. /\ buf'["CO_MASTER"] = Prompt /\ \A d \in Channel : d # "CO_MASTER" => buf'[d] = buf[d]
  BY <1>0, <1>1, <1>2 DEF Inner
<1>5. Calm' /\ Watching'
  BY <1>0, <1>1, <1>2, <1>3, <1>4 DEF Calm, Watching
<1>6. Connected'
  BY <1>0, <1>1, <1>2, <1>4 DEF Connected
<1>7. Phase'
  BY <1>0, <1>1, <1>2, <1>4, PhaseKept
<1> QED BY <1>1, <1>5, <1>6, <1>7, GoesOn DEF Orderly

\* A frame is no idle bytes.
LEMMA FrameIsNotIdle == ASSUME NEW b, OneFrame(b) PROVE ~Idle(b)
BY DEF OneFrame, Idle

\* There is a frame to process only while the program listens.
LEMMA ToProcess ==
  ASSUME Phase
  PROVE  Idle(buf["FI_MAIN"]) \/ (Listening /\ OneFrame(buf["FI_MAIN"]))
BY IdleAre DEF Phase, Listening, Requested, Answering, AwaitsAck, AwaitsPong

\* The bytes read are used up.
LEMMA PoliteMainDone ==
  ASSUME EngineInv, Civil, InMain, Idle(buf["FI_MAIN"]),
         NEW f, f = frob_frame_process("main", buf["FI_MAIN"]), MainDone(f)
  PROVE  Settles
<1>0. Inner /\ Calm /\ Watching /\ Connected /\ Phase
  BY DEF EngineInv, Base, Civil, Orderly
<1>1. f.cs = "main"
  BY DEF Idle
<1>2. /\ process' = "up" /\ pc = "process" /\ pc' = "process" /\ todo' = todo \ {"FI_MAIN"}
      /\ buf' = [buf EXCEPT !["FI_MAIN"] = Nothing] /\ machine' = "main"
      /\ UNCHANGED <<fd, wset, rset, ack, ping, pings_left, armed, alarms>>
      /\ UNCHANGED <<inbox, hungup, owes, jammed>>
  BY <1>1 DEF MainDone, InMain, At, flags, timers, world, history, Nothing, Civil
<1>3. {"II_SIGNAL", "FI_MAIN", "FO_MAIN"} \subseteq Channel /\ wset \subseteq Channel /\ "FI_MAIN" \notin wset
  BY <1>0, Channels DEF Inner, Inputs
<1>4. buf'["FI_MAIN"] = Nothing /\ \A d \in Channel : d # "FI_MAIN" => buf'[d] = buf[d]
  BY <1>0, <1>2, <1>3 DEF Inner
<1>5. Calm' /\ Watching'
  BY <1>0, <1>2, <1>3, <1>4 DEF Calm, Watching
<1>6. Connected'
  BY <1>0, <1>2, <1>3, <1>4 DEF Connected
<1>7. Phase'
  <2>1. buf["FI_MAIN"] # PongBytes
    BY PongIs, FrameIsNotIdle
  <2>2. Listening => Listening'
    BY <1>2, <1>3, <1>4, <2>1, IdleAre DEF Listening
  <2>3. Requested => Requested'
    BY <1>2, <1>3, <1>4 DEF Requested
  <2>4. Answering => Answering'
    BY <1>2, <1>3, <1>4, IdleAre DEF Answering
  <2>5. AwaitsAck => AwaitsAck'
    BY <1>2, <1>3, <1>4, IdleAre DEF AwaitsAck
  <2>6. AwaitsPong => AwaitsPong'
    BY <1>2, <1>3, <1>4, IdleAre DEF AwaitsPong
  <2> QED BY <1>0, <2>2, <2>3, <2>4, <2>5, <2>6 DEF Phase
<1> QED BY <1>2, <1>5, <1>6, <1>7, GoesOn DEF Orderly

\* A frame is processed when it is MAIN's turn, while the connection stands.
LEMMA FrameIs ==
  ASSUME EngineInv, Civil, InMain, ~Idle(buf["FI_MAIN"])
  PROVE  /\ Listening /\ OneFrame(buf["FI_MAIN"]) /\ ~hungup
         /\ process = "up" /\ pc = "process" /\ "FI_MAIN" \in todo /\ "FO_MAIN" \in fd
         /\ ~Leaves("FO_MAIN") /\ Spare \in Nat /\ Spare > 2
<1>0. Inner /\ Connected /\ Phase
  BY DEF EngineInv, Base, Civil, Orderly
<1>1. Listening /\ OneFrame(buf["FI_MAIN"])
  BY <1>0, ToProcess
<1>2. ~hungup
  BY <1>0, IdleAre DEF Connected
<1>3. process = "up" /\ pc = "process" /\ "FO_MAIN" \in fd
  BY InMainIs
<1>4. "FI_MAIN" \in todo
  <2>1. todo \cap fd # {} /\ First(todo \cap fd) = "FI_MAIN" /\ todo \cap fd \subseteq Channel
    BY <1>0 DEF InMain, Inner
  <2>2. First(todo \cap fd) \in todo \cap fd
    BY <2>1, FirstIs
  <2> QED BY <2>1, <2>2
<1>5. Len(buf["FO_MAIN"]) = 0
  BY <1>1, ShortSeqs DEF Listening, Nothing
<1>6. ~Leaves("FO_MAIN") /\ Spare \in Nat /\ Spare > 2
  BY <1>5, CapacityAssumption DEF Free, Leaves, Spare
<1> QED BY <1>1, <1>2, <1>3, <1>4, <1>6

\* No timer runs then any more, and nothing but MAIN and the payment channel is touched.
Quiet ==
  /\ UNCHANGED <<fd, rset, pc, todo, process, inbox, hungup, owes, jammed>>
  /\ armed' = {} /\ ~ping' /\ pings_left' \in Nat /\ pings_left' >= 2
  /\ \A x : ~Contains(alarms, x) => ~Contains(alarms', x)

\* An acknowledge is all, or an answer follows that has to be acknowledged.
Replies(out) ==
  \/ out \in {AckSaid, NakSaid} /\ ~ack'
  \/ (\E type \in Answered : out = Reply(type)) /\ ack'

\* The frame leaves MAIN's input, out stands on MAIN, and v, if new, on the payment channel.
Sends(f, out, v) ==
  /\ buf' = [buf EXCEPT !["FI_MAIN"] = fnext(f), !["FO_MAIN"] = out, !["NO_PAYMENT"] = v]
  /\ machine' = "main"
  /\ \/ v = buf["NO_PAYMENT"] /\ wset' = wset \cup {"FO_MAIN"}
     \/ v # Nothing /\ wset' = wset \cup {"FO_MAIN", "NO_PAYMENT"}

\* Nothing is added to a number that is large enough.
LEMMA NothingAdded == \A n \in Nat : n >= 2 => n + 0 >= 2
OBVIOUS

\* A frame is taken, and something is said about it.
LEMMA FrameTaken ==
  ASSUME EngineInv, Civil, InMain, ~Idle(buf["FI_MAIN"]), Quiet,
         NEW f, f = frob_frame_process("main", buf["FI_MAIN"]),
         NEW out, Replies(out), NEW v, Sends(f, out, v)
  PROVE  Settles
<1>0. Inner /\ Calm /\ Watching
  BY DEF EngineInv, Base, Civil, Orderly
<1>1. /\ Listening /\ OneFrame(buf["FI_MAIN"]) /\ ~hungup
      /\ process = "up" /\ pc = "process" /\ "FI_MAIN" \in todo /\ "FO_MAIN" \in fd
  BY FrameIs
<1>2. /\ Inputs = {"II_SIGNAL", "CI_MASTER", "FI_MAIN"}
      /\ Outputs = {"NO_PAYMENT", "CO_MASTER", "FO_MAIN"} /\ Channel = Inputs \cup Outputs
  BY Channels DEF Inputs
<1>3. /\ buf'["FI_MAIN"] = fnext(f) /\ buf'["FO_MAIN"] = out /\ buf'["NO_PAYMENT"] = v
      /\ buf'["II_SIGNAL"] = buf["II_SIGNAL"] /\ buf'["CO_MASTER"] = buf["CO_MASTER"]
  BY <1>0, <1>2 DEF Inner, Sends
<1>4. out # Nothing
  BY SaidAre DEF Replies
<1>5. Idle(fnext(f))
  BY <1>1 DEF OneFrame, fnext
<1>6. Calm'
  <2>1. (IF ping' THEN 1 ELSE 0) = 0
    BY Zenon DEF Quiet
  <2>2. pings_left' \in Nat /\ pings_left' >= 2
    BY DEF Quiet
  <2>3. pings_left' + 0 >= 2
    BY <2>2, NothingAdded, Zenon
  <2>4. pings_left' + (IF ping' THEN 1 ELSE 0) >= 2
    BY <2>1, <2>3, Zenon
  <2> QED BY <1>0, <1>3, <2>4 DEF Calm, Quiet, Sends
<1>7. Watching'
  <2>1. ASSUME NEW c \in wset' PROVE buf'[c] # Nothing
    BY <1>0, <1>2, <1>3, <1>4 DEF Inner, Watching, Sends
  <2> QED BY <1>0, <2>1 DEF Watching, Quiet
<1>8. Connected'
  BY <1>1 DEF Connected, Quiet
<1>9. Answering'
  BY <1>1, <1>3, <1>5 DEF Answering, Listening, Quiet, Replies, Sends
<1> QED BY <1>1, <1>6, <1>7, <1>8, <1>9, GoesOn DEF Orderly, Phase, Quiet

\* The same for a frame that calls for something on MAIN only.
LEMMA FrameAnswered ==
  ASSUME EngineInv, Civil, InMain, ~Idle(buf["FI_MAIN"]), Quiet,
         NEW f, f = frob_frame_process("main", buf["FI_MAIN"]), NEW out \in Seq(Symbol),
         Replies(out), Takes(f, out), wset' = wset \cup {"FO_MAIN"}
  PROVE  Settles
<1> DEFINE v == buf["NO_PAYMENT"]
           a == fnext(f)
<1>1. Inner /\ buf["FO_MAIN"] = Nothing
  BY FrameIs DEF EngineInv, Base, Listening
<1>2. Nothing \o out = out
  BY ConcatEmptySeq DEF Nothing
<1>3. {"FI_MAIN", "FO_MAIN", "NO_PAYMENT"} \subseteq Channel
  BY Channels DEF Inputs
<1>4. buf' = [buf EXCEPT !["FI_MAIN"] = a, !["FO_MAIN"] = out] /\ machine' = "main"
  BY <1>1, <1>2 DEF Takes, Renewed
<1> HIDE DEF a
<1>5. buf' = [buf EXCEPT !["FI_MAIN"] = a, !["FO_MAIN"] = out, !["NO_PAYMENT"] = v]
  BY <1>1, <1>3, <1>4 DEF Inner
<1>6. v = buf["NO_PAYMENT"]
  OBVIOUS
<1> HIDE DEF v
<1>7. Sends(f, out, v)
  BY <1>4, <1>5, <1>6 DEF Sends, a
<1> QED BY <1>7, FrameTaken, Zenon

\* When no ping is out, two are left; when one is, there is at least one more.
LEMMA PingsLeft ==
  ASSUME EngineInv, Calm
  PROVE  /\ pings_left \in Nat /\ pings_left + 1 \in Nat /\ pings_left + 1 >= 2
         /\ ~ping => pings_left >= 2
<1>1. pings_left \in Nat /\ ping \in BOOLEAN
  BY DEF EngineInv, Base, Outer
<1>2. pings_left + (IF ping THEN 1 ELSE 0) >= 2
  BY DEF Calm
<1>3. ASSUME ping PROVE pings_left + 1 >= 2
  <2>1. (IF ping THEN 1 ELSE 0) = 1
    BY <1>3, Zenon
  <2> QED BY <1>2, <2>1, Zenon
<1>4. ASSUME ~ping PROVE pings_left + 0 >= 2
  <2>1. (IF ping THEN 1 ELSE 0) = 0
    BY <1>4, Zenon
  <2> QED BY <1>2, <2>1, Zenon
<1>5. \A n \in Nat : n + 1 \in Nat /\ (n + 0 >= 2 => n >= 2 /\ n + 1 >= 2)
  OBVIOUS
<1>6. pings_left + 1 >= 2
  BY <1>1, <1>3, <1>4, <1>5, Zenon
<1>7. ~ping => pings_left >= 2
  BY <1>1, <1>4, <1>5, Zenon
<1> QED BY <1>1, <1>5, <1>6, <1>7, Zenon

\* A frame that is no answer to a ping finds no timer running.
LEMMA QuietIs ==
  ASSUME EngineInv, Civil, Listening, buf["FI_MAIN"] # PongBytes,
         UNCHANGED <<fd, rset, pc, todo, process, inbox, hungup, owes, jammed>>,
         UNCHANGED <<ping, pings_left, armed, alarms>>
  PROVE  Quiet
<1>1. ~ping /\ armed = {}
  BY DEF EngineInv, Base, Outer, Listening
<1>2. pings_left \in Nat /\ pings_left >= 2
  BY <1>1, PingsLeft DEF Civil, Orderly
<1>3. pings_left' \in Nat /\ pings_left' >= 2
  BY <1>2, Zenon
<1> QED BY <1>1, <1>3 DEF Quiet

\* A frame that is spoilt, or that no machine takes, is acknowledged only.
LEMMA PoliteRefused ==
  ASSUME EngineInv, Civil, InMain, ~Idle(buf["FI_MAIN"]),
         NEW f, f = frob_frame_process("main", buf["FI_MAIN"]), BadLrc(f) \/ BadParse(f)
  PROVE  Settles
<1>1. PICK out \in {AckSaid, NakSaid} : Takes(f, out)
  BY DEF BadLrc, BadParse, AckSaid, NakSaid
<1>2. /\ wset' = wset \cup {"FO_MAIN"} /\ ack' = ack
      /\ UNCHANGED <<fd, rset, pc, todo, process, inbox, hungup, owes, jammed>>
      /\ UNCHANGED <<ping, pings_left, armed, alarms>>
  BY DEF BadLrc, BadParse, flags, timers, round, world, history
<1>3. Listening
  BY FrameIs
<1>4. buf["FI_MAIN"] # PongBytes
  BY PongIs DEF BadLrc, BadParse, Type, Text
<1>5. Quiet
  BY <1>2, <1>3, <1>4, QuietIs
<1>6. Replies(out) /\ out \in Seq(Symbol)
  BY <1>1, <1>2, <1>3, SaidAre DEF Replies, Listening
<1> QED BY <1>1, <1>2, <1>5, <1>6, FrameAnswered

\* The answer to a ping stops its timer and gives the ping back.
LEMMA PolitePong ==
  ASSUME EngineInv, Civil, InMain, ~Idle(buf["FI_MAIN"]),
         NEW f, f = frob_frame_process("main", buf["FI_MAIN"]), Pong(f)
  PROVE  Settles
<1>0. Outer /\ Calm /\ Listening
  BY FrameIs DEF EngineInv, Base, Civil, Orderly
<1>1. /\ Takes(f, AckSaid) /\ wset' = wset \cup {"FO_MAIN"} /\ ack' = ack
      /\ UNCHANGED <<fd, rset, pc, todo, process, inbox, hungup, owes, jammed>>
      /\ ping' = FALSE /\ pings_left' = pings_left + 1 /\ armed' = armed \ {"timer_ping"}
      /\ alarms' \in {alarms, RemoveFirst(alarms, "timer_ping")}
  BY DEF Pong, Disarm, AckSaid, round, world, history
<1>2. \A x : ~Contains(alarms, x) => ~Contains(alarms', x)
  <2>1. LET r == RemoveFirst(alarms, "timer_ping")
        IN  /\ ~Contains(r, "timer_ping")
            /\ \A x : x # "timer_ping" => (Contains(r, x) <=> Contains(alarms, x))
    BY <1>0, WithoutOne DEF Outer
  <2> QED BY <1>1, <2>1
<1>3. pings_left' \in Nat /\ pings_left' >= 2
  BY <1>0, <1>1, PingsLeft, Zenon
<1>4. armed' = {}
  BY <1>0, <1>1 DEF Outer, Listening
<1>5. Quiet
  BY <1>1, <1>2, <1>3, <1>4 DEF Quiet
<1>6. Replies(AckSaid) /\ AckSaid \in Seq(Symbol)
  BY <1>0, <1>1, SaidAre DEF Replies, Listening
<1> QED BY <1>1, <1>5, <1>6, FrameAnswered

\* An answer that is known in advance, if there is one.
LEMMA ResponsesAre ==
  ASSUME NEW type, type \in DOMAIN Response
  PROVE  Response[type] \in Answered \cup {""}
<1>1. /\ DOMAIN Response = {"T1", "T3", "T4", "D4", "B1", "T2", "T5"}
      /\ Response["T1"] = "T2" /\ Response["T3"] = "T4" /\ Response["T4"] = "T5"
      /\ Response["D4"] = "D5" /\ Response["B1"] = "B2"
      /\ Response["T2"] = "" /\ Response["T5"] = ""
  BY DEF Response
<1> QED BY <1>1 DEF Answered

\* A request is acknowledged and, unless it has no answer, answered.
LEMMA PoliteAnswers ==
  ASSUME EngineInv, Civil, InMain, ~Idle(buf["FI_MAIN"]),
         NEW f, f = frob_frame_process("main", buf["FI_MAIN"]), Responds(f) \/ PaymentBusy(f)
  PROVE  Settles
<1>0. Listening /\ ~Leaves("FO_MAIN") /\ Spare \in Nat /\ Spare > 2
  BY FrameIs
<1>1. /\ UNCHANGED <<fd, rset, pc, todo, process, inbox, hungup, owes, jammed>>
      /\ UNCHANGED <<ping, pings_left, armed, alarms>>
  BY DEF Responds, PaymentBusy, Irregular, timers, round, world, history
<1>2. Type(f) # "T2" /\ f.e = "found"
  <2>1. Destination("T2") = "FO_MAIN"
    BY DEF Destination
  <2> QED BY <2>1 DEF Responds, Local, PaymentBusy, Good
<1>3. buf["FI_MAIN"] # PongBytes
  BY <1>2, PongIs DEF Type, Text
<1>4. Quiet
  BY <1>0, <1>1, <1>3, QuietIs
<1>5. /\ wset' = wset \cup {"FO_MAIN"}
      /\ \/ Takes(f, AckSaid) /\ ack' = ack
         \/ \E type \in Answered : Takes(f, <<"ACK">> \o Message(type)) /\ ack'
  <2>1. CASE Responds(f)
    <3> DEFINE r == Response[Type(f)]
    <3>1. r \in Answered \/ r = ""
      BY <2>1, ResponsesAre DEF Responds, Local
    <3>2. CASE r = ""
      <4>1. Answer(f) = <<>>
        BY <3>2 DEF Answer
      <4> QED BY <2>1, <4>1 DEF Responds, AckSaid
    <3>3. CASE r \in Answered /\ r # ""
      <4>1. r \in Symbol
        BY <3>3, SaidAre
      <4>2. Answer(f) = Message(r)
        BY <3>3 DEF Answer
      <4>3. Len(Message(r)) = 2 /\ Message(r) # <<>>
        BY <4>1, SymbolsAre, ShortSeqs DEF Message
      <4>4. ~(Answer(f) = <<>> \/ Skipped(Answer(f))) /\ Spare # 0
        <5> DEFINE a == Answer(f)
        <5>1. Len(a) = 2 /\ a # <<>>
          BY <4>2, <4>3
        <5> HIDE DEF a
        <5>2. ~(Spare < Len(a)) /\ Spare # 0
          BY <1>0, <5>1
        <5> QED BY <5>1, <5>2 DEF Skipped, a
      <4>5. Takes(f, <<"ACK">> \o Answer(f)) /\ Commission(wset)
        BY <2>1, <4>4 DEF Responds
      <4> HIDE DEF r
      <4> QED BY <3>3, <4>2, <4>5 DEF Commission
    <3> HIDE DEF r
    <3> QED BY <3>1, <3>2, <3>3
  <2>2. CASE PaymentBusy(f)
    <3>1. Takes(f, <<"ACK">> \o Message("S2")) /\ Commission(wset)
      BY <1>0, <2>2 DEF PaymentBusy
    <3> QED BY <3>1 DEF Commission, Answered
  <2> QED BY <2>1, <2>2
<1>6. CASE Takes(f, AckSaid) /\ ack' = ack
  <2>1. Replies(AckSaid) /\ AckSaid \in Seq(Symbol)
    BY <1>0, <1>6, SaidAre DEF Replies, Listening
  <2> QED BY <1>4, <1>5, <1>6, <2>1, FrameAnswered
<1>7. CASE \E type \in Answered : Takes(f, <<"ACK">> \o Message(type)) /\ ack'
  <2>1. PICK type \in Answered : Takes(f, <<"ACK">> \o Message(type)) /\ ack'
    BY <1>7
  <2>2. <<"ACK">> \o Message(type) = Reply(type) /\ Reply(type) \in Seq(Symbol)
    BY SaidAre
  <2>3. Takes(f, Reply(type)) /\ Replies(Reply(type))
    BY <2>1, <2>2 DEF Replies
  <2> DEFINE out == Reply(type)
  <2>4. Takes(f, out) /\ Replies(out) /\ out \in Seq(Symbol)
    BY <2>2, <2>3
  <2> HIDE DEF out
  <2> QED BY <1>4, <1>5, <2>4, FrameAnswered
<1> QED BY <1>5, <1>6, <1>7

\* An S1 is forwarded if there is room for it, and acknowledged in any case.
LEMMA PoliteForwards ==
  ASSUME EngineInv, Civil, InMain, ~Idle(buf["FI_MAIN"]),
         NEW f, f = frob_frame_process("main", buf["FI_MAIN"]), Forwards(f)
  PROVE  Settles
<1>0. Inner /\ Listening /\ buf["FO_MAIN"] = Nothing
  BY FrameIs DEF EngineInv, Base, Listening
<1> DEFINE skipped == 2 >= Free("NO_PAYMENT")
           a == fnext(f)
           n == buf["NO_PAYMENT"]
           s == Message("S1")
           v == IF skipped THEN n ELSE n \o s
<1>1. /\ buf' = [buf EXCEPT !["FI_MAIN"] = a, !["FO_MAIN"] = Append(@, "ACK"),
                            !["NO_PAYMENT"] = IF skipped THEN @ ELSE @ \o s]
      /\ wset' = wset \cup {"FO_MAIN"} \cup (IF skipped THEN {} ELSE {"NO_PAYMENT"})
      /\ machine' = "main" /\ f.e = "found" /\ Destination(Type(f)) = "NO_PAYMENT" /\ ack' = ack
      /\ UNCHANGED <<fd, rset, pc, todo, process, inbox, hungup, owes, jammed>>
      /\ UNCHANGED <<ping, pings_left, armed, alarms>>
  BY DEF Forwards, Good, Renewed, Irregular, flags, timers, round, world, history
<1>2. buf["FI_MAIN"] # PongBytes
  <2>1. Destination("T2") = "FO_MAIN"
    BY DEF Destination
  <2> QED BY <1>1, <2>1, PongIs DEF Type, Text
<1>3. Quiet
  BY <1>0, <1>1, <1>2, QuietIs
<1>4. {"FI_MAIN", "FO_MAIN", "NO_PAYMENT"} \subseteq Channel
  BY Channels DEF Inputs
<1>5. Append(Nothing, "ACK") = AckSaid
  BY DEF Nothing, AckSaid
<1>6. s \in Seq(Symbol) /\ s # <<>> /\ n \in Seq(Symbol)
  BY <1>0, <1>4, SymbolsAre, ShortSeqs DEF Message, Inner
<1>7. ~skipped => v # Nothing
  BY <1>6, Appended DEF Nothing
<1> HIDE DEF a, s
<1>8. buf' = [buf EXCEPT !["FI_MAIN"] = a, !["FO_MAIN"] = AckSaid, !["NO_PAYMENT"] = v]
  BY <1>0, <1>1, <1>4, <1>5 DEF Inner
<1>9. Sends(f, AckSaid, v)
  <2>1. CASE skipped
    BY <1>1, <1>8, <2>1 DEF Sends, a
  <2>2. CASE ~skipped
    BY <1>1, <1>7, <1>8, <2>2 DEF Sends, a
  <2> QED BY <2>1, <2>2
<1>10. Replies(AckSaid)
  BY <1>0, <1>1 DEF Replies, Listening
<1> HIDE DEF v
<1> QED BY <1>3, <1>9, <1>10, FrameTaken, Zenon

\* There is code for every message of a polite peer.
LEMMA PoliteMain == ASSUME EngineInv, Civil, process_main PROVE Settles
<1> DEFINE f == frob_frame_process("main", buf["FI_MAIN"])
<1>0. machine = "main" /\ Inner
  BY DEF EngineInv, Base, Civil, Orderly, Calm
<1>1. /\ InMain
      /\ \/ AckOverruns(f) \/ BadLrc(f) \/ EmptyMessage(f) \/ BadParse(f) \/ Pong(f) \/ Responds(f)
         \/ AnswerFails(f) \/ Forwards(f) \/ PaymentBusy(f) \/ BusyFails(f)
         \/ Unhandled(f) \/ MainDone(f)
  BY <1>0 DEF process_main
<1>2. f = frob_frame_process("main", buf["FI_MAIN"])
  OBVIOUS
<1> HIDE DEF f
<1>3. CASE Idle(buf["FI_MAIN"])
  <2>1. f.e = "EAGAIN"
    BY <1>2, <1>3 DEF Idle
  <2>2. MainDone(f)
    BY <1>1, <2>1 DEF AckOverruns, BadLrc, EmptyMessage, BadParse, Pong, Responds, Local,
                      AnswerFails, Forwards, PaymentBusy, BusyFails, Unhandled, Good
  <2> QED BY <1>1, <1>2, <1>3, <2>2, PoliteMainDone
<1>4. CASE ~Idle(buf["FI_MAIN"])
  <2>1. /\ OneFrame(buf["FI_MAIN"]) /\ Watching
        /\ ~Leaves("FO_MAIN") /\ Spare \in Nat /\ Spare > 2
    BY <1>1, <1>4, FrameIs DEF Civil, Orderly
  <2>2. /\ f.e = "EBADMSG" \/ f.e = "found"
        /\ f.e = "found" => /\ Text(f) # <<>>
                            /\ Type(f) \in DOMAIN Response \cup {"none"} \cup (IF Payment THEN {"S1"} ELSE {})
    BY <1>2, <2>1 DEF OneFrame, Text, Type
  <2>3. ~AckOverruns(f) /\ ~EmptyMessage(f) /\ ~MainDone(f) /\ ~BusyFails(f)
    <3>1. ~(Spare < 0)
      BY <2>1
    <3>2. ~BusyFails(f)
      BY <3>1, Zenon DEF BusyFails
    <3> QED BY <2>1, <2>2, <3>2 DEF AckOverruns, EmptyMessage, MainDone, Good
  <2>4. ~Unhandled(f)
    <3> SUFFICES ASSUME Unhandled(f) PROVE FALSE
      OBVIOUS
    <3>1. f.e = "found" /\ Type(f) \in Parseable \ DOMAIN Response
      BY DEF Unhandled, Good
    <3>2. "none" \notin Parseable
      BY DEF Parseable, Response
    <3>3. Type(f) = "S1" /\ Payment
      BY <2>2, <3>1, <3>2
    <3>4. Destination("S1") = "NO_PAYMENT"
      BY DEF Destination
    <3> QED BY <2>1, <3>3, <3>4 DEF Unhandled, Watching
  <2>5. CASE BadLrc(f) \/ BadParse(f)
    BY <1>1, <1>2, <1>4, <2>5, PoliteRefused
  <2>6. CASE Pong(f)
    BY <1>1, <1>2, <1>4, <2>6, PolitePong
  <2>7. CASE Responds(f) \/ PaymentBusy(f)
    BY <1>1, <1>2, <1>4, <2>7, PoliteAnswers
  <2>8. CASE Forwards(f)
    BY <1>1, <1>2, <1>4, <2>8, PoliteForwards
  <2>9. CASE AnswerFails(f)
    <3> DEFINE r == Response[Type(f)]
    <3>1. Type(f) \in DOMAIN Response /\ Answer(f) # <<>>
      BY <2>9 DEF AnswerFails, Local
    <3>2. r \in Answered /\ Answer(f) = Message(r)
      BY <3>1, ResponsesAre DEF Answer
    <3> HIDE DEF r
    <3>3. Len(Answer(f)) = 2
      BY <3>2, SymbolsAre, SaidAre, ShortSeqs DEF Message
    <3>4. ~(Spare < 0) /\ ~(Spare \in 1..Len(Answer(f)))
      BY <2>1, <3>3
    <3>5. Ends("fault")
      BY <2>9, <3>4, Zenon DEF AnswerFails
    <3> QED BY <3>5, Stops DEF Ends
  <2> QED BY <1>1, <2>3, <2>4, <2>5, <2>6, <2>7, <2>8, <2>9
<1> QED BY <1>3, <1>4

\* What was read on MAIN has been processed, unless the connection is closed.
LEMMA PoliteRound == ASSUME EngineInv, Civil, RoundDone PROVE Settles
<1>0. Inner /\ Wiring /\ Calm /\ Watching /\ Connected /\ Phase
  BY DEF EngineInv, Base, Civil, Orderly
<1>1. /\ process' = "up" /\ pc = "process" /\ todo \cap fd = {} /\ pc' = "select" /\ rset' = rset \ fd
      /\ UNCHANGED <<fd, buf, wset, machine, ack, ping, pings_left, armed, alarms>>
      /\ UNCHANGED <<inbox, hungup, owes, jammed>>
  BY DEF RoundDone, At, flags, timers, world, history
<1>2. buf["FI_MAIN"] = Nothing
  BY <1>0, <1>1 DEF Wiring, Connected
<1>3. rset' \subseteq fd
  BY <1>0, <1>1 DEF Watching
<1>4. Calm' /\ Watching' /\ Connected'
  BY <1>0, <1>1, <1>2, <1>3 DEF Calm, Watching, Connected
<1>5. Phase'
  BY <1>0, <1>1, PhaseKept
<1> QED BY <1>1, <1>4, <1>5, GoesOn DEF Orderly

-----------------------------------------------------------------------------
(* The world *)

\* A polite peer sends a request when all before it is settled.
LEMMA PoliteSends == ASSUME EngineInv, Civil, pc = "select", PeerSends PROVE Settles
<1>0. Calm /\ Watching /\ Connected
  BY DEF Civil, Orderly
<1>1. inbox = Nothing /\ owes = Nothing /\ buf["FO_MAIN"] = Nothing /\ ~hungup
  BY DEF PeerSends, Settled, Civil, Nothing
<1>2. PICK q \in Polite : inbox' = Append(inbox, q.bytes)
  BY DEF PeerSends, Civil
<1>3. /\ process' = "up" /\ pc' = "select"
      /\ UNCHANGED <<fd, buf, wset, rset, machine, ack, ping, pings_left, armed, alarms>>
      /\ UNCHANGED <<todo, hungup, owes, jammed>>
  BY DEF PeerSends, io, flags, timers, round
<1>4. Listening /\ ~ping /\ armed = {} /\ buf["FI_MAIN"] = Nothing
  BY <1>1, Resting
<1>5. q.bytes \in Seq(Symbol) /\ (Idle(q.bytes) \/ OneFrame(q.bytes))
  BY RequestsAre, PoliteAssumption
<1>6. inbox' = <<q.bytes>>
  <2>1. Append(Nothing, q.bytes) = <<q.bytes>>
    BY DEF Nothing
  <2> QED BY <1>1, <1>2, <2>1
<1>7. Calm' /\ Watching'
  BY <1>0, <1>3 DEF Calm, Watching
<1>8. Connected'
  BY <1>0, <1>1, <1>3, <1>4 DEF Connected
<1>9. Requested'
  BY <1>3, <1>4, <1>5, <1>6 DEF Requested, Listening
<1> QED BY <1>3, <1>7, <1>8, <1>9, GoesOn DEF Orderly, Phase

\* It says what it owes, one by one.
LEMMA PoliteReplies == ASSUME EngineInv, Civil, pc = "select", PeerReplies PROVE Settles
<1>0. Calm /\ Watching /\ Connected /\ Phase
  BY DEF Civil, Orderly
<1>1. /\ process' = "up" /\ pc' = "select" /\ inbox = Nothing /\ owes # Nothing
      /\ inbox' = <<Head(owes)>> /\ owes' = Tail(owes)
      /\ UNCHANGED <<fd, buf, wset, rset, machine, ack, ping, pings_left, armed, alarms>>
      /\ UNCHANGED <<todo, hungup, jammed>>
  BY DEF PeerReplies, io, flags, timers, round, Nothing
<1>2. Calm' /\ Watching'
  BY <1>0, <1>1 DEF Calm, Watching
<1>3. Connected'
  BY <1>0, <1>1 DEF Connected
<1>4. ASSUME AwaitsAck PROVE Phase'
  <2>1. CASE owes = BothOwed
    <3>1. inbox' = AckOwed /\ owes' = PongOwed
      BY <1>1, <2>1, OwedAre
    <3>2. AwaitsAck'
      BY <1>1, <1>4, <3>1 DEF AwaitsAck
    <3> QED BY <3>2 DEF Phase
  <2>2. CASE owes = AckOwed
    <3>1. inbox' = AckOwed /\ owes' = Nothing
      BY <1>1, <2>2, OwedAre
    <3>2. AwaitsAck'
      BY <1>1, <1>4, <2>2, <3>1, OwedAre DEF AwaitsAck
    <3> QED BY <3>2 DEF Phase
  <2> QED BY <1>1, <1>4, <2>1, <2>2, OwedAre DEF AwaitsAck
<1>5. ASSUME AwaitsPong PROVE Phase'
  <2>1. owes = PongOwed
    BY <1>1, <1>5 DEF AwaitsPong
  <2>2. inbox' = PongOwed /\ owes' = Nothing
    BY <1>1, <2>1, OwedAre
  <2>3. AwaitsPong'
    BY <1>1, <1>5, <2>2 DEF AwaitsPong
  <2> QED BY <2>3 DEF Phase
<1>6. ~Listening /\ ~Requested /\ ~Answering
  BY <1>1 DEF Listening, Requested, Answering
<1>7. Phase'
  BY <1>0, <1>4, <1>5, <1>6 DEF Phase
<1> QED BY <1>1, <1>2, <1>3, <1>7, GoesOn DEF Orderly

\* It hangs up when all is settled.
LEMMA PoliteHangsUp == ASSUME EngineInv, Civil, pc = "select", PeerHangsUp PROVE Settles
<1>0. Calm /\ Watching /\ Connected /\ Phase
  BY DEF Civil, Orderly
<1>1. /\ process' = "up" /\ pc' = "select"
      /\ inbox = Nothing /\ owes = Nothing /\ buf["FO_MAIN"] = Nothing
      /\ UNCHANGED <<fd, buf, wset, rset, machine, ack, ping, pings_left, armed, alarms>>
      /\ UNCHANGED <<todo, inbox, owes, jammed>>
      /\ hungup'
  BY DEF PeerHangsUp, Settled, Civil, io, flags, timers, round, history, Nothing
<1>2. buf["FI_MAIN"] = Nothing
  BY <1>1, Resting
<1>3. Calm' /\ Watching'
  BY <1>0, <1>1 DEF Calm, Watching
<1>4. Connected'
  BY <1>1, <1>2 DEF Connected
<1>5. Phase'
  BY <1>0, <1>1, PhaseKept
<1> QED BY <1>1, <1>3, <1>4, <1>5, GoesOn DEF Orderly

\* What is in front of a sequence is in it, and nothing else is added.
LEMMA ConsIs ==
  ASSUME NEW S, NEW s \in Seq(S), NEW x \in S, NEW y, Contains(Cons(x, s), y)
  PROVE  y = x \/ Contains(s, y)
<1> DEFINE a == <<x>>
           t == a \o s
<1>1. a \in Seq(S) /\ Len(a) = 1 /\ a[1] = x /\ Len(s) \in Nat
  BY ShortSeqs, LenProperties
<1> HIDE DEF a
<1>2. Len(t) = 1 + Len(s) /\ \A i \in 1..(1 + Len(s)) : t[i] = IF i <= 1 THEN a[i] ELSE s[i - 1]
  <2>1. a \in Seq(S) /\ s \in Seq(S)
    BY <1>1
  <2>2. /\ Len(t) = Len(a) + Len(s)
        /\ \A i \in 1..(Len(a) + Len(s)) : t[i] = IF i <= Len(a) THEN a[i] ELSE s[i - Len(a)]
    BY <2>1, ConcatProperties, Zenon
  <2> HIDE DEF t
  <2> QED BY <1>1, <2>2
<1>3. t = Cons(x, s)
  BY DEF Cons, a
<1> HIDE DEF t
<1>4. PICK i \in 1..(1 + Len(s)) : t[i] = y
  BY <1>2, <1>3 DEF Contains
<1>5. CASE i = 1
  BY <1>1, <1>2, <1>4, <1>5
<1>6. CASE i # 1
  <2>1. i - 1 \in 1..Len(s) /\ s[i - 1] = y
    BY <1>1, <1>2, <1>4, <1>6
  <2> QED BY <2>1 DEF Contains
<1> QED BY <1>5, <1>6

\* SIGINT is no timer's signal, and where it is not blocked it ends the process.
LEMMA PoliteInterrupt == ASSUME EngineInv, Civil, Interrupt PROVE Settles
<1>0. Outer /\ Calm /\ Watching /\ Connected /\ Phase
  BY DEF EngineInv, Base, Civil, Orderly
<1> DEFINE r == RemoveFirst(alarms, "SIGINT")
<1>1. /\ UNCHANGED <<fd, buf, wset, rset, machine, ack, ping, pings_left, armed>>
      /\ UNCHANGED <<pc, todo, inbox, hungup, owes, jammed>>
      /\ (alarms' = Cons("SIGINT", r) /\ process' = "up") \/ process' = "killed"
  BY DEF Interrupt, io, flags, history, Civil
<1>2. CASE process' = "killed"
  BY <1>2, Stops
<1>3. CASE alarms' = Cons("SIGINT", r) /\ process' = "up"
  <2>1. "SIGINT" \in Signal
    BY DEF Signal
  <2>2. r \in Seq(Signal) /\ \A x : x # "SIGINT" => (Contains(r, x) <=> Contains(alarms, x))
    BY <1>0, WithoutOne DEF Outer
  <2> HIDE DEF r
  <2>3. \A timer \in {"timer_ack", "timer_ping"} : ~Contains(alarms', timer)
    <3> SUFFICES ASSUME NEW timer \in {"timer_ack", "timer_ping"}, Contains(Cons("SIGINT", r), timer)
                 PROVE  FALSE
      BY <1>3
    <3>1. timer = "SIGINT" \/ Contains(r, timer)
      BY <2>1, <2>2, ConsIs
    <3> QED BY <1>0, <2>2, <3>1 DEF Calm
  <2>4. Calm' /\ Watching' /\ Connected'
    BY <1>0, <1>1, <2>3 DEF Calm, Watching, Connected
  <2>5. Phase'
    BY <1>0, <1>1, PhaseKept
  <2> QED BY <1>3, <2>4, <2>5, GoesOn DEF Orderly
<1> QED BY <1>1, <1>2, <1>3

\* The user's line waits for its read.
LEMMA PoliteTypes == ASSUME EngineInv, Civil, UserTypes PROVE Settles
<1>0. Calm /\ Watching /\ Connected /\ Phase
  BY DEF Civil, Orderly
<1>1. /\ process' = "up"
      /\ UNCHANGED <<fd, buf, wset, rset, machine, ack, ping, pings_left, armed, alarms>>
      /\ UNCHANGED <<pc, todo, inbox, hungup, owes, jammed>>
  BY DEF UserTypes, io, flags, timers, round, history
<1>2. Calm' /\ Watching' /\ Connected'
  BY <1>0, <1>1 DEF Calm, Watching, Connected
<1>3. Phase'
  BY <1>0, <1>1, PhaseKept
<1> QED BY <1>1, <1>2, <1>3, GoesOn DEF Orderly

\* No timer runs out before a polite peer has answered.
LEMMA PoliteWorld == ASSUME EngineInv, Civil, World PROVE Settles
<1>1. CASE pc = "select" /\ PeerSends
  BY <1>1, PoliteSends
<1>2. CASE pc = "select" /\ PeerReplies
  BY <1>2, PoliteReplies
<1>3. CASE pc = "select" /\ PeerHangsUp
  BY <1>3, PoliteHangsUp
<1>4. CASE Interrupt
  BY <1>4, PoliteInterrupt
<1>5. CASE UserTypes
  BY <1>5, PoliteTypes
<1>6. CASE \E timer \in {"timer_ack", "timer_ping"} : TimerExpires(timer)
  BY <1>6 DEF TimerExpires, Civil
<1> QED BY <1>1, <1>2, <1>3, <1>4, <1>5, <1>6 DEF World

-----------------------------------------------------------------------------
(* Every step *)

\* At the start nothing was said.
LEMMA PeerInit == Init => PeerInv
<1> SUFFICES ASSUME Init PROVE PeerInv
  OBVIOUS
<1>1. /\ fd = {"FO_MAIN", "FI_MAIN", "II_SIGNAL"} \cup (IF Payment THEN {"NO_PAYMENT"} ELSE {})
      /\ buf = [c \in Channel |-> Nothing]
      /\ wset = {} /\ rset = {} /\ machine = "main" /\ ack = FALSE /\ ping = FALSE /\ pings_left = 2
      /\ armed = {} /\ alarms = Nothing /\ pc = "select" /\ process = "up"
      /\ inbox = Nothing /\ hungup = FALSE /\ owes = Nothing /\ jammed = FALSE
  BY DEF Init, Nothing
<1>2. /\ buf["CO_MASTER"] = Nothing /\ buf["FO_MAIN"] = Nothing /\ buf["FI_MAIN"] = Nothing /\ buf["II_SIGNAL"] = Nothing
  BY <1>1, Channels DEF Inputs
<1>3. \A x : ~Contains(Nothing, x)
  BY DEF Contains, Nothing
<1>4. Calm
  <2>1. (IF ping THEN 1 ELSE 0) = 0
    BY <1>1, Zenon
  <2>2. pings_left + 0 >= 2
    BY <1>1
  <2>3. pings_left + (IF ping THEN 1 ELSE 0) >= 2
    BY <2>1, <2>2, Zenon
  <2> QED BY <1>1, <1>2, <1>3, <2>3 DEF Calm
<1>5. Watching
  <2>1. Payment => "NO_PAYMENT" \in fd
    BY <1>1
  <2> QED BY <1>1, <2>1 DEF Watching
<1>6. Connected
  BY <1>1, <1>2 DEF Connected
<1>7. Listening
  BY <1>1, <1>2, IdleAre DEF Listening
<1>8. Prompted
  BY <1>1, <1>2 DEF Prompted
<1> QED BY <1>1, <1>4, <1>5, <1>6, <1>7, <1>8 DEF PeerInv, Orderly, Phase

\* After the process has ended, nothing moves.
LEMMA EndedStays ==
  ASSUME process # "up", [Next]_vars
  PROVE  UNCHANGED vars
<1>1. ~Program
  <2>1. ~WaitForIo
    BY DEF WaitForIo, SelectReports, SelectFails, SelectPolls, PingsExhausted, PingImpossible, Pings,
           TimesOut, NothingReady, At
  <2>2. ~PerformPendingIo
    BY DEF PerformPendingIo, PendingWrite, WritesNothing, WritesBeyond, ArmsTwice, ReadSignals,
           ConsoleCloses, OutputRead, ConsoleRead, MainRead, MainEnds, IoDone, Visits, At
  <2>3. ~process_signal /\ ~process_master /\ ~process_main /\ ~RoundDone
    BY DEF process_signal, process_master, process_main, RoundDone, Handles, InMain, At
  <2> QED BY <2>1, <2>2, <2>3 DEF Program
<1>2. ~World
  BY DEF World, PeerSends, PeerReplies, PeerHangsUp, Interrupt, UserTypes, TimerExpires
<1> QED BY <1>1, <1>2 DEF Next

\* A peer keeps its manner and the console its descriptors; SIGINT is not blocked again.
LEMMA MannerStays ==
  ASSUME [Next]_vars
  PROVE  manner' = manner /\ console' = console /\ (sigint' => sigint)
<1> DEFINE Keeps == manner' = manner /\ console' = console /\ sigint' = sigint
<1>1. ASSUME WaitForIo PROVE Keeps
  BY <1>1 DEF WaitForIo, SelectReports, SelectFails, SelectPolls, PingsExhausted, PingImpossible, Pings,
              Ends, world
<1>2. ASSUME PerformPendingIo PROVE Keeps
  BY <1>2 DEF PerformPendingIo, PendingWrite, WritesNothing, WritesBeyond, ArmsTwice, ReadSignals,
              ConsoleCloses, OutputRead, ConsoleRead, MainRead, MainEnds, IoDone, Ends, world
<1>3. ASSUME process_master \/ RoundDone PROVE Keeps
  BY <1>3 DEF process_master, RoundDone, world
<1>4. ASSUME process_main PROVE Keeps
  <2>1. PICK f : AckOverruns(f) \/ BadLrc(f) \/ EmptyMessage(f) \/ BadParse(f) \/ Pong(f) \/ Responds(f)
                 \/ AnswerFails(f) \/ Forwards(f) \/ PaymentBusy(f) \/ BusyFails(f)
                 \/ Unhandled(f) \/ MainDone(f)
    BY <1>4 DEF process_main
  <2> QED BY <2>1 DEF AckOverruns, BadLrc, EmptyMessage, BadParse, Pong, Responds, AnswerFails, Forwards,
                      PaymentBusy, BusyFails, Unhandled, MainDone, Local, round, Ends, world
<1>5. ASSUME World PROVE Keeps
  BY <1>5 DEF World, PeerSends, PeerReplies, PeerHangsUp, Interrupt, UserTypes, TimerExpires, world
<1>6. ASSUME UNCHANGED vars PROVE Keeps
  BY <1>6 DEF vars, world
<1>7. ASSUME process_signal PROVE manner' = manner /\ console' = console /\ (sigint' => sigint)
  <2>1. manner' = manner /\ console' = console /\ sigint' = (sigint /\ ~Interrupted)
    BY <1>7 DEF process_signal, world
  <2> QED BY <2>1, Zenon
<1>8. Keeps => manner' = manner /\ console' = console /\ (sigint' => sigint)
  OBVIOUS
<1> HIDE DEF Keeps
<1> QED BY <1>1, <1>2, <1>3, <1>4, <1>5, <1>6, <1>7, <1>8, Zenon DEF Next, Program

\* What is not touched stays in order.
LEMMA PoliteNothing == ASSUME PeerInv, UNCHANGED vars PROVE PeerInv'
<1>1. /\ UNCHANGED <<fd, buf, wset, rset, machine, ack, ping, pings_left, armed, alarms>>
      /\ UNCHANGED <<pc, todo, process, manner, console, sigint, inbox, hungup, owes, jammed>>
  BY DEF vars, io, flags, timers, round, world, history
<1>2. Calm => Calm'
  BY <1>1 DEF Calm
<1>3. Watching /\ Connected => Watching' /\ Connected'
  BY <1>1 DEF Watching, Connected
<1>4. Phase => Phase'
  BY <1>1, PhaseKept
<1>5. Prompted => Prompted'
  BY <1>1 DEF Prompted
<1> QED BY <1>1, <1>2, <1>3, <1>4, <1>5 DEF PeerInv, Orderly, Separate

\* A line is read when there is no prompt left to write.
LEMMA PromptedKept ==
  ASSUME EngineInv, Civil, Next, process' = "up"
  PROVE  Prompted'
<1>0. Outer /\ Inner /\ Wiring /\ Watched /\ Unopened /\ Prompted /\ ~jammed /\ rset \subseteq fd
  BY DEF EngineInv, Base, Civil, Orderly, Calm, Watching
<1>1. /\ {"II_SIGNAL", "CO_MASTER", "CI_MASTER", "FI_MAIN", "FO_MAIN"} \subseteq Channel
      /\ buf \in [Channel -> Seq(Symbol)] /\ "CO_MASTER" \in Outputs
  BY <1>0, Channels DEF Inputs, Inner
<1>2. ASSUME buf'["CO_MASTER"] \in {buf["CO_MASTER"], Nothing},
             pc' # "process" \/ (pc = "process" /\ todo' \subseteq todo)
      PROVE  Prompted'
  BY <1>0, <1>2 DEF Prompted
<1>3. CASE \/ \E how : process = "up" /\ Ends(how)
           \/ SelectReports \/ ConsoleCloses \/ MainEnds \/ RoundDone
           \/ PeerSends \/ PeerReplies \/ PeerHangsUp \/ UserTypes
           \/ (\E timer \in {"timer_ack", "timer_ping"} : TimerExpires(timer)) \/ Interrupt
  <2>1. buf' = buf /\ (pc' # "process" \/ (pc = "process" /\ todo' \subseteq todo))
    BY <1>3 DEF Ends, SelectReports, ConsoleCloses, MainEnds, RoundDone, PeerSends,
                PeerReplies, PeerHangsUp, UserTypes, TimerExpires, Interrupt, Visits, At, io, round
  <2> QED BY <1>2, <2>1
<1>4. CASE Pings
  <2>1. buf' = [buf EXCEPT !["FO_MAIN"] = @ \o Message("T1")] /\ pc' = "io"
    BY <1>4 DEF Pings, Put
  <2>2. buf'["CO_MASTER"] = buf["CO_MASTER"]
    BY <1>1, <2>1
  <2> QED BY <1>2, <2>1, <2>2
<1>5. CASE \E c \in Outputs : PendingWrite(c)
  <2>1. PICK c \in Outputs : PendingWrite(c)
    BY <1>5
  <2>2. pc' = "io" /\ buf' = [buf EXCEPT ![c] = Nothing]
    BY <2>1 DEF PendingWrite, At, Nothing
  <2>3. buf'["CO_MASTER"] \in {buf["CO_MASTER"], Nothing}
    BY <1>1, <2>2
  <2> QED BY <1>2, <2>2, <2>3
<1>6. CASE ReadSignals
  <2>1. pc' = "io" /\ buf' = [buf EXCEPT !["II_SIGNAL"] = @ \o alarms]
    BY <1>6 DEF ReadSignals, Visits, At, Put
  <2>2. buf'["CO_MASTER"] = buf["CO_MASTER"]
    BY <1>1, <2>1
  <2> QED BY <1>2, <2>1, <2>2
<1>7. CASE MainRead \/ \E c \in {"CO_MASTER", "CI_MASTER"} : ConsoleRead(c)
  <2>1. ~ConsoleRead("CO_MASTER")
    BY OutputsWritten DEF ConsoleRead, Visits
  <2>2. PICK c \in {"CI_MASTER", "FI_MAIN"} : pc' = "io" /\ \E a : Took(c, a)
    <3>1. CASE MainRead
      <4>1. pc' = "io" /\ \E a : Took("FI_MAIN", a)
        BY <3>1 DEF MainRead, Visits, At
      <4> QED BY <4>1
    <3>2. CASE ConsoleRead("CI_MASTER")
      <4>1. pc' = "io" /\ \E a : Took("CI_MASTER", a)
        BY <3>2 DEF ConsoleRead, Visits, At
      <4> QED BY <4>1
    <3> QED BY <1>7, <2>1, <3>1, <3>2
  <2>3. PICK a : Took(c, a)
    BY <2>2
  <2>4. \A d \in Channel : d \notin {c, "FO_MAIN"} => buf'[d] = buf[d]
    BY <2>3, TookFrame
  <2>5. buf'["CO_MASTER"] = buf["CO_MASTER"]
    BY <1>1, <2>4
  <2> QED BY <1>2, <2>2, <2>5
<1>8. CASE IoDone
  <2>1. pc = "io" /\ todo = {} /\ todo' = rset /\ buf' = buf
    BY <1>8 DEF IoDone, At
  <2>2. wset = {}
    BY <2>1 DEF EngineInv, Base, Stage
  <2>3. ASSUME "CI_MASTER" \in rset PROVE buf["CO_MASTER"] = Nothing
    <3>1. "CO_MASTER" \in fd
      BY <1>0, <2>3 DEF Wiring
    <3>2. ~Echoes
      BY <1>0, <2>3 DEF Echoes, Civil, Separate, Unopened
    <3> QED BY <1>0, <1>1, <2>2, <3>1, <3>2 DEF Watched, Nothing
  <2> QED BY <1>0, <2>1, <2>3 DEF Prompted
<1>9. CASE process_signal
  <2>1. /\ pc = "process" /\ todo' \subseteq todo
        /\ buf' = [buf EXCEPT !["II_SIGNAL"] = <<>>,
                              !["CO_MASTER"] = IF Interrupted THEN Append(@, "prompt") ELSE @]
    BY <1>9 DEF process_signal, Handles, At
  <2>2. CASE Interrupted
    <3>1. sigint
      BY <1>0, <2>2 DEF Unopened, Interrupted
    <3>2. "CI_MASTER" \notin todo /\ buf["CO_MASTER"] = <<>>
      BY <1>0, <3>1 DEF Unopened
    <3>3. Append(<<>>, "prompt") = Prompt
      BY DEF Prompt
    <3>4. buf'["CO_MASTER"] = Prompt
      BY <1>1, <2>1, <2>2, <3>2, <3>3
    <3> QED BY <2>1, <3>2, <3>4 DEF Prompted
  <2>3. CASE ~Interrupted
    <3>1. buf'["CO_MASTER"] = buf["CO_MASTER"]
      BY <1>1, <2>1, <2>3
    <3> QED BY <1>2, <2>1, <3>1
  <2> QED BY <2>2, <2>3
<1>10. CASE process_master
  <2>1. /\ pc = "process" /\ todo' = todo \ {"CI_MASTER"} /\ "CI_MASTER" \in todo
        /\ buf' = [buf EXCEPT !["CO_MASTER"] = @ \o Prompt]
    BY <1>10, Handled DEF process_master, Handles, At, Put, Prompt
  <2>2. buf["CO_MASTER"] = Nothing
    BY <1>0, <2>1 DEF Prompted
  <2>3. Nothing \o Prompt = Prompt
    BY SymbolsAre, ShortSeqs, ConcatEmptySeq DEF Nothing, Prompt
  <2>4. buf'["CO_MASTER"] = Prompt
    BY <1>1, <2>1, <2>2, <2>3
  <2> QED BY <2>1, <2>4 DEF Prompted
<1>11. CASE process_main
  <2>1. pc = "process" /\ todo' \subseteq todo /\ buf'["CO_MASTER"] = buf["CO_MASTER"]
    BY <1>11, MainFrame DEF process_main, InMain, At
  <2> QED BY <1>2, <2>1
<1> QED BY <1>3, <1>4, <1>5, <1>6, <1>7, <1>8, <1>9, <1>10, <1>11, StepIs

\* The invariant is inductive, on top of the engine's own.
LEMMA PeerStep == EngineInv /\ PeerInv /\ [Next]_vars => PeerInv'
<1> SUFFICES ASSUME EngineInv, PeerInv, [Next]_vars PROVE PeerInv'
  OBVIOUS
<1>1. CASE process # "up" \/ UNCHANGED vars
  BY <1>1, EndedStays, PoliteNothing
<1>2. CASE ~(manner = "polite" /\ Separate)
  BY <1>2, MannerStays DEF PeerInv, Separate
<1>3. CASE manner = "polite" /\ Separate /\ process = "up" /\ Next
  <2>1. Civil
    BY <1>3 DEF PeerInv, Civil
  <2>2. Settles
    <3>1. CASE WaitForIo
      BY <2>1, <3>1, PoliteWait
    <3>2. CASE PerformPendingIo
      BY <2>1, <3>2, PolitePending
    <3>3. CASE process_signal
      BY <2>1, <3>3, PoliteSignal
    <3>4. CASE process_master
      BY <2>1, <3>4, PoliteMaster
    <3>5. CASE process_main
      BY <2>1, <3>5, PoliteMain
    <3>6. CASE RoundDone
      BY <2>1, <3>6, PoliteRound
    <3>7. CASE World
      BY <2>1, <3>7, PoliteWorld
    <3> QED BY <1>3, <3>1, <3>2, <3>3, <3>4, <3>5, <3>6, <3>7 DEF Next, Program
  <2> QED BY <1>3, <2>1, <2>2, PromptedKept DEF PeerInv, Settles
<1> QED BY <1>1, <1>2, <1>3

\* It holds always.
LEMMA PeerAlways == Spec => []PeerInv
<1>1. Init => PeerInv
  BY PeerInit
<1>2. EngineInv /\ PeerInv /\ [Next]_vars => PeerInv'
  BY PeerStep
<1> QED BY <1>1, <1>2, EngineAlways, PTL DEF Spec

(***************************************************************************)
(* With a peer that has one exchange at a time, acknowledges what it gets  *)
(* and answers pings before a timer runs out, whenever SIGINT comes, and   *)
(* whatever is typed on a console that has a descriptor for each direction *)
(* the program ends by returning from event_loop, by SIGINT, or by the     *)
(* fault of a T4 only: perform_pending_write is never asked to write       *)
(* nothing nor to start a timer that runs, no append goes beyond its array *)
(* nor an assert of free_space or used_space fails, process_main has code  *)
(* for the message, select gets no closed descriptor, and the pings are    *)
(* never used up.                                                          *)
(***************************************************************************)
THEOREM PoliteIsSafe == Spec => []PoliteSafe
<1>1. PeerInv => PoliteSafe
  BY DEF PeerInv, PoliteSafe, Separate
<1> QED BY <1>1, PeerAlways, PTL

=============================================================================
