---------------------------- MODULE EngineProofs ----------------------------
(***************************************************************************)
(* The legacy engine (frob.c), for any peer, settings and size of a        *)
(* channel's buffer: nothing that was appended to an output is forgotten,  *)
(* no closed descriptor is given to select, and the wait for an            *)
(* acknowledge or for the answer to a ping is always bounded by a timer.   *)
(***************************************************************************)
EXTENDS Engine, SequenceLemmas

-----------------------------------------------------------------------------
(* The inductive invariant *)

Signal == {"SIGINT", "timer_ack", "timer_ping"}

\* The types of all but what a round works on.
Outer ==
  /\ timeout \in {"never", "some", "zero"}
  /\ machine \in {"main", "first", "data", "lrc", "final", "error"}
  /\ {ack, ping, sigint, hungup, astray, regular, jammed} \subseteq BOOLEAN
  /\ pings_left \in Nat
  /\ manner \in {"polite", "rude"} /\ console \in {"tty", "shared", "none"}
  /\ armed \subseteq {"timer_ack", "timer_ping"}
  /\ alarms \in Seq(Signal) /\ IsInjective(alarms)
  /\ inbox \in Seq(Seq(Symbol)) /\ owes \in Seq(Seq(Symbol)) /\ lines \in Seq(Seq(Symbol))

\* The types of what a round works on.
Inner ==
  /\ fd \subseteq Channel /\ wset \subseteq Outputs /\ rset \subseteq Inputs
  /\ buf \in [Channel -> Seq(Symbol)] /\ buf["II_SIGNAL"] \in Seq(Signal)
  /\ pc \in {"select", "io", "process"} /\ todo \subseteq Channel

\* The signalfd is never closed, and a connection has both its descriptors or none.
Wiring ==
  /\ "II_SIGNAL" \in fd
  /\ "FI_MAIN" \in fd <=> "FO_MAIN" \in fd
  /\ "CI_MASTER" \in fd <=> "CO_MASTER" \in fd

(***************************************************************************)
(* Where in the round the sets stand: perform_pending_io has yet to visit  *)
(* the outputs that wset has and the inputs that rset has, and no others   *)
(* but a console's output that shares the descriptor of its input; the     *)
(* handlers begin with an empty wset, and process_signal, which alone      *)
(* closes a descriptor then, comes first.                                  *)
(***************************************************************************)
Stage ==
  /\ pc = "io" => /\ wset \subseteq todo /\ todo \cap Inputs \subseteq rset
                  /\ \A c \in todo \cap Outputs :
                       c \in wset \/ (c = "CO_MASTER" /\ console = "shared" /\ "CI_MASTER" \in todo)
                  /\ todo \cap Outputs # {} => rset \subseteq todo
  /\ pc = "process" => todo \subseteq Inputs /\ ("II_SIGNAL" \in todo => wset = {})
  /\ pc # "io" => wset \subseteq fd

\* What was read of the signalfd is there until process_signal, which follows in the round.
Delivered ==
  buf["II_SIGNAL"] # <<>> =>
    \/ pc = "io" /\ "II_SIGNAL" \notin todo /\ "II_SIGNAL" \in rset
    \/ pc = "process" /\ "II_SIGNAL" \in todo

\* A line was read into the console's output: process_master follows in the round.
Echoes == /\ console = "shared"
          /\ \/ pc = "io" /\ "CI_MASTER" \in rset
             \/ pc = "process" /\ "CI_MASTER" \in todo

\* What is in an output's buffer is on its way, in every step of the round.
Watched ==
  ~jammed => \A c \in Outputs \cap fd :
               buf[c] # <<>> => c \in wset \/ (c = "CO_MASTER" /\ Echoes)

Base == Outer /\ Inner /\ Wiring /\ Stage /\ Delivered /\ Watched /\ WaitsGuarded

\* As long as SIGINT is blocked there is no console, and once it is not none waits.
Unopened ==
  /\ sigint => /\ buf["CO_MASTER"] = <<>>
               /\ {"CI_MASTER", "CO_MASTER"} \cap (fd \cup wset \cup rset \cup todo) = {}
  /\ Contains(buf["II_SIGNAL"], "SIGINT") => sigint
  /\ process = "up" /\ Contains(alarms, "SIGINT") => sigint

\* A symbol may follow the last that was room for, an acknowledge in MAIN's buffer.
Ample(u) ==
  /\ Len(u) <= Capacity + 1
  /\ Len(u) > Capacity => Last(u) \in {"ACK", "NAK"}

Bounds ==
  /\ Len(buf["NO_PAYMENT"]) <= Capacity /\ Len(buf["II_SIGNAL"]) <= Capacity
  /\ Len(buf["CI_MASTER"]) <= Capacity
  /\ process # "overrun" => Len(buf["CO_MASTER"]) <= Capacity + 1 /\ Ample(buf["FO_MAIN"])

EngineInv == Base /\ Unopened /\ Bounds

-----------------------------------------------------------------------------
(* The frame machine *)

States == {"main", "first", "data", "lrc", "final", "error"}

\* What the machine is after some bytes.
Scanning(n) == [cs : States, start : 1..(n + 1), end : 0..n, error : BOOLEAN]

\* One byte moves the machine from a state to a state.
LEMMA OneByte ==
  ASSUME NEW bytes, NEW n \in Nat, NEW i \in 1..n, NEW m \in Scanning(n)
  PROVE  Scanned(bytes, m, i) \in Scanning(n)
<1>1. m.cs \in States /\ m.start \in 1..(n + 1) /\ m.end \in 0..n /\ m.error \in BOOLEAN
  BY DEF Scanning
<1>2. CASE m.error \/ m.cs = "error"
  BY <1>2 DEF Scanned
<1>3. CASE ~(m.error \/ m.cs = "error")
  <2> DEFINE cs == Step(m.cs, bytes[i])
             start == IF m.cs = "first" /\ cs = "data" THEN i ELSE m.start
             end == IF cs = "lrc" THEN i ELSE m.end
             error == (m.cs = "lrc" /\ bytes[i] # "ok")
  <2>1. cs \in States
    BY <1>1, <1>3 DEF Step, States
  <2>2. Scanned(bytes, m, i) = [cs |-> cs, start |-> start, end |-> end, error |-> error]
    BY <1>3 DEF Scanned
  <2>3. start \in 1..(n + 1) /\ end \in 0..n
    BY <1>1
  <2>4. error \in BOOLEAN
    OBVIOUS
  <2> HIDE DEF cs, start, end, error
  <2> QED BY <2>1, <2>2, <2>3, <2>4 DEF Scanning
<1> QED BY <1>2, <1>3

\* r is what the machine is before and after each of the bytes.
Run(cs, bytes, r) ==
  /\ r \in [0..Len(bytes) -> Scanning(Len(bytes))]
  /\ r[0] = [cs |-> cs, start |-> 1, end |-> 0, error |-> FALSE]
  /\ \A i \in 1..Len(bytes) : r[i] = Scanned(bytes, r[i - 1], i)

\* The machine goes byte by byte.
LEMMA RunIs ==
  ASSUME NEW S, NEW bytes \in Seq(S), NEW cs \in States
  PROVE  \E r : Run(cs, bytes, r) /\ Exec(cs, bytes) = r[Len(bytes)]
<1> DEFINE n == Len(bytes)
           V == Scanning(n)
           z == [cs |-> cs, start |-> 1, end |-> 0, error |-> FALSE]
           Next1(m, i) == CHOOSE next \in {Scanned(bytes, k, i) : k \in {m}} : TRUE
           Solves(m, f) == f = [i \in 0..m |-> IF i = 0 THEN z ELSE Next1(f[i - 1], i)]
           run == CHOOSE f : Solves(n, f)
           Good1(m) == \E f \in [0..m -> V] : f[0] = z /\ \A i \in 1..m : f[i] = Scanned(bytes, f[i - 1], i)
           Bad == {m \in 0..n : ~Good1(m)}
<1>0. n \in Nat
  BY LenProperties
<1>1. z \in V
  BY <1>0 DEF Scanning, States
<1>2. \A m \in V, i \in 1..n : Scanned(bytes, m, i) \in V
  BY <1>0, OneByte
<1>3. \A m, i : Next1(m, i) = Scanned(bytes, m, i)
  OBVIOUS
<1>4. Exec(cs, bytes) = run[n]
  BY DEF Exec
<1> HIDE DEF n, V, z, Next1, run
<1>5. Bad = {}
  <2> SUFFICES ASSUME Bad # {} PROVE FALSE
    OBVIOUS
  <2>1. Bad \in SUBSET Nat
    BY <1>0
  <2> HIDE DEF Bad
  <2>2. PICK m \in Bad : \A k \in Bad : m <= k
    BY <2>1, LeastNat
  <2>3. m \in 0..n /\ ~Good1(m)
    BY <2>2 DEF Bad
  <2>4. m # 0
    <3> DEFINE f == [i \in 0..0 |-> z]
    <3>1. f \in [0..0 -> V] /\ f[0] = z /\ \A i \in 1..0 : FALSE
      BY <1>1
    <3> HIDE DEF f
    <3>2. Good1(0)
      BY <3>1
    <3> QED BY <2>3, <3>2
  <2>5. m - 1 \in 0..n /\ m - 1 \notin Bad
    BY <1>0, <2>2, <2>3, <2>4
  <2>6. PICK f \in [0..(m - 1) -> V] :
          f[0] = z /\ \A i \in 1..(m - 1) : f[i] = Scanned(bytes, f[i - 1], i)
    BY <2>5 DEF Bad
  <2> DEFINE t == Scanned(bytes, f[m - 1], m)
             g == [i \in 0..m |-> IF i = m THEN t ELSE f[i]]
  <2>7. t \in V
    <3>1. m - 1 \in 0..(m - 1) /\ m \in 1..n
      BY <1>0, <2>3, <2>4
    <3> QED BY <1>2, <3>1
  <2>8. g[m] = t /\ f[m - 1] = g[m - 1]
    <3>1. m \in 0..m /\ m - 1 \in 0..m /\ m - 1 # m
      BY <2>3, <2>4
    <3> HIDE DEF t
    <3> QED BY <3>1
  <2>9. g \in [0..m -> V]
    <3> HIDE DEF t
    <3>1. ASSUME NEW i \in 0..m, i # m PROVE f[i] \in V
      BY <2>3, <2>6, <3>1
    <3> QED BY <2>7, <3>1
  <2>10. g[0] = z
    <3>1. 0 \in 0..m /\ 0 # m
      BY <2>3, <2>4
    <3> HIDE DEF t
    <3> QED BY <2>6, <3>1
  <2>11. ASSUME NEW i \in 1..m PROVE g[i] = Scanned(bytes, g[i - 1], i)
    <3>1. CASE i = m
      BY <2>8, <3>1
    <3>2. CASE i # m
      <4>1. i \in 1..(m - 1) /\ i - 1 \in 0..m /\ i - 1 # m /\ i \in 0..m
        BY <2>3, <3>2
      <4>2. g[i] = f[i] /\ g[i - 1] = f[i - 1]
        <5> HIDE DEF t
        <5> QED BY <3>2, <4>1
      <4> QED BY <2>6, <4>1, <4>2
    <3> QED BY <3>1, <3>2
  <2> HIDE DEF g
  <2>12. Good1(m)
    BY <2>9, <2>10, <2>11
  <2> QED BY <2>3, <2>12
<1>6. PICK f \in [0..n -> V] :
        f[0] = z /\ \A i \in 1..n : f[i] = Scanned(bytes, f[i - 1], i)
  <2>1. n \in 0..n
    BY <1>0
  <2> QED BY <1>5, <2>1
<1>7. Solves(n, f)
  <2>1. \A i \in 0..n : f[i] = IF i = 0 THEN z ELSE Next1(f[i - 1], i)
    <3> TAKE i \in 0..n
    <3>1. CASE i = 0
      BY <1>6, <3>1
    <3>2. CASE i # 0
      <4>1. i \in 1..n
        BY <1>0, <3>2
      <4> QED BY <1>3, <1>6, <3>2, <4>1
    <3> QED BY <3>1, <3>2
  <2> QED BY <2>1
<1>8. Solves(n, run)
  <2> HIDE DEF Solves
  <2> QED BY <1>7 DEF run
<1>9. \A i \in 0..n : run[i] = IF i = 0 THEN z ELSE Next1(run[i - 1], i)
  BY <1>8
<1>10. \A i \in 1..n : run[i] = Scanned(bytes, run[i - 1], i)
  BY <1>0, <1>3, <1>9
<1>11. run[0] = z
  BY <1>0, <1>9
<1> DEFINE Wrong == {i \in 0..n : run[i] \notin V}
<1>12. Wrong = {}
  <2> SUFFICES ASSUME Wrong # {} PROVE FALSE
    OBVIOUS
  <2>1. Wrong \in SUBSET Nat
    BY <1>0
  <2> HIDE DEF Wrong
  <2>2. PICK m \in Wrong : \A k \in Wrong : m <= k
    BY <2>1, LeastNat
  <2>3. m \in 0..n /\ run[m] \notin V
    BY <2>2 DEF Wrong
  <2>4. m # 0
    BY <1>1, <1>11, <2>3
  <2>5. m - 1 \in 0..n /\ m \in 1..n /\ m - 1 \notin Wrong
    BY <1>0, <2>2, <2>3, <2>4
  <2>6. run[m - 1] \in V
    BY <2>5 DEF Wrong
  <2>7. run[m] = Scanned(bytes, run[m - 1], m)
    BY <1>10, <2>5
  <2> QED BY <1>2, <2>3, <2>5, <2>6, <2>7
<1>13. \A i \in 0..n : run[i] \in V
  BY <1>12
<1>14. run \in [0..n -> V]
  <2>1. run = [i \in 0..n |-> IF i = 0 THEN z ELSE Next1(run[i - 1], i)]
    BY <1>8
  <2> HIDE DEF Solves
  <2>2. DOMAIN run = 0..n
    BY <2>1
  <2>3. run = [i \in 0..n |-> run[i]]
    BY <2>1, <2>2
  <2> QED BY <1>13, <2>3
<1>15. Run(cs, bytes, run)
  BY <1>10, <1>11, <1>14 DEF Run, V, n, z
<1> QED BY <1>4, <1>15 DEF n

\* Run over all bytes it ends in one of its states, with end among them.
LEMMA FrameTyped ==
  ASSUME NEW S, NEW bytes \in Seq(S), NEW cs \in States
  PROVE  Exec(cs, bytes) \in Scanning(Len(bytes))
<1>1. PICK r : Run(cs, bytes, r) /\ Exec(cs, bytes) = r[Len(bytes)]
  BY RunIs
<1>2. Len(bytes) \in 0..Len(bytes)
  BY LenProperties
<1> QED BY <1>1, <1>2 DEF Run

\* What frob_frame_process finds lies among the bytes it was given.
LEMMA FoundInside ==
  ASSUME NEW S, NEW bytes \in Seq(S), NEW cs \in States,
         NEW f, f = frob_frame_process(cs, bytes)
  PROVE  /\ f.cs \in States /\ f.end \in 0..Len(bytes) /\ f.start \in Nat \ {0}
         /\ f.e \in {"EAGAIN", "EBADMSG", "found"}
         /\ f.e # "EAGAIN" => f.end # 0
<1> DEFINE m == Exec(cs, bytes)
           n == Len(bytes)
<1>1. m \in Scanning(n) /\ n \in Nat
  BY FrameTyped, LenProperties
<1>2. /\ f.e = (CASE m.end = 0 -> "EAGAIN"
                  [] m.end # 0 /\ m.error -> "EBADMSG"
                  [] m.end # 0 /\ ~m.error /\ m.cs = "final" -> "found"
                  [] OTHER -> "EAGAIN")
      /\ f.cs = m.cs /\ f.start = m.start /\ f.end = m.end
  BY DEF frob_frame_process
<1> HIDE DEF m, n
<1>3. m.cs \in States /\ m.start \in 1..(n + 1) /\ m.end \in 0..n /\ m.error \in BOOLEAN
  BY <1>1 DEF Scanning
<1>4. f.e \in {"EAGAIN", "EBADMSG", "found"} /\ (f.e # "EAGAIN" => f.end # 0)
  BY <1>2, <1>3
<1> QED BY <1>1, <1>2, <1>3, <1>4 DEF n

-----------------------------------------------------------------------------
(* Symbols, signals and channels *)

\* What the program itself puts into a buffer, and what its peer and user send.
LEMMA SymbolsAre ==
  /\ {"stx", "tok", "etx", "ok", "ack", "nak", "char", "lf"} \subseteq Symbol
  /\ {"ACK", "NAK", "prompt", "T1", "T2", "S1", "S2"} \subseteq Symbol
  /\ \A t \in DOMAIN Response : Response[t] \in Symbol
  /\ Signal \subseteq Symbol
<1>1. "T2" = Response["T1"] /\ "T1" \in DOMAIN Response
  BY DEF Response
<1> QED BY <1>1 DEF Symbol, Signal

\* A request is a sequence of symbols.
LEMMA RequestsAre == \A q \in Requests \cup Polite : q.bytes \in Seq(Symbol)
<1> TAKE q \in Requests \cup Polite
<1> DEFINE s == q.bytes
<1>1. s \in Seq(STRING)
  BY RequestsAssumption
<1>2. ToSet(s) \subseteq Symbol
  BY DEF Symbol, Carried
<1> HIDE DEF s
<1>3. Len(s) \in Nat /\ DOMAIN s = 1..Len(s) /\ s \in [1..Len(s) -> STRING]
  BY <1>1, LenProperties
<1>4. \A i \in 1..Len(s) : s[i] \in Symbol
  BY <1>2, <1>3 DEF ToSet
<1>5. s \in [1..Len(s) -> Symbol]
  BY <1>3, <1>4
<1>6. s \in Seq(Symbol)
  BY <1>3, <1>5, SegmentIsSeq
<1> QED BY <1>6 DEF s

\* Short sequences.
LEMMA ShortSeqs ==
  ASSUME NEW S
  PROVE  /\ <<>> \in Seq(S) /\ Len(<<>>) = 0
         /\ \A x \in S : <<x>> \in Seq(S) /\ Len(<<x>>) = 1 /\ <<x>> # <<>> /\ <<x>>[1] = x
         /\ \A x, y \in S : <<x, y>> \in Seq(S) /\ Len(<<x, y>>) = 2 /\ <<x, y>> # <<>>
         /\ \A x, y, z \in S : <<x, y, z>> \in Seq(S) /\ Len(<<x, y, z>>) = 3 /\ <<x, y, z>> # <<>>
OBVIOUS

\* What is appended makes a buffer longer.
LEMMA Appended ==
  ASSUME NEW S, NEW s \in Seq(S), NEW t \in Seq(S)
  PROVE  /\ s \o t \in Seq(S) /\ Len(s \o t) = Len(s) + Len(t)
         /\ Len(s) \in Nat /\ Len(t) \in Nat
         /\ t # <<>> => s \o t # <<>>
         /\ s = <<>> => s \o t = t
BY ConcatProperties, ConcatEqualIffEmpty, ConcatEmptySeq, LenProperties, EmptySeq

\* Channels in the order of enum channel: outputs come first, then the signalfd.
LEMMA FirstIs ==
  ASSUME NEW C, C \subseteq Channel, C # {}
  PROVE  /\ First(C) \in C
         /\ First(C) \in Inputs => C \subseteq Inputs
         /\ First(C) # "II_SIGNAL" /\ C \subseteq Inputs => "II_SIGNAL" \notin C
<1> DEFINE Ahead(i) == Order[i] \in C /\ \A j \in 1..(i - 1) : Order[j] \notin C
<1>0. /\ DOMAIN Order = 1..6
      /\ Order[1] = "NO_PAYMENT" /\ Order[2] = "CO_MASTER" /\ Order[3] = "FO_MAIN"
      /\ Order[4] = "II_SIGNAL" /\ Order[5] = "CI_MASTER" /\ Order[6] = "FI_MAIN"
  BY DEF Order
<1>1. Channel = {Order[i] : i \in 1..6}
  BY <1>0 DEF Channel
<1>2. \E i \in 1..6 : Ahead(i)
  <2>1. \E i \in 1..6 : Order[i] \in C
    BY <1>1
  <2> DEFINE I == {i \in 1..6 : Order[i] \in C}
  <2>2. I \in SUBSET Nat /\ I # {}
    BY <2>1
  <2> HIDE DEF I
  <2>3. PICK i \in I : \A j \in I : i <= j
    BY <2>2, LeastNat
  <2>4. i \in 1..6 /\ Order[i] \in C
    BY <2>3 DEF I
  <2>5. ASSUME NEW j \in 1..(i - 1) PROVE Order[j] \notin C
    <3>1. j \in 1..6 /\ ~(i <= j)
      BY <2>4
    <3> QED BY <2>3, <3>1 DEF I
  <2> QED BY <2>4, <2>5
<1> DEFINE k == CHOOSE i \in 1..6 : Ahead(i)
<1>3. First(C) = Order[k]
  BY <1>0 DEF First
<1>4. k \in 1..6 /\ Ahead(k)
  <2> HIDE DEF Ahead
  <2> QED BY <1>2
<1> HIDE DEF k
<1>5. k <= 3 => First(C) \notin Inputs
  BY <1>0, <1>3, <1>4 DEF Inputs
<1>6. k > 3 => {"NO_PAYMENT", "CO_MASTER", "FO_MAIN"} \cap C = {}
  BY <1>0, <1>4
<1>7. k > 4 => "II_SIGNAL" \notin C
  BY <1>0, <1>4
<1>8. Channel = Inputs \cup {"NO_PAYMENT", "CO_MASTER", "FO_MAIN"}
  <2>1. Channel = {Order[1], Order[2], Order[3], Order[4], Order[5], Order[6]}
    BY <1>1
  <2> QED BY <1>0, <2>1 DEF Inputs
<1>9. k <= 3 \/ k = 4 \/ k > 4
  BY <1>4
<1> QED BY <1>0, <1>3, <1>4, <1>5, <1>6, <1>7, <1>8, <1>9

\* The channels one by one.
LEMMA Channels ==
  /\ Inputs \subseteq Channel /\ Outputs \subseteq Channel /\ Inputs \cap Outputs = {}
  /\ Channel = Inputs \cup Outputs
  /\ Outputs = {"NO_PAYMENT", "CO_MASTER", "FO_MAIN"}
<1>1. Channel = {"NO_PAYMENT", "CO_MASTER", "FO_MAIN", "II_SIGNAL", "CI_MASTER", "FI_MAIN"}
  <2>1. /\ DOMAIN Order = 1..6
        /\ Order[1] = "NO_PAYMENT" /\ Order[2] = "CO_MASTER" /\ Order[3] = "FO_MAIN"
        /\ Order[4] = "II_SIGNAL" /\ Order[5] = "CI_MASTER" /\ Order[6] = "FI_MAIN"
    BY DEF Order
  <2>2. Channel = {Order[1], Order[2], Order[3], Order[4], Order[5], Order[6]}
    BY <2>1 DEF Channel
  <2> QED BY <2>1, <2>2
<1> QED BY <1>1 DEF Inputs, Outputs

-----------------------------------------------------------------------------
(* The start, and steps that only end the process *)

\* At the start nothing is open but what main was given, and all is empty.
LEMMA EngineInit == Init => EngineInv
<1> SUFFICES ASSUME Init PROVE EngineInv
  OBVIOUS
<1> DEFINE e == <<>>
<1>0. \A S : e \in Seq(S) /\ Len(e) = 0
  BY ShortSeqs
<1>1. /\ fd = {"FO_MAIN", "FI_MAIN", "II_SIGNAL"} \cup (IF Payment THEN {"NO_PAYMENT"} ELSE {})
      /\ buf = [c \in Channel |-> e] /\ wset = {} /\ rset = {} /\ alarms = e
      /\ inbox = e /\ owes = e /\ lines = e /\ pc = "select" /\ todo = {} /\ armed = {}
      /\ machine = "main" /\ pings_left = 2 /\ ack = FALSE /\ ping = FALSE
      /\ sigint = TRUE /\ hungup = FALSE /\ astray = FALSE /\ regular = TRUE /\ jammed = FALSE
  BY DEF Init
<1>2. /\ manner \in {"polite", "rude"} /\ timeout \in {"never", "some", "zero"}
      /\ console \in {"tty", "shared", "none"}
  BY SettingsAssumption DEF Init
<1> HIDE DEF e
<1>3. buf \in [Channel -> Seq(Symbol)] /\ \A c \in Channel : buf[c] = e
  BY <1>0, <1>1
<1>4. Inner
  <2>1. fd \subseteq Channel /\ "II_SIGNAL" \in Channel
    BY <1>1, Channels DEF Inputs
  <2> QED BY <1>0, <1>1, <1>3, <2>1 DEF Inner
<1>5. alarms \in Seq(Signal) /\ IsInjective(alarms)
  <2>1. DOMAIN e = 1..0
    BY <1>0, LenProperties
  <2> QED BY <1>0, <1>1, <2>1 DEF IsInjective
<1>6. Outer
  <2>1. machine \in States /\ pings_left \in Nat /\ armed \subseteq {"timer_ack", "timer_ping"}
    BY <1>1 DEF States
  <2>2. {ack, ping, sigint, hungup, astray, regular, jammed} \subseteq BOOLEAN
    BY <1>1
  <2> QED BY <1>0, <1>1, <1>2, <1>5, <2>1, <2>2 DEF Outer, States
<1>7. \A c \in Inputs \cup Outputs : buf[c] = e
  BY <1>3, Channels
<1>8. "II_SIGNAL" \in Inputs /\ "CI_MASTER" \in Inputs
  BY DEF Inputs
<1>9. Wiring /\ Stage /\ Delivered /\ Watched
  <2>1. \A c \in Inputs \cup Outputs : buf[c] = <<>>
    BY <1>7 DEF e
  <2> QED BY <1>1, <1>8, <2>1 DEF Wiring, Stage, Delivered, Watched
<1>10. WaitsGuarded
  BY <1>1 DEF WaitsGuarded
<1>11. \A x : ~Contains(e, x)
  <2>1. Len(e) = 0
    BY <1>0
  <2> QED BY <2>1 DEF Contains
<1>12. Unopened /\ Bounds
  <2>1. {"NO_PAYMENT", "CO_MASTER", "FO_MAIN"} \subseteq Outputs
    BY Channels
  <2>2. Len(e) <= Capacity /\ Len(e) <= Capacity + 1 /\ ~(Len(e) > Capacity)
    BY <1>0, CapacityAssumption
  <2>3. Bounds
    BY <1>7, <1>8, <2>1, <2>2 DEF Bounds, Ample
  <2>4. buf["CO_MASTER"] = <<>> /\ buf["II_SIGNAL"] = e
    BY <1>7, <1>8, <2>1 DEF e
  <2>5. {"CI_MASTER", "CO_MASTER"} \cap (fd \cup wset \cup rset \cup todo) = {}
    BY <1>1
  <2>6. Unopened
    BY <1>1, <1>11, <2>4, <2>5 DEF Unopened
  <2> QED BY <2>3, <2>6
<1> QED BY <1>4, <1>6, <1>9, <1>10, <1>12 DEF EngineInv, Base

\* A process that has ended keeps its state.
LEMMA EndsKeeps ==
  ASSUME EngineInv, NEW how, Ends(how), process = "up"
  PROVE  Base'
<1>1. /\ UNCHANGED <<fd, buf, wset, rset, timeout, machine, ack, ping, pings_left, armed, alarms>>
      /\ UNCHANGED <<sigint, pc, todo, manner, console, inbox, hungup, owes, lines>>
      /\ UNCHANGED <<astray, regular, jammed>>
  BY DEF Ends, io, flags, timers, world, history
<1>2. Outer' /\ Inner'
  BY <1>1 DEF EngineInv, Base, Outer, Inner
<1>3. Wiring' /\ Stage' /\ Delivered' /\ Watched'
  BY <1>1 DEF EngineInv, Base, Wiring, Stage, Delivered, Watched, Echoes
<1>4. WaitsGuarded'
  BY <1>1 DEF EngineInv, Base, WaitsGuarded, OnTheWay
<1> QED BY <1>2, <1>3, <1>4 DEF Base

-----------------------------------------------------------------------------
(* wait_for_io *)

\* What a full pipe changes: without one nothing, with one jammed is set.
LEMMA JamsAre ==
  ASSUME NEW full, Jams(full), Outer
  PROVE  /\ regular' \in BOOLEAN /\ astray' \in BOOLEAN /\ jammed' \in BOOLEAN
         /\ ~jammed' => full = {} /\ ~jammed
<1>1. CASE full = {}
  BY <1>1 DEF Jams, history, Outer
<1>2. CASE full # {}
  BY <1>2 DEF Jams, Forgets, Outer
<1> QED BY <1>1, <1>2

\* select keeps what is ready of what is watched.
LEMMA SelectKeeps == ASSUME EngineInv, SelectReports PROVE Base'
<1>0. Outer /\ Inner /\ Wiring /\ Stage /\ Delivered /\ Watched /\ WaitsGuarded
  BY DEF EngineInv, Base
<1> DEFINE R == Readable
           E == IF console = "shared" /\ "CI_MASTER" \in R THEN {"CO_MASTER"} ELSE {}
<1>1. PICK full \in SUBSET wset :
        Jams(full) /\ wset' = wset \ full /\ todo' = (wset \ full) \cup R \cup E
  BY DEF SelectReports
<1>2. /\ process = "up" /\ pc = "select" /\ rset' = R /\ pc' = "io"
      /\ UNCHANGED <<fd, buf, timeout, machine, ack, ping, pings_left, armed, alarms, sigint, process>>
      /\ UNCHANGED <<manner, console, inbox, hungup, owes, lines>>
  BY DEF SelectReports, At, flags, timers
<1>3. R \subseteq Inputs
  BY DEF Readable
<1> HIDE DEF R
<1>4. E \subseteq Outputs /\ \A c \in E : c = "CO_MASTER" /\ console = "shared" /\ "CI_MASTER" \in R
  BY Channels
<1> HIDE DEF E
<1>5. /\ regular' \in BOOLEAN /\ astray' \in BOOLEAN /\ jammed' \in BOOLEAN
      /\ ~jammed' => full = {} /\ ~jammed
  BY <1>0, <1>1, JamsAre
<1>6. Outer'
  <2>1. {ack, ping, sigint, hungup} \subseteq BOOLEAN
    BY <1>0 DEF Outer
  <2>2. {ack', ping', sigint', hungup', astray', regular', jammed'} \subseteq BOOLEAN
    BY <1>2, <1>5, <2>1
  <2> QED BY <1>0, <1>2, <2>2 DEF Outer
<1>7. Inner'
  BY <1>0, <1>1, <1>2, <1>3, <1>4, Channels DEF Inner
<1>8. Wiring' /\ Delivered'
  BY <1>0, <1>2 DEF Wiring, Delivered
<1>9. Stage'
  <2>1. wset' \subseteq todo' /\ rset' \subseteq todo'
    BY <1>1, <1>2
  <2>2. todo' \cap Inputs \subseteq rset'
    BY <1>0, <1>1, <1>2, <1>4, Channels DEF Inner
  <2>3. \A c \in todo' \cap Outputs :
          c \in wset' \/ (c = "CO_MASTER" /\ console = "shared" /\ "CI_MASTER" \in todo')
    BY <1>1, <1>3, <1>4, Channels
  <2> QED BY <1>2, <2>1, <2>2, <2>3 DEF Stage
<1>10. Watched' /\ WaitsGuarded'
  <2>1. ~Echoes
    BY <1>2 DEF Echoes
  <2> QED BY <1>0, <1>1, <1>2, <1>5, <2>1 DEF Watched, WaitsGuarded, OnTheWay
<1> QED BY <1>6, <1>7, <1>8, <1>9, <1>10 DEF Base

\* The ping goes into MAIN's buffer, which is watched in this round.
LEMMA PingsKeeps == ASSUME EngineInv, Pings PROVE Base'
<1>0. Outer /\ Inner /\ Wiring /\ Stage /\ Delivered /\ Watched /\ WaitsGuarded
  BY DEF EngineInv, Base
<1>1. /\ process = "up" /\ pc = "select" /\ pings_left > 0 /\ "FO_MAIN" \in fd
      /\ Jams(wset)
      /\ pings_left' = pings_left - 1 /\ ping' = TRUE /\ ack' = TRUE
      /\ buf' = [buf EXCEPT !["FO_MAIN"] = @ \o <<"stx", "T1">>]
      /\ wset' = {"FO_MAIN"} /\ rset' = {} /\ todo' = {"FO_MAIN"} /\ pc' = "io"
  BY DEF Pings, TimesOut, NothingReady, At, MayPing, Put, Message, Commission
<1>2. /\ UNCHANGED <<fd, timeout, machine, armed, alarms, sigint, process>>
      /\ UNCHANGED <<manner, console, inbox, hungup, owes, lines>>
  BY DEF Pings, timers
<1>3. /\ regular' \in BOOLEAN /\ astray' \in BOOLEAN /\ jammed' \in BOOLEAN
      /\ ~jammed' => wset = {} /\ ~jammed
  BY <1>0, <1>1, JamsAre
<1> DEFINE t == <<"stx", "T1">>
           b == buf["FO_MAIN"]
<1>4. t \in Seq(Symbol) /\ Len(t) = 2 /\ t # <<>>
  BY SymbolsAre, ShortSeqs
<1>5. b \in Seq(Symbol) /\ buf \in [Channel -> Seq(Symbol)] /\ "FO_MAIN" \in Channel
  BY <1>0, Channels DEF Inner
<1> HIDE DEF t, b
<1> DEFINE u == b \o t
<1>6. u \in Seq(Symbol) /\ Len(u) = Len(b) + Len(t) /\ Len(b) \in Nat /\ u # <<>>
  BY <1>4, <1>5, Appended
<1>7. buf' = [buf EXCEPT !["FO_MAIN"] = u]
  BY <1>1 DEF u, b, t
<1> HIDE DEF u
<1>9. /\ buf'["FO_MAIN"] = u /\ \A c \in Channel : c # "FO_MAIN" => buf'[c] = buf[c]
      /\ buf' \in [Channel -> Seq(Symbol)]
  BY <1>5, <1>6, <1>7
<1>10. Outer'
  <2>1. {sigint, hungup} \subseteq BOOLEAN /\ pings_left \in Nat
    BY <1>0 DEF Outer
  <2>2. {ack', ping', sigint', hungup', astray', regular', jammed'} \subseteq BOOLEAN
    BY <1>1, <1>2, <1>3, <2>1
  <2>3. pings_left' \in Nat
    BY <1>1, <2>1
  <2> QED BY <1>0, <1>2, <2>2, <2>3 DEF Outer
<1>11. "II_SIGNAL" \in Channel /\ "FO_MAIN" \in Outputs /\ "FO_MAIN" \notin Inputs
  BY Channels DEF Inputs
<1>12. Inner'
  BY <1>0, <1>1, <1>2, <1>9, <1>11 DEF Inner
<1>13. Wiring' /\ Stage' /\ Delivered'
  BY <1>0, <1>1, <1>2, <1>9, <1>11 DEF Wiring, Stage, Delivered
<1>14. Watched'
  <2>1. ~Echoes
    BY <1>1 DEF Echoes
  <2> QED BY <1>0, <1>1, <1>2, <1>3, <1>9, <2>1, Channels DEF Watched
<1>15. WaitsGuarded'
  BY <1>6, <1>9 DEF WaitsGuarded
<1> QED BY <1>10, <1>12, <1>13, <1>14, <1>15 DEF Base

\* All of wait_for_io.
LEMMA WaitKeeps == ASSUME EngineInv, WaitForIo PROVE Base'
<1>1. CASE SelectReports
  BY <1>1, SelectKeeps
<1>2. CASE Pings
  BY <1>2, PingsKeeps
<1>3. CASE SelectFails \/ SelectPolls \/ PingsExhausted \/ PingImpossible
  <2>1. process = "up" /\ \E how : Ends(how)
    BY <1>3 DEF SelectFails, SelectPolls, PingsExhausted, PingImpossible, TimesOut, NothingReady, At
  <2> QED BY <2>1, EndsKeeps
<1> QED BY <1>1, <1>2, <1>3 DEF WaitForIo

-----------------------------------------------------------------------------
(* perform_pending_io *)

\* What a polite peer owes for what it got.
LEMMA DebtIs ==
  ASSUME NEW items \in Seq(Symbol)
  PROVE  Debt(items) \in Seq(Seq(Symbol))
<1> DEFINE a == <<"ack">>
           t == <<"stx", "tok", "T2", "etx", "ok">>
           n == Len(items)
           d == [i \in DOMAIN items |->
                   CASE items[i] = "stx" -> <<a>>
                     [] items[i] = "T1"  -> <<t>>
                     [] OTHER            -> <<>>]
           W == Seq(Symbol)
<1>1. a \in W
  BY SymbolsAre, ShortSeqs
<1>2. t \in W
  BY SymbolsAre
<1>3. n \in Nat /\ DOMAIN items = 1..n
  BY LenProperties
<1> HIDE DEF a, t, W, n
<1>4. <<a>> \in Seq(W) /\ <<t>> \in Seq(W) /\ <<>> \in Seq(W)
  BY <1>1, <1>2, ShortSeqs
<1> DEFINE V == Seq(W)
<1> HIDE DEF V
<1>5. <<a>> \in V /\ <<t>> \in V /\ <<>> \in V
  BY <1>4 DEF V
<1>6. d \in [1..n -> V]
  <2>1. \A i \in 1..n : d[i] \in V
    BY <1>3, <1>5
  <2> QED BY <1>3, <2>1
<1>7. Debt(items) = FlattenSeq(d)
  BY DEF Debt, a, t
<1> HIDE DEF d
<1>8. d \in Seq(V)
  BY <1>3, <1>6, SegmentIsSeq
<1> QED BY <1>7, <1>8, FlattenIsSeq DEF V, W

\* The history stays Boolean.
LEMMA DeliversAre ==
  ASSUME NEW c, Delivers(c), astray \in BOOLEAN
  PROVE  astray' \in BOOLEAN
BY DEF Delivers

\* After a write a timer runs for what is missing.
LEMMA WriteKeeps ==
  ASSUME EngineInv, NEW c \in Outputs, PendingWrite(c)
  PROVE  Base'
<1>0. Outer /\ Inner /\ Wiring /\ Stage /\ Delivered /\ Watched /\ WaitsGuarded
  BY DEF EngineInv, Base
<1>1. /\ process = "up" /\ pc = "io" /\ c \in todo /\ c \in wset
      /\ todo' = IF c = "CO_MASTER" /\ TtyReadable THEN todo ELSE todo \ {c}
      /\ armed' = armed \cup (IF c = "FO_MAIN" THEN Guards ELSE {})
      /\ buf' = [buf EXCEPT ![c] = <<>>] /\ wset' = wset \ {c} /\ Delivers(c)
      /\ owes' = IF c = "FO_MAIN" /\ manner = "polite" THEN owes \o Debt(buf[c]) ELSE owes
  <2>1. todo # {} /\ c = First(todo)
    BY DEF PendingWrite
  <2>2. todo \subseteq Channel
    BY <1>0 DEF Inner
  <2>3. c \in todo
    BY <2>1, <2>2, FirstIs
  <2> QED BY <2>3 DEF PendingWrite, At, Arms
<1>2. /\ UNCHANGED <<fd, rset, timeout, machine, ack, ping, pings_left, alarms, sigint, pc, process>>
      /\ UNCHANGED <<manner, console, inbox, hungup, lines, regular, jammed>>
  BY DEF PendingWrite, flags
<1>3. c \in Channel /\ c # "II_SIGNAL" /\ "II_SIGNAL" \in Channel /\ "FO_MAIN" \in Channel
  BY Channels DEF Inputs
<1> DEFINE e == <<>>
<1>4. e \in Seq(Symbol) /\ Len(e) = 0 /\ e = <<>>
  BY ShortSeqs
<1>5. buf' = [buf EXCEPT ![c] = e]
  BY <1>1
<1> HIDE DEF e
<1>6. /\ buf' \in [Channel -> Seq(Symbol)] /\ buf'[c] = e
      /\ \A d \in Channel : d # c => buf'[d] = buf[d]
  BY <1>0, <1>3, <1>4, <1>5 DEF Inner
<1>7. owes' \in Seq(Seq(Symbol))
  <2>1. owes \in Seq(Seq(Symbol)) /\ buf[c] \in Seq(Symbol)
    BY <1>0, <1>3 DEF Outer, Inner
  <2>2. Debt(buf[c]) \in Seq(Seq(Symbol))
    BY <2>1, DebtIs
  <2>3. owes \o Debt(buf[c]) \in Seq(Seq(Symbol))
    BY <2>1, <2>2, Appended
  <2> QED BY <1>1, <2>1, <2>3
<1>8. Outer'
  <2>1. /\ {ack, ping, sigint, hungup, regular, jammed} \subseteq BOOLEAN
        /\ astray \in BOOLEAN
    BY <1>0 DEF Outer
  <2>2. astray' \in BOOLEAN
    BY <1>1, <2>1, DeliversAre
  <2>3. {ack', ping', sigint', hungup', astray', regular', jammed'} \subseteq BOOLEAN
    BY <1>2, <2>1, <2>2
  <2>4. armed' \subseteq {"timer_ack", "timer_ping"}
    BY <1>0, <1>1 DEF Outer, Guards
  <2> QED BY <1>0, <1>2, <1>7, <2>3, <2>4 DEF Outer
<1>9. Inner'
  <2>1. todo' \subseteq Channel
    BY <1>0, <1>1 DEF Inner
  <2> QED BY <1>0, <1>1, <1>2, <1>3, <1>6, <2>1 DEF Inner
<1>10. Wiring' /\ Stage' /\ Delivered'
  <2>1. c \notin Inputs /\ "II_SIGNAL" \in Inputs /\ "CI_MASTER" \in Inputs /\ "CO_MASTER" # "CI_MASTER"
    BY Channels DEF Inputs
  <2>2. rset \subseteq todo /\ rset \subseteq Inputs
    BY <1>0, <1>1 DEF Stage, Inner
  <2>3. Wiring' /\ Delivered'
    BY <1>0, <1>1, <1>2, <1>3, <1>6, <2>1 DEF Wiring, Delivered
  <2>4. CASE c = "CO_MASTER" /\ TtyReadable
    <3>1. todo' = todo /\ console = "shared" /\ "CI_MASTER" \in todo
      BY <1>1, <2>2, <2>4 DEF TtyReadable
    <3> QED BY <1>0, <1>1, <1>2, <2>2, <2>3, <2>4, <3>1 DEF Stage
  <2>5. CASE ~(c = "CO_MASTER" /\ TtyReadable)
    <3>1. todo' = todo \ {c}
      BY <1>1, <2>5
    <3>2. rset' \subseteq todo'
      BY <1>2, <2>1, <2>2, <3>1
    <3>3. \A d \in todo' \cap Outputs :
            d \in wset' \/ (d = "CO_MASTER" /\ console = "shared" /\ "CI_MASTER" \in todo')
      BY <1>0, <1>1, <2>1, <3>1 DEF Stage
    <3> QED BY <1>0, <1>1, <1>2, <2>3, <3>1, <3>2, <3>3 DEF Stage
  <2> QED BY <2>4, <2>5
<1>11. Watched'
  <2>1. Echoes => Echoes'
    BY <1>1, <1>2 DEF Echoes
  <2> QED BY <1>0, <1>1, <1>2, <1>3, <1>4, <1>6, <2>1, Channels DEF Watched
<1>12. WaitsGuarded'
  <2>1. CASE c = "FO_MAIN"
    BY <1>1, <1>2, <2>1 DEF WaitsGuarded, OnTheWay, Guards
  <2>2. CASE c # "FO_MAIN"
    <3>1. buf'["FO_MAIN"] = buf["FO_MAIN"] /\ buf'["II_SIGNAL"] = buf["II_SIGNAL"]
      BY <1>3, <1>6, <2>2
    <3> QED BY <1>0, <1>1, <1>2, <2>2, <3>1 DEF WaitsGuarded, OnTheWay
  <2> QED BY <2>1, <2>2
<1> QED BY <1>8, <1>9, <1>10, <1>11, <1>12 DEF Base

\* There are no more than three signals.
LEMMA FewSignals ==
  ASSUME NEW s \in Seq(Signal), IsInjective(s)
  PROVE  Len(s) <= 3
<1> DEFINE n == Len(s)
<1>1. n \in Nat /\ DOMAIN s = 1..n /\ \A i \in 1..n : s[i] \in Signal
  BY LenProperties, ElementOfSeq
<1> HIDE DEF n
<1>2. ASSUME n > 3 PROVE FALSE
  <2>1. 1 \in 1..n /\ 2 \in 1..n /\ 3 \in 1..n /\ 4 \in 1..n
    BY <1>1, <1>2
  <2>2. /\ s[1] # s[2] /\ s[1] # s[3] /\ s[1] # s[4] /\ s[2] # s[3] /\ s[2] # s[4] /\ s[3] # s[4]
    BY <1>1, <2>1 DEF IsInjective
  <2> QED BY <1>1, <2>1, <2>2 DEF Signal
<1> QED BY <1>1, <1>2 DEF n

\* The signals go into their buffer, which was empty.
LEMMA SignalsKeep == ASSUME EngineInv, ReadSignals PROVE Base'
<1>0. Outer /\ Inner /\ Wiring /\ Stage /\ Delivered /\ Watched /\ WaitsGuarded
  BY DEF EngineInv, Base
<1>1. /\ process = "up" /\ pc = "io" /\ "II_SIGNAL" \in todo /\ todo' = todo \ {"II_SIGNAL"}
      /\ buf' = [buf EXCEPT !["II_SIGNAL"] = @ \o alarms] /\ alarms' = <<>>
      /\ todo \cap Outputs = {}
  <2>1. todo # {} /\ "II_SIGNAL" = First(todo)
    BY DEF ReadSignals, Visits
  <2>2. todo \subseteq Channel
    BY <1>0 DEF Inner
  <2>3. "II_SIGNAL" \in todo /\ todo \subseteq Inputs
    BY <2>1, <2>2, FirstIs DEF Inputs
  <2>4. todo \cap Outputs = {}
    BY <2>3, Channels
  <2> QED BY <2>3, <2>4 DEF ReadSignals, Visits, At, Put
<1>2. /\ UNCHANGED <<fd, wset, rset, timeout, machine, ack, ping, pings_left, armed, sigint, pc, process>>
      /\ UNCHANGED <<manner, console, inbox, hungup, owes, lines, astray, regular, jammed>>
  BY DEF ReadSignals, flags, world, history
<1> DEFINE e == <<>>
           u == buf["II_SIGNAL"] \o alarms
<1>3. e \in Seq(Signal) /\ Len(e) = 0 /\ e = <<>>
  BY ShortSeqs
<1>4. buf["II_SIGNAL"] = e /\ alarms' = e
  BY <1>0, <1>1 DEF Delivered
<1>5. alarms \in Seq(Signal) /\ IsInjective(alarms)
  BY <1>0 DEF Outer
<1>6. u = alarms /\ u \in Seq(Signal)
  BY <1>3, <1>4, <1>5, Appended
<1>7. u \in Seq(Symbol)
  <2>1. Signal \subseteq Symbol
    BY SymbolsAre
  <2> QED BY <1>5, <1>6, <2>1, SeqMonotonic
<1>8. buf' = [buf EXCEPT !["II_SIGNAL"] = u]
  BY <1>1
<1> HIDE DEF e, u
<1>9. /\ "II_SIGNAL" \in Channel /\ "FO_MAIN" \in Channel /\ "II_SIGNAL" \notin Outputs
      /\ "II_SIGNAL" \in Inputs /\ "FO_MAIN" \notin Inputs
  BY Channels DEF Inputs
<1>10. /\ buf' \in [Channel -> Seq(Symbol)] /\ buf'["II_SIGNAL"] = alarms
       /\ \A d \in Channel : d # "II_SIGNAL" => buf'[d] = buf[d]
  BY <1>0, <1>6, <1>7, <1>8, <1>9 DEF Inner
<1>11. Outer'
  <2>1. e \in Seq(Signal) /\ IsInjective(e)
    <3>1. DOMAIN e = 1..0
      BY <1>3, LenProperties
    <3> QED BY <1>3, <3>1 DEF IsInjective
  <2> QED BY <1>0, <1>2, <1>4, <2>1 DEF Outer
<1>12. Inner'
  BY <1>0, <1>1, <1>2, <1>5, <1>10 DEF Inner
<1>13. Wiring' /\ Stage'
  BY <1>0, <1>1, <1>2, <1>9 DEF Inner, Wiring, Stage
<1>14. Watched'
  <2>1. Echoes => Echoes'
    BY <1>1, <1>2 DEF Echoes
  <2> QED BY <1>0, <1>2, <1>9, <1>10, <2>1, Channels DEF Watched
<1>15. Delivered'
  BY <1>0, <1>1, <1>2, <1>9 DEF Stage, Delivered
<1>16. WaitsGuarded'
  <2>1. buf'["FO_MAIN"] = buf["FO_MAIN"] /\ buf'["II_SIGNAL"] = alarms
    BY <1>9, <1>10
  <2>2. \A timer : OnTheWay(timer) => OnTheWay(timer)'
    <3>1. \A timer : ~Contains(buf["II_SIGNAL"], timer)
      BY <1>3, <1>4 DEF Contains
    <3> QED BY <1>2, <2>1, <3>1 DEF OnTheWay
  <2> QED BY <1>0, <1>2, <2>1, <2>2 DEF WaitsGuarded
<1> QED BY <1>11, <1>12, <1>13, <1>14, <1>15, <1>16 DEF Base

\* An input is visited when the outputs are done, so that nothing waits to be written.
LEMMA InputVisited ==
  ASSUME EngineInv, NEW c \in Inputs, Visits(c)
  PROVE  /\ process = "up" /\ pc = "io" /\ c \in todo /\ todo' = todo \ {c} /\ wset = {}
         /\ ~jammed => \A d \in Outputs \cap fd : buf[d] = <<>> \/ (d = "CO_MASTER" /\ Echoes)
<1>0. Inner /\ Stage /\ Watched
  BY DEF EngineInv, Base
<1>1. process = "up" /\ pc = "io" /\ todo # {} /\ c = First(todo) /\ todo' = todo \ {c}
  BY DEF Visits, At
<1>2. todo \subseteq Channel /\ wset \subseteq Outputs
  BY <1>0 DEF Inner
<1>3. c \in todo /\ todo \subseteq Inputs
  BY <1>1, <1>2, FirstIs
<1>4. wset = {}
  BY <1>0, <1>1, <1>2, <1>3, Channels DEF Stage
<1> QED BY <1>0, <1>1, <1>3, <1>4 DEF Watched

\* What a read does to the buffers and to the acknowledge.
LEMMA TookIs ==
  ASSUME Outer, Inner, NEW c \in {"CO_MASTER", "CI_MASTER", "FI_MAIN"},
         NEW bytes \in Seq(Symbol), Took(c, bytes)
  PROVE  /\ buf' \in [Channel -> Seq(Symbol)]
         /\ \A d \in Channel : d \notin {c, "FO_MAIN"} => buf'[d] = buf[d]
         /\ buf'["FO_MAIN"] = buf["FO_MAIN"] \/ buf'["FO_MAIN"] = <<>>
         /\ Len(buf'[c]) = Len(buf[c]) + Len(bytes)
         /\ ack' \in BOOLEAN /\ armed' \subseteq armed
         /\ alarms' \in Seq(Signal) /\ IsInjective(alarms')
         /\ ack' => ack /\ UNCHANGED <<alarms, armed>> /\ buf'["FO_MAIN"] = buf["FO_MAIN"]
         /\ "timer_ping" \in armed => "timer_ping" \in armed'
         /\ Contains(alarms, "timer_ping") => Contains(alarms', "timer_ping")
<1> DEFINE u == buf[c] \o bytes
           e == <<>>
<1>1. /\ c \in Channel /\ "FO_MAIN" \in Channel /\ c # "FO_MAIN" /\ c # "II_SIGNAL"
  BY Channels DEF Inputs
<1>2. buf \in [Channel -> Seq(Symbol)] /\ buf[c] \in Seq(Symbol)
  BY <1>1 DEF Inner
<1>3. u \in Seq(Symbol) /\ Len(u) = Len(buf[c]) + Len(bytes) /\ Len(buf[c]) \in Nat /\ Len(bytes) \in Nat
  BY <1>2, Appended
<1>4. e \in Seq(Symbol)
  BY ShortSeqs
<1>6. ack \in BOOLEAN /\ alarms \in Seq(Signal) /\ IsInjective(alarms)
  BY DEF Outer
<1>7. CASE ack /\ Head(bytes) \in {"ack", "nak"}
  <2>1. /\ ack' = FALSE /\ buf' = [buf EXCEPT ![c] = u, !["FO_MAIN"] = e]
        /\ armed' = armed \ {"timer_ack"}
        /\ alarms' \in {alarms, RemoveFirst(alarms, "timer_ack")}
    BY <1>7 DEF Took, Acknowledged, Disarm
  <2> HIDE DEF u, e
  <2>2. /\ buf' \in [Channel -> Seq(Symbol)] /\ buf'[c] = u /\ buf'["FO_MAIN"] = e
        /\ \A d \in Channel : d \notin {c, "FO_MAIN"} => buf'[d] = buf[d]
    BY <1>1, <1>2, <1>3, <1>4, <2>1
  <2>3. Len(buf'[c]) = Len(buf[c]) + Len(bytes)
    BY <1>3, <2>2
  <2>4. /\ alarms' \in Seq(Signal) /\ IsInjective(alarms')
        /\ Contains(alarms, "timer_ping") => Contains(alarms', "timer_ping")
    <3>1. CASE alarms' = alarms
      BY <1>6, <3>1
    <3>2. CASE alarms' = RemoveFirst(alarms, "timer_ack")
      BY <1>6, <3>2, WithoutOne
    <3> QED BY <2>1, <3>1, <3>2
  <2> QED BY <2>1, <2>2, <2>3, <2>4 DEF e
<1>8. CASE ~(ack /\ Head(bytes) \in {"ack", "nak"})
  <2>1. buf' = [buf EXCEPT ![c] = u] /\ UNCHANGED <<ack, armed, alarms>>
    BY <1>8 DEF Took, Put, timers
  <2> HIDE DEF u, e
  <2>2. /\ buf' \in [Channel -> Seq(Symbol)] /\ buf'[c] = u
        /\ \A d \in Channel : d # c => buf'[d] = buf[d]
    BY <1>1, <1>2, <1>3, <2>1
  <2>3. Len(buf'[c]) = Len(buf[c]) + Len(bytes)
    BY <1>3, <2>2
  <2> QED BY <1>1, <1>6, <2>1, <2>2, <2>3
<1> QED BY <1>7, <1>8

\* A read of an input with all that stays as it is.
LEMMA ReadKeeps ==
  ASSUME EngineInv, NEW c \in {"CI_MASTER", "FI_MAIN"}, NEW bytes \in Seq(Symbol),
         Visits(c), Took(c, bytes),
         UNCHANGED <<fd, wset, rset, timeout, machine, ping, pings_left, sigint, pc, process>>,
         UNCHANGED <<manner, console, hungup, owes, jammed>>,
         inbox' \in Seq(Seq(Symbol)), lines' \in Seq(Seq(Symbol)),
         regular' \in BOOLEAN, astray' \in BOOLEAN
  PROVE  Base'
<1>0. Outer /\ Inner /\ Wiring /\ Stage /\ Delivered /\ Watched /\ WaitsGuarded
  BY DEF EngineInv, Base
<1>1. c \in Inputs /\ c # "FO_MAIN" /\ c # "II_SIGNAL" /\ "II_SIGNAL" \in Channel /\ "FO_MAIN" \in Outputs
  BY Channels DEF Inputs
<1>2. /\ process = "up" /\ pc = "io" /\ c \in todo /\ todo' = todo \ {c} /\ wset = {}
      /\ ~jammed => \A d \in Outputs \cap fd : buf[d] = <<>> \/ (d = "CO_MASTER" /\ Echoes)
  BY <1>1, InputVisited
<1>3. /\ buf' \in [Channel -> Seq(Symbol)]
      /\ \A d \in Channel : d \notin {c, "FO_MAIN"} => buf'[d] = buf[d]
      /\ buf'["FO_MAIN"] = buf["FO_MAIN"] \/ buf'["FO_MAIN"] = <<>>
      /\ ack' \in BOOLEAN /\ armed' \subseteq armed
      /\ alarms' \in Seq(Signal) /\ IsInjective(alarms')
      /\ ack' => ack /\ UNCHANGED <<alarms, armed>> /\ buf'["FO_MAIN"] = buf["FO_MAIN"]
      /\ "timer_ping" \in armed => "timer_ping" \in armed'
      /\ Contains(alarms, "timer_ping") => Contains(alarms', "timer_ping")
  BY <1>0, TookIs
<1>4. Outer'
  <2>1. {ping, sigint, hungup, jammed} \subseteq BOOLEAN
    BY <1>0 DEF Outer
  <2>2. {ack', ping', sigint', hungup', astray', regular', jammed'} \subseteq BOOLEAN
    BY <1>3, <2>1
  <2> QED BY <1>0, <1>3, <2>2 DEF Outer
<1>5. buf'["II_SIGNAL"] = buf["II_SIGNAL"]
  BY <1>1, <1>3
<1>6. Inner'
  BY <1>0, <1>2, <1>3, <1>5 DEF Inner
<1>7. Wiring' /\ Delivered'
  BY <1>0, <1>2, <1>5 DEF Wiring, Delivered
<1>10. Stage'
  <2>1. todo \cap Outputs = {}
    <3>1. todo # {} /\ c = First(todo) /\ todo \subseteq Channel
      BY <1>0 DEF Visits, Inner
    <3>2. todo \subseteq Inputs
      BY <1>1, <3>1, FirstIs
    <3> QED BY <3>2, Channels
  <2> QED BY <1>0, <1>2, <2>1 DEF Stage
<1>8. Watched'
  <2>1. Echoes => Echoes'
    BY <1>2 DEF Echoes
  <2>2. ASSUME ~jammed, NEW d \in Outputs \cap fd
        PROVE  buf'[d] = <<>> \/ (d = "CO_MASTER" /\ Echoes)
    <3>1. d \in Channel /\ d # c
      BY <1>1, Channels
    <3> QED BY <1>2, <1>3, <2>2, <3>1
  <2> QED BY <2>1, <2>2 DEF Watched
<1>9. WaitsGuarded'
  <2>1. ASSUME "FO_MAIN" \in fd, ~jammed
        PROVE  (ack' => OnTheWay("timer_ack")') /\ (ping => OnTheWay("timer_ping")')
    <3>1. buf["FO_MAIN"] = <<>>
      BY <1>1, <1>2, <2>1
    <3>2. (ack => OnTheWay("timer_ack")) /\ (ping => OnTheWay("timer_ping"))
      BY <1>0, <1>2, <2>1, <3>1 DEF WaitsGuarded
    <3> QED BY <1>2, <1>3, <1>5, <3>2 DEF OnTheWay
  <2> QED BY <2>1 DEF WaitsGuarded
<1> QED BY <1>4, <1>6, <1>7, <1>8, <1>9, <1>10 DEF Base

\* What fits of a line is a sequence of what the lines are made of, and so is what is left of it.
LEMMA LineRead ==
  ASSUME EngineInv, NEW c \in {"CO_MASTER", "CI_MASTER"}, ConsoleRead(c),
         NEW S, lines \in Seq(Seq(S))
  PROVE  \E a \in Seq(S) : /\ Visits(c) /\ Took(c, a)
                           /\ Len(a) <= Free(c)
                           /\ lines' \in Seq(Seq(S))
<1>0. Inner
  BY DEF EngineInv, Base
<1> DEFINE line == Head(lines)
           free == Free(c)
           room == IF Len(line) < free THEN Len(line) ELSE free
           a == SubSeq(line, 1, room)
           b == SubSeq(line, room + 1, Len(line))
<1>1. /\ Visits(c) /\ Took(c, a) /\ lines # <<>> /\ free > 0
      /\ lines' = IF room = Len(line) THEN Tail(lines) ELSE <<b>> \o Tail(lines)
  BY DEF ConsoleRead
<1>3. c \in Channel
  BY Channels DEF Inputs
<1>6. line \in Seq(S) /\ Tail(lines) \in Seq(Seq(S))
  BY <1>1, HeadTailProperties
<1>7. Len(line) \in Nat /\ free \in Nat
  <2>1. Len(line) \in Nat
    BY <1>6, LenProperties
  <2>2. Len(buf[c]) \in Nat
    <3>1. buf[c] \in Seq(Symbol)
      BY <1>0, <1>3 DEF Inner
    <3> QED BY <3>1, LenProperties
  <2>3. free = Capacity - Len(buf[c])
    BY DEF Free
  <2> HIDE DEF line, free
  <2> QED BY <1>1, <2>1, <2>2, <2>3, CapacityAssumption
<1> HIDE DEF line, free
<1>8. room \in 0..Len(line) /\ room <= free /\ Len(line) \in 0..Len(line) /\ room + 1 \in Nat \ {0}
  BY <1>7
<1> HIDE DEF room
<1>9. a \in Seq(S) /\ b \in Seq(S) /\ Len(a) = room
  BY <1>6, <1>8, CutInTwo
<1> HIDE DEF a, b
<1>10. lines' \in Seq(Seq(S))
  <2>1. <<b>> \in Seq(Seq(S))
    BY <1>9, ShortSeqs
  <2>2. <<b>> \o Tail(lines) \in Seq(Seq(S))
    BY <1>6, <2>1, Appended
  <2> QED BY <1>1, <1>6, <2>2
<1>11. Len(a) <= Free(c)
  BY <1>8, <1>9 DEF free
<1> QED BY <1>1, <1>9, <1>10, <1>11

\* They are made of symbols.
LEMMA ConsoleReadIs ==
  ASSUME EngineInv, NEW c \in {"CO_MASTER", "CI_MASTER"}, ConsoleRead(c)
  PROVE  \E a \in Seq(Symbol) : /\ Visits(c) /\ Took(c, a)
                               /\ Len(a) <= Free(c)
                               /\ lines' \in Seq(Seq(Symbol))
<1>1. lines \in Seq(Seq(Symbol))
  BY DEF EngineInv, Base, Outer
<1> QED BY <1>1, LineRead, Zenon

\* The console's output is read when it shares the descriptor of the input, still to be read.
LEMMA SharedIs ==
  ASSUME EngineInv, Visits("CO_MASTER"), "CO_MASTER" \notin wset
  PROVE  /\ process = "up" /\ pc = "io" /\ "CO_MASTER" \in todo /\ todo' = todo \ {"CO_MASTER"}
         /\ Echoes /\ "CI_MASTER" \in todo
<1>0. Inner /\ Stage
  BY DEF EngineInv, Base
<1>1. /\ process = "up" /\ pc = "io" /\ todo # {} /\ "CO_MASTER" = First(todo)
      /\ todo' = todo \ {"CO_MASTER"}
  BY DEF Visits, At
<1>2. "CO_MASTER" \in todo
  BY <1>0, <1>1, FirstIs DEF Inner
<1>3. console = "shared" /\ "CI_MASTER" \in todo
  <2>1. "CO_MASTER" \in Outputs
    BY Channels
  <2> QED BY <1>0, <1>1, <1>2, <2>1 DEF Stage
<1>4. "CI_MASTER" \in rset
  <2>1. "CI_MASTER" \in Inputs
    BY DEF Inputs
  <2> QED BY <1>0, <1>1, <1>3, <2>1 DEF Stage
<1> QED BY <1>1, <1>2, <1>3, <1>4 DEF Echoes

\* A line for the console's output: a bit of MAIN stays set, whatever becomes of its buffer.
LEMMA EchoKeeps == ASSUME EngineInv, ConsoleRead("CO_MASTER") PROVE Base'
<1>0. Outer /\ Inner /\ Wiring /\ Stage /\ Delivered /\ Watched /\ WaitsGuarded
  BY DEF EngineInv, Base
<1> DEFINE c == "CO_MASTER"
<1>1. PICK a \in Seq(Symbol) : Visits(c) /\ Took(c, a) /\ lines' \in Seq(Seq(Symbol))
  BY ConsoleReadIs
<1>2. /\ UNCHANGED <<fd, wset, rset, timeout, machine, ping, pings_left, sigint, pc, process>>
      /\ UNCHANGED <<manner, console, inbox, hungup, owes, astray, regular, jammed>>
      /\ c \notin wset
  BY DEF ConsoleRead, history
<1>3. /\ process = "up" /\ pc = "io" /\ c \in todo /\ todo' = todo \ {c}
      /\ Echoes /\ "CI_MASTER" \in todo
  BY <1>1, <1>2, SharedIs
<1>4. /\ buf' \in [Channel -> Seq(Symbol)]
      /\ \A d \in Channel : d \notin {c, "FO_MAIN"} => buf'[d] = buf[d]
      /\ buf'["FO_MAIN"] = buf["FO_MAIN"] \/ buf'["FO_MAIN"] = <<>>
      /\ ack' \in BOOLEAN /\ armed' \subseteq armed
      /\ alarms' \in Seq(Signal) /\ IsInjective(alarms')
      /\ ack' => ack /\ UNCHANGED <<alarms, armed>> /\ buf'["FO_MAIN"] = buf["FO_MAIN"]
      /\ "timer_ping" \in armed => "timer_ping" \in armed'
      /\ Contains(alarms, "timer_ping") => Contains(alarms', "timer_ping")
  BY <1>0, <1>1, TookIs
<1>5. /\ Inputs = {"II_SIGNAL", "CI_MASTER", "FI_MAIN"}
      /\ Outputs = {"NO_PAYMENT", "CO_MASTER", "FO_MAIN"} /\ Channel = Inputs \cup Outputs
  BY Channels DEF Inputs
<1>6. Outer'
  <2>1. {ping, sigint, hungup, astray, regular, jammed} \subseteq BOOLEAN
    BY <1>0 DEF Outer
  <2>2. {ack', ping', sigint', hungup', astray', regular', jammed'} \subseteq BOOLEAN
    BY <1>2, <1>4, <2>1
  <2>3. inbox' \in Seq(Seq(Symbol))
    BY <1>0, <1>2 DEF Outer
  <2> QED BY <1>0, <1>1, <1>2, <1>4, <2>2, <2>3 DEF Outer
<1>7. buf'["II_SIGNAL"] = buf["II_SIGNAL"]
  BY <1>4, <1>5
<1>8. Inner'
  BY <1>0, <1>2, <1>3, <1>4, <1>7 DEF Inner
<1>9. Wiring' /\ Stage' /\ Delivered'
  <2>1. rset \subseteq Inputs /\ c \notin Inputs
    BY <1>0, <1>5 DEF Inner
  <2>2. wset \subseteq todo /\ todo \cap Inputs \subseteq rset /\ rset \subseteq todo
        /\ \A d \in todo \cap Outputs :
             d \in wset \/ (d = "CO_MASTER" /\ console = "shared" /\ "CI_MASTER" \in todo)
    BY <1>0, <1>3, <1>5 DEF Stage
  <2>3. Stage'
    BY <1>2, <1>3, <1>5, <2>1, <2>2 DEF Stage
  <2>4. Wiring'
    BY <1>0, <1>2 DEF Wiring
  <2>5. Delivered'
    BY <1>0, <1>2, <1>3, <1>7 DEF Delivered
  <2> QED BY <2>3, <2>4, <2>5
<1>10. Watched'
  <2>1. Echoes'
    BY <1>2, <1>3 DEF Echoes
  <2>2. ASSUME ~jammed, NEW d \in Outputs \cap fd, d # c, buf'[d] # <<>> PROVE d \in wset
    <3>1. buf[d] # <<>>
      BY <1>4, <1>5, <2>2
    <3> QED BY <1>0, <2>2, <3>1 DEF Watched
  <2> QED BY <1>2, <2>1, <2>2 DEF Watched
<1>11. WaitsGuarded'
  <2> SUFFICES ASSUME "FO_MAIN" \in fd, ~jammed
               PROVE  (ack' => OnTheWay("timer_ack")') /\ (ping => OnTheWay("timer_ping")')
    BY <1>2 DEF WaitsGuarded
  <2>1. CASE buf["FO_MAIN"] = <<>>
    <3>1. (ack => OnTheWay("timer_ack")) /\ (ping => OnTheWay("timer_ping"))
      BY <1>0, <1>3, <2>1 DEF WaitsGuarded
    <3> QED BY <1>2, <1>4, <1>7, <3>1 DEF OnTheWay
  <2>2. CASE buf["FO_MAIN"] # <<>>
    <3>1. "FO_MAIN" \in wset
      BY <1>0, <1>5, <2>2 DEF Watched
    <3> QED BY <1>2, <3>1 DEF OnTheWay
  <2> QED BY <2>1, <2>2
<1> QED BY <1>6, <1>8, <1>9, <1>10, <1>11 DEF Base

\* The console's bytes, as many as there is room for.
LEMMA ConsoleKeeps ==
  ASSUME EngineInv, NEW c \in {"CO_MASTER", "CI_MASTER"}, ConsoleRead(c)
  PROVE  Base'
<1>1. CASE c = "CO_MASTER"
  BY <1>1, EchoKeeps
<1>2. CASE c = "CI_MASTER"
  <2>1. PICK a \in Seq(Symbol) : Visits(c) /\ Took(c, a) /\ lines' \in Seq(Seq(Symbol))
    BY ConsoleReadIs
  <2>2. /\ UNCHANGED <<fd, wset, rset, timeout, machine, ping, pings_left, sigint, pc, process>>
        /\ UNCHANGED <<manner, console, inbox, hungup, owes, astray, regular, jammed>>
    BY DEF ConsoleRead, history
  <2>3. inbox' \in Seq(Seq(Symbol)) /\ regular' \in BOOLEAN /\ astray' \in BOOLEAN
    <3>1. inbox \in Seq(Seq(Symbol)) /\ {regular, astray} \subseteq BOOLEAN
      BY DEF EngineInv, Base, Outer
    <3> QED BY <2>2, <3>1
  <2> QED BY <1>2, <2>1, <2>2, <2>3, ReadKeeps
<1> QED BY <1>1, <1>2

\* The peer's bytes, wherever they are cut.
LEMMA MainKeeps == ASSUME EngineInv, MainRead PROVE Base'
<1>0. Outer /\ Inner
  BY DEF EngineInv, Base
<1>1. Visits("FI_MAIN") /\ inbox # <<>>
  BY DEF MainRead
<1>2. /\ UNCHANGED <<fd, wset, rset, timeout, machine, ping, pings_left, sigint, pc, process>>
      /\ UNCHANGED <<manner, console, hungup, owes, lines>>
  BY DEF MainRead
<1>3. /\ inbox \in Seq(Seq(Symbol)) /\ lines \in Seq(Seq(Symbol))
      /\ regular \in BOOLEAN /\ astray \in BOOLEAN
  BY <1>0 DEF Outer
<1> DEFINE W == Seq(Symbol)
<1> HIDE DEF W
<1>4. inbox \in Seq(W)
  BY <1>3 DEF W
<1>5. Len(inbox) \in Nat \ {0}
  BY <1>1, <1>4, EmptySeq
<1>6. CASE \E k \in 1..Len(inbox) :
             /\ Took("FI_MAIN", FlattenSeq(SubSeq(inbox, 1, k)))
             /\ inbox' = SubSeq(inbox, k + 1, Len(inbox))
             /\ UNCHANGED history
  <2>1. PICK k \in 1..Len(inbox) : /\ Took("FI_MAIN", FlattenSeq(SubSeq(inbox, 1, k)))
                                   /\ inbox' = SubSeq(inbox, k + 1, Len(inbox))
                                   /\ UNCHANGED history
    BY <1>6
  <2> DEFINE a == SubSeq(inbox, 1, k)
             t == FlattenSeq(a)
  <2>2. k \in 0..Len(inbox)
    BY <1>5
  <2>3. a \in Seq(W) /\ inbox' \in Seq(W)
    BY <1>4, <2>1, <2>2, CutInTwo
  <2> HIDE DEF a
  <2>4. t \in W
    BY <2>3, FlattenIsSeq DEF W
  <2>5. Took("FI_MAIN", t)
    BY <2>1 DEF a
  <2> HIDE DEF t
  <2>6. UNCHANGED <<jammed, regular, astray>>
    BY <2>1 DEF history
  <2> QED BY <1>1, <1>2, <1>3, <2>3, <2>4, <2>5, <2>6, ReadKeeps DEF W
<1>7. CASE \E n \in Cuts :
             /\ n < Len(Head(inbox))
             /\ Took("FI_MAIN", SubSeq(Head(inbox), 1, n))
             /\ inbox' = [inbox EXCEPT ![1] = SubSeq(@, n + 1, Len(@))]
             /\ Irregular
  <2>1. PICK n \in Cuts : /\ n < Len(Head(inbox))
                          /\ Took("FI_MAIN", SubSeq(Head(inbox), 1, n))
                          /\ inbox' = [inbox EXCEPT ![1] = SubSeq(@, n + 1, Len(@))]
                          /\ Irregular
    BY <1>7
  <2> DEFINE h == Head(inbox)
             a == SubSeq(h, 1, n)
             b == SubSeq(h, n + 1, Len(h))
  <2>2. h \in W /\ h = inbox[1]
    BY <1>1, <1>4, HeadTailProperties
  <2>3. Len(h) \in Nat /\ n \in Nat
    BY <2>2, LenProperties, CutsAssumption DEF W
  <2>4. inbox' = [inbox EXCEPT ![1] = b]
    BY <2>1, <2>2
  <2>5. n < Len(h) /\ Took("FI_MAIN", a)
    BY <2>1
  <2> HIDE DEF h
  <2>6. n \in 0..Len(h) /\ 1 \in 1..Len(inbox)
    BY <1>5, <2>3, <2>5
  <2>7. a \in W /\ b \in W
    BY <2>2, <2>6, CutInTwo DEF W
  <2> HIDE DEF a, b
  <2>8. inbox' \in Seq(W)
    BY <1>4, <2>4, <2>6, <2>7, ExceptSeq
  <2>9. jammed' = jammed /\ regular' \in BOOLEAN /\ astray' = astray
    BY <2>1 DEF Irregular, Forgets
  <2> QED BY <1>1, <1>2, <1>3, <2>5, <2>7, <2>8, <2>9, ReadKeeps DEF W
<1> QED BY <1>6, <1>7 DEF MainRead

\* End of file on the console: both its descriptors are closed.
LEMMA ConsoleCloseKeeps == ASSUME EngineInv, ConsoleCloses PROVE Base'
<1>0. Outer /\ Inner /\ Wiring /\ Stage /\ Delivered /\ Watched /\ WaitsGuarded
  BY DEF EngineInv, Base
<1> DEFINE e == <<>>
<1>1. /\ fd' = fd \ {"CI_MASTER", "CO_MASTER"} /\ rset' = rset \ {"CI_MASTER"} /\ lines' = e
      /\ UNCHANGED <<buf, wset, timeout, machine, ack, ping, pings_left, armed, alarms, sigint, pc, process>>
      /\ UNCHANGED <<manner, console, inbox, hungup, owes, astray, regular, jammed>>
  BY DEF ConsoleCloses, flags, timers, history
<1>2. "CI_MASTER" \in Inputs
  BY DEF Inputs
<1>3. /\ process = "up" /\ pc = "io" /\ todo' = todo \ {"CI_MASTER"} /\ wset = {}
  BY <1>2, InputVisited DEF ConsoleCloses
<1>9. todo \cap Outputs = {}
  <2>1. todo # {} /\ "CI_MASTER" = First(todo) /\ todo \subseteq Channel
    BY <1>0 DEF ConsoleCloses, Visits, Inner
  <2> QED BY <1>2, <2>1, FirstIs, Channels
<1>4. e \in Seq(Seq(Symbol))
  BY ShortSeqs
<1> HIDE DEF e
<1>5. Outer'
  BY <1>0, <1>1, <1>4 DEF Outer
<1>6. Inner'
  BY <1>0, <1>1, <1>3 DEF Inner
<1>7. Wiring' /\ Delivered' /\ "CI_MASTER" \notin todo'
  BY <1>0, <1>1, <1>3 DEF Wiring, Delivered
<1>8. Stage'
  BY <1>0, <1>1, <1>3, <1>9 DEF Stage
<1>10. Watched' /\ WaitsGuarded'
  BY <1>0, <1>1 DEF Watched, WaitsGuarded, OnTheWay
<1> QED BY <1>5, <1>6, <1>7, <1>8, <1>10 DEF Base

\* End of file on MAIN: nothing more is asked of the peer.
LEMMA MainEndKeeps == ASSUME EngineInv, MainEnds PROVE Base'
<1>0. Outer /\ Inner /\ Wiring /\ Stage /\ Delivered /\ Watched
  BY DEF EngineInv, Base
<1>1. /\ fd' = fd \ {"FO_MAIN", "FI_MAIN"} /\ rset' = rset \ {"FI_MAIN"}
      /\ timeout' = (IF timeout = "zero" THEN "zero" ELSE "some")
      /\ UNCHANGED <<buf, wset, machine, ack, ping, pings_left, armed, alarms, sigint, pc, process>>
      /\ UNCHANGED <<manner, console, inbox, hungup, owes, lines, astray, regular, jammed>>
  BY DEF MainEnds, close_main_channel, flags, timers, world, history
<1>2. "FI_MAIN" \in Inputs
  BY DEF Inputs
<1>3. /\ process = "up" /\ pc = "io" /\ todo' = todo \ {"FI_MAIN"} /\ wset = {}
  BY <1>2, InputVisited DEF MainEnds
<1>4. Outer'
  BY <1>0, <1>1 DEF Outer
<1>5. Inner'
  BY <1>0, <1>1, <1>3 DEF Inner
<1>6. Wiring' /\ Stage' /\ Delivered'
  <2>1. todo # {} /\ "FI_MAIN" = First(todo) /\ todo \subseteq Channel
    BY <1>0 DEF MainEnds, Visits, Inner
  <2>2. todo \cap Outputs = {}
    BY <1>2, <2>1, FirstIs, Channels
  <2> QED BY <1>0, <1>1, <1>3, <2>2 DEF Wiring, Stage, Delivered
<1>7. Watched' /\ WaitsGuarded'
  <2>1. Echoes => Echoes'
    BY <1>1, <1>3 DEF Echoes
  <2> QED BY <1>0, <1>1, <2>1 DEF Watched, WaitsGuarded
<1> QED BY <1>4, <1>5, <1>6, <1>7 DEF Base

\* All were visited, so wset had no bit left to clear.
LEMMA DoneKeeps == ASSUME EngineInv, IoDone PROVE Base'
<1>0. Outer /\ Inner /\ Wiring /\ Stage /\ Delivered /\ Watched /\ WaitsGuarded
  BY DEF EngineInv, Base
<1>1. /\ process = "up" /\ pc = "io" /\ todo = {} /\ wset' = {} /\ todo' = rset /\ pc' = "process"
      /\ UNCHANGED <<fd, buf, rset, timeout, machine, ack, ping, pings_left, armed, alarms, sigint, process>>
      /\ UNCHANGED <<manner, console, inbox, hungup, owes, lines, astray, regular, jammed>>
  BY DEF IoDone, At, flags, timers, world, history
<1>2. wset = {}
  BY <1>0, <1>1 DEF Stage
<1>3. Outer'
  BY <1>0, <1>1 DEF Outer
<1>4. Inner'
  BY <1>0, <1>1, Channels DEF Inner
<1>5. Wiring' /\ Stage' /\ Delivered'
  BY <1>0, <1>1, Channels DEF Inner, Wiring, Stage, Delivered
<1>6. Watched' /\ WaitsGuarded'
  <2>1. Echoes => Echoes'
    BY <1>1 DEF Echoes
  <2> QED BY <1>0, <1>1, <1>2, <2>1 DEF Watched, WaitsGuarded, OnTheWay
<1> QED BY <1>3, <1>4, <1>5, <1>6 DEF Base

\* All of perform_pending_io.
LEMMA PendingKeeps == ASSUME EngineInv, PerformPendingIo PROVE Base'
<1>1. CASE \E c \in Outputs : PendingWrite(c)
  BY <1>1, WriteKeeps
<1>2. CASE ArmsTwice \/ OutputRead \/ \E c \in Outputs : WritesNothing(c) \/ WritesBeyond(c)
  <2>1. process = "up" /\ \E how : Ends(how)
    BY <1>2 DEF ArmsTwice, OutputRead, WritesNothing, WritesBeyond, At
  <2> QED BY <2>1, EndsKeeps
<1>3. CASE ReadSignals
  BY <1>3, SignalsKeep
<1>4. CASE ConsoleCloses
  BY <1>4, ConsoleCloseKeeps
<1>5. CASE \E c \in {"CO_MASTER", "CI_MASTER"} : ConsoleRead(c)
  BY <1>5, ConsoleKeeps
<1>6. CASE MainRead
  BY <1>6, MainKeeps
<1>7. CASE MainEnds
  BY <1>7, MainEndKeeps
<1>8. CASE IoDone
  BY <1>8, DoneKeeps
<1> QED BY <1>1, <1>2, <1>3, <1>4, <1>5, <1>6, <1>7, <1>8 DEF PerformPendingIo

-----------------------------------------------------------------------------
(* process_signal, process_master *)

\* A handler is called for a channel that was read and is still open.
LEMMA Handled ==
  ASSUME EngineInv, At("process"), todo \cap fd # {}
  PROVE  LET c == First(todo \cap fd)
         IN  /\ c \in todo /\ c \in fd /\ todo \subseteq Inputs
             /\ c # "II_SIGNAL" => "II_SIGNAL" \notin todo
<1>1. Inner /\ Wiring /\ Stage /\ pc = "process"
  BY DEF EngineInv, Base, At
<1> DEFINE C == todo \cap fd
<1>2. C \subseteq Channel /\ C # {} /\ C \subseteq Inputs
  BY <1>1 DEF Inner, Stage
<1> HIDE DEF C
<1>3. First(C) \in C /\ (First(C) # "II_SIGNAL" => "II_SIGNAL" \notin C)
  BY <1>2, FirstIs
<1> QED BY <1>1, <1>3 DEF C, Wiring, Stage

\* If a timer's signal was read, the handler acts on one of a timer.
LEMMA AlarmIs ==
  ASSUME NEW timer \in {"timer_ack", "timer_ping"}, buf["II_SIGNAL"] \in Seq(Signal),
         Contains(buf["II_SIGNAL"], timer)
  PROVE  Alarm \in {"timer_ack", "timer_ping"}
<1> DEFINE s == buf["II_SIGNAL"]
           I == {i \in 1..Len(s) : s[i] # "SIGINT"}
<1>1. Len(s) \in Nat /\ \A i \in 1..Len(s) : s[i] \in Signal
  BY LenProperties, ElementOfSeq
<1>2. I \in SUBSET Nat /\ I # {}
  BY <1>1 DEF Contains
<1>3. Alarm = IF Min(I) = 0 THEN "none" ELSE s[Min(I)]
  BY <1>2 DEF Alarm, SelectInSeq
<1>4. Min(I) \in I
  <2> HIDE DEF I
  <2> QED BY <1>2, MinIsIn
<1> DEFINE k == Min(I)
<1> HIDE DEF k, s
<1>5. k \in 1..Len(s) /\ s[k] # "SIGINT"
  BY <1>4 DEF k
<1>6. k # 0 /\ s[k] \in Signal
  BY <1>1, <1>5
<1> HIDE DEF I
<1> QED BY <1>3, <1>5, <1>6 DEF Signal, k

\* The only step that closes a descriptor after the reads finds wset empty.
LEMMA SignalKeeps == ASSUME EngineInv, process_signal PROVE Base'
<1>0. Outer /\ Inner /\ Wiring /\ Stage /\ Delivered /\ Watched /\ WaitsGuarded
  BY DEF EngineInv, Base
<1>15. Interrupted => "CO_MASTER" \notin fd /\ "CI_MASTER" \notin fd
  BY DEF EngineInv, Unopened, Interrupted
<1> DEFINE e == <<>>
           m == IF Interrupted THEN Append(buf["CO_MASTER"], "prompt") ELSE buf["CO_MASTER"]
           closes == "FO_MAIN" \in fd /\ Alarm = "timer_ping"
           asks == "FO_MAIN" \in fd /\ Alarm = "timer_ack"
<1>1. /\ sigint' = (sigint /\ ~Interrupted) /\ todo' = todo \ {"II_SIGNAL"}
      /\ buf' = [buf EXCEPT !["II_SIGNAL"] = e, !["CO_MASTER"] = m]
      /\ fd' = (fd \cup Opened) \ (IF closes THEN {"FO_MAIN", "FI_MAIN"} ELSE {})
      /\ timeout' = IF closes /\ timeout # "zero" THEN "some" ELSE timeout
      /\ wset' = wset \cup (Opened \cap Outputs) \cup (IF asks THEN {"FO_MAIN"} ELSE {})
  BY DEF process_signal, Handles
<1>2. /\ process = "up" /\ pc = "process"
      /\ UNCHANGED <<rset, machine, ack, ping, pings_left, armed, alarms, pc>>
      /\ UNCHANGED <<manner, console, inbox, hungup, owes, lines, astray, regular, jammed>>
  BY DEF process_signal, Handles, At, flags, timers, world, history
<1>3. "II_SIGNAL" \in todo /\ todo \subseteq Inputs /\ wset = {}
  <2>1. At("process") /\ todo \cap fd # {} /\ "II_SIGNAL" = First(todo \cap fd)
    BY DEF process_signal, Handles
  <2> QED BY <1>0, <1>2, <2>1, Handled DEF Stage
<1>4. Opened = (IF Interrupted /\ console # "none" THEN {"CI_MASTER", "CO_MASTER"} ELSE {})
  BY DEF Opened
<1>5. /\ Inputs = {"II_SIGNAL", "CI_MASTER", "FI_MAIN"}
      /\ Outputs = {"NO_PAYMENT", "CO_MASTER", "FO_MAIN"} /\ Channel = Inputs \cup Outputs
  BY Channels DEF Inputs
<1>6. /\ e \in Seq(Symbol) /\ e \in Seq(Signal) /\ e = <<>> /\ m \in Seq(Symbol)
      /\ Interrupted \/ m = buf["CO_MASTER"]
  <2>1. "prompt" \in Symbol
    BY SymbolsAre
  <2>2. e \in Seq(Symbol) /\ e \in Seq(Signal)
    BY ShortSeqs
  <2>3. buf["CO_MASTER"] \in Seq(Symbol)
    BY <1>0, <1>5 DEF Inner
  <2>4. Append(buf["CO_MASTER"], "prompt") \in Seq(Symbol)
    BY <2>1, <2>3, AppendProperties
  <2> QED BY <2>2, <2>3, <2>4
<1> HIDE DEF e, m
<1>7. /\ buf' \in [Channel -> Seq(Symbol)] /\ buf'["II_SIGNAL"] = e /\ buf'["CO_MASTER"] = m
      /\ \A c \in Channel : c \notin {"II_SIGNAL", "CO_MASTER"} => buf'[c] = buf[c]
  BY <1>0, <1>1, <1>5, <1>6 DEF Inner
<1>8. Outer'
  <2>1. {ack, ping, sigint, hungup, astray, regular, jammed} \subseteq BOOLEAN
    BY <1>0 DEF Outer
  <2>2. sigint' \in BOOLEAN
    BY <1>1
  <2>3. {ack', ping', sigint', hungup', astray', regular', jammed'} \subseteq BOOLEAN
    BY <1>2, <2>1, <2>2
  <2>4. timeout' \in {"never", "some", "zero"}
    BY <1>0, <1>1 DEF Outer
  <2> QED BY <1>0, <1>2, <2>3, <2>4 DEF Outer
<1>9. Inner'
  <2>2. fd' \subseteq Channel /\ wset' \subseteq Outputs
    BY <1>0, <1>1, <1>4, <1>5 DEF Inner
  <2> QED BY <1>0, <1>1, <1>2, <1>6, <1>7, <2>2 DEF Inner
<1>10. Wiring'
  BY <1>0, <1>1, <1>4 DEF Wiring
<1>11. Stage'
  <2>1. wset' \subseteq fd'
    BY <1>1, <1>3, <1>4, <1>5
  <2> QED BY <1>0, <1>1, <1>2, <1>3, <2>1 DEF Stage
<1>12. Delivered'
  BY <1>6, <1>7 DEF Delivered
<1>13. Watched'
  <2> SUFFICES ASSUME ~jammed, NEW c \in Outputs, c \in fd', buf'[c] # <<>>
               PROVE  c \in wset' \/ (c = "CO_MASTER" /\ Echoes)
    <3>1. Echoes => Echoes'
      BY <1>1, <1>2, <1>5 DEF Echoes
    <3> QED BY <1>2, <3>1 DEF Watched
  <2>1. CASE c = "CO_MASTER" /\ Interrupted
    BY <1>1, <1>4, <1>5, <1>15, <2>1
  <2>2. CASE ~(c = "CO_MASTER" /\ Interrupted)
    <3>1. buf'[c] = buf[c] /\ c \in fd
      BY <1>1, <1>4, <1>5, <1>6, <1>7, <2>2
    <3> QED BY <1>0, <1>1, <3>1 DEF Watched
  <2> QED BY <2>1, <2>2
<1>14. WaitsGuarded'
  <2> SUFFICES ASSUME "FO_MAIN" \in fd', buf'["FO_MAIN"] = <<>>, ~jammed
               PROVE  (ack => OnTheWay("timer_ack")') /\ (ping => OnTheWay("timer_ping")')
    BY <1>2 DEF WaitsGuarded
  <2>1. "FO_MAIN" \in fd /\ Alarm # "timer_ping"
    BY <1>1, <1>4
  <2>2. (ack => OnTheWay("timer_ack")) /\ (ping => OnTheWay("timer_ping"))
    BY <1>0, <1>2, <1>5, <1>7, <2>1 DEF WaitsGuarded
  <2>3. ASSUME NEW timer \in {"timer_ack", "timer_ping"}, OnTheWay(timer) PROVE OnTheWay(timer)'
    <3>1. CASE Contains(buf["II_SIGNAL"], timer)
      <4>1. Alarm \in {"timer_ack", "timer_ping"}
        BY <1>0, <3>1, AlarmIs DEF Inner
      <4>2. "FO_MAIN" \in wset'
        BY <1>1, <2>1, <4>1
      <4> QED BY <4>2 DEF OnTheWay
    <3>2. CASE ~Contains(buf["II_SIGNAL"], timer)
      BY <1>1, <1>2, <2>3, <3>2 DEF OnTheWay
    <3> QED BY <3>1, <3>2
  <2> QED BY <2>2, <2>3
<1> QED BY <1>8, <1>9, <1>10, <1>11, <1>12, <1>13, <1>14 DEF Base

\* The console's answer is its prompt.
LEMMA MasterKeeps == ASSUME EngineInv, process_master PROVE Base'
<1>0. Outer /\ Inner /\ Wiring /\ Stage /\ Delivered /\ Watched /\ WaitsGuarded
  BY DEF EngineInv, Base
<1> DEFINE t == buf["CO_MASTER"] \o <<"prompt">>
<1>1. /\ todo' = todo \ {"CI_MASTER"} /\ buf' = [buf EXCEPT !["CO_MASTER"] = t]
      /\ wset' = wset \cup {"CO_MASTER"} /\ process = "up" /\ pc = "process"
      /\ UNCHANGED <<fd, rset, timeout, machine, ack, ping, pings_left, armed, alarms, sigint, pc>>
      /\ UNCHANGED <<manner, console, inbox, hungup, owes, lines, astray, regular, jammed>>
  BY DEF process_master, Put, Handles, At, flags, timers, world, history
<1>2. "CI_MASTER" \in fd /\ "II_SIGNAL" \notin todo
  <2>1. At("process") /\ todo \cap fd # {} /\ "CI_MASTER" = First(todo \cap fd)
    BY DEF process_master, Handles
  <2> QED BY <2>1, Handled
<1>3. t \in Seq(Symbol)
  <2>1. <<"prompt">> \in Seq(Symbol) /\ "CO_MASTER" \in Channel
    BY SymbolsAre, ShortSeqs, Channels
  <2>2. buf["CO_MASTER"] \in Seq(Symbol)
    BY <1>0, <2>1 DEF Inner
  <2> QED BY <2>1, <2>2, Appended
<1> HIDE DEF t
<1>4. /\ {"CO_MASTER", "II_SIGNAL", "FO_MAIN"} \subseteq Channel
      /\ "CO_MASTER" \in Outputs /\ "II_SIGNAL" \notin Outputs /\ Outputs \subseteq Channel
  BY Channels DEF Inputs
<1>5. /\ buf' \in [Channel -> Seq(Symbol)] /\ buf'["CO_MASTER"] = t
      /\ \A c \in Channel : c # "CO_MASTER" => buf'[c] = buf[c]
  BY <1>0, <1>1, <1>3, <1>4 DEF Inner
<1>6. Outer'
  BY <1>0, <1>1 DEF Outer
<1>7. Inner'
  BY <1>0, <1>1, <1>4, <1>5 DEF Inner
<1>8. Wiring' /\ Stage' /\ Delivered'
  BY <1>0, <1>1, <1>2, <1>4, <1>5 DEF Wiring, Stage, Delivered
<1>9. Watched'
  BY <1>0, <1>1, <1>4, <1>5 DEF Watched, Echoes
<1>10. WaitsGuarded'
  <2>1. buf'["FO_MAIN"] = buf["FO_MAIN"] /\ buf'["II_SIGNAL"] = buf["II_SIGNAL"]
    BY <1>4, <1>5
  <2> QED BY <1>0, <1>1, <2>1 DEF WaitsGuarded, OnTheWay
<1> QED BY <1>6, <1>7, <1>8, <1>9, <1>10 DEF Base

-----------------------------------------------------------------------------
(* process_main *)

\* What a step of process_main starts from.
LEMMA InMainIs ==
  ASSUME EngineInv, InMain
  PROVE  /\ process = "up" /\ pc = "process" /\ todo \subseteq Inputs
         /\ "FI_MAIN" \in fd /\ "FO_MAIN" \in fd /\ "II_SIGNAL" \notin todo
         /\ buf \in [Channel -> Seq(Symbol)] /\ machine \in States
         /\ buf["II_SIGNAL"] = <<>>
<1>0. Outer /\ Inner /\ Wiring /\ Delivered
  BY DEF EngineInv, Base
<1>1. At("process") /\ todo \cap fd # {} /\ First(todo \cap fd) = "FI_MAIN"
  BY DEF InMain
<1>2. "FI_MAIN" \in fd /\ "II_SIGNAL" \notin todo /\ todo \subseteq Inputs
  BY <1>1, Handled
<1>3. process = "up" /\ pc = "process"
  BY <1>1 DEF At
<1> QED BY <1>0, <1>2, <1>3 DEF Outer, Inner, Wiring, Delivered, States

\* What follows a frame is a part of the buffer.
LEMMA RestIs ==
  ASSUME EngineInv, InMain, NEW f, f = frob_frame_process(machine, buf["FI_MAIN"])
  PROVE  f.cs \in States /\ (f.e # "EAGAIN" => fnext(f) \in Seq(Symbol))
<1> DEFINE b == buf["FI_MAIN"]
           n == Len(b)
<1>1. b \in Seq(Symbol) /\ machine \in States
  BY InMainIs, Channels DEF Inputs
<1>2. f.cs \in States /\ f.end \in 0..n /\ (f.e # "EAGAIN" => f.end # 0)
  BY <1>1, FoundInside
<1>3. n \in Nat
  BY <1>1, LenProperties
<1>4. f.end + 2 \in Nat \ {0} /\ n \in 0..n
  BY <1>2, <1>3
<1>5. SubSeq(b, f.end + 2, n) \in Seq(Symbol)
  BY <1>1, <1>4, PartIsSeq
<1> QED BY <1>2, <1>5 DEF fnext, Behind

\* The rest of what a step of process_main leaves alone or keeps within its types.
Aside ==
  /\ UNCHANGED <<fd, rset, timeout, sigint, pc, todo>> /\ process' \in {process, "overrun"}
  /\ UNCHANGED <<manner, console, inbox, hungup, owes, lines, jammed>>
  /\ {ack', ping', regular', astray'} \subseteq BOOLEAN
  /\ pings_left' \in Nat /\ armed' \subseteq armed
  /\ alarms' \in Seq(Signal) /\ IsInjective(alarms')

\* Something is appended on MAIN, and perhaps on another output, and both are watched.
LEMMA AppendKeeps ==
  ASSUME EngineInv, InMain, Aside, machine' \in States,
         NEW a \in Seq(Symbol), NEW u \in Seq(Symbol), NEW v \in Seq(Symbol),
         u # <<>>,
         buf' = [buf EXCEPT !["FI_MAIN"] = a, !["FO_MAIN"] = u, !["NO_PAYMENT"] = v],
         NEW W, W \in SUBSET (Outputs \cap fd), wset' = wset \cup {"FO_MAIN"} \cup W,
         v = buf["NO_PAYMENT"] \/ "NO_PAYMENT" \in W
  PROVE  Base'
<1>0. Outer /\ Inner /\ Wiring /\ Stage /\ Delivered /\ Watched
  BY DEF EngineInv, Base
<1>1. /\ process = "up" /\ pc = "process" /\ todo \subseteq Inputs
      /\ "FO_MAIN" \in fd /\ "II_SIGNAL" \notin todo /\ buf["II_SIGNAL"] = <<>>
      /\ buf \in [Channel -> Seq(Symbol)]
  BY InMainIs
<1>2. /\ UNCHANGED <<fd, rset, timeout, sigint, pc, todo>>
      /\ UNCHANGED <<manner, console, inbox, hungup, owes, lines, jammed>>
      /\ {ack', ping', regular', astray'} \subseteq BOOLEAN
      /\ pings_left' \in Nat /\ armed' \subseteq armed
      /\ alarms' \in Seq(Signal) /\ IsInjective(alarms')
  BY DEF Aside
<1>3. /\ Inputs = {"II_SIGNAL", "CI_MASTER", "FI_MAIN"}
      /\ Outputs = {"NO_PAYMENT", "CO_MASTER", "FO_MAIN"} /\ Channel = Inputs \cup Outputs
  BY Channels DEF Inputs
<1>4. /\ buf' \in [Channel -> Seq(Symbol)]
      /\ buf'["FI_MAIN"] = a /\ buf'["FO_MAIN"] = u /\ buf'["NO_PAYMENT"] = v
      /\ buf'["II_SIGNAL"] = buf["II_SIGNAL"] /\ buf'["CO_MASTER"] = buf["CO_MASTER"]
      /\ buf'["CI_MASTER"] = buf["CI_MASTER"]
  BY <1>1, <1>3
<1>5. Outer'
  <2>1. {sigint, hungup, jammed} \subseteq BOOLEAN
    BY <1>0 DEF Outer
  <2>2. {ack', ping', sigint', hungup', astray', regular', jammed'} \subseteq BOOLEAN
    BY <1>2, <2>1
  <2>3. armed' \subseteq {"timer_ack", "timer_ping"}
    BY <1>0, <1>2 DEF Outer
  <2> QED BY <1>0, <1>2, <2>2, <2>3 DEF Outer, States
<1>6. Inner'
  <2>2. wset' \subseteq Outputs
    BY <1>0, <1>3 DEF Inner
  <2> QED BY <1>0, <1>2, <1>4, <2>2 DEF Inner
<1>7. Wiring' /\ Stage' /\ Delivered'
  BY <1>0, <1>1, <1>2, <1>4 DEF Wiring, Stage, Delivered
<1>8. Watched'
  <2> SUFFICES ASSUME ~jammed, NEW c \in Outputs \cap fd, buf'[c] # <<>>
               PROVE  c \in wset' \/ (c = "CO_MASTER" /\ Echoes)
    BY <1>2 DEF Watched, Echoes
  <2>1. CASE c = "FO_MAIN" \/ c \in W
    BY <2>1
  <2>2. CASE ~(c = "FO_MAIN" \/ c \in W)
    <3>1. buf'[c] = buf[c]
      BY <1>3, <1>4, <2>2
    <3> QED BY <1>0, <3>1 DEF Watched
  <2> QED BY <2>1, <2>2
<1>9. WaitsGuarded'
  BY <1>4 DEF WaitsGuarded
<1> QED BY <1>5, <1>6, <1>7, <1>8, <1>9 DEF Base

\* The same for a frame that is taken, with what it calls for on MAIN.
LEMMA TakesKeeps ==
  ASSUME EngineInv, InMain, Aside,
         NEW f, f = frob_frame_process(machine, buf["FI_MAIN"]), f.e # "EAGAIN",
         NEW out \in Seq(Symbol), out # <<>>,
         Takes(f, out), wset' = wset \cup {"FO_MAIN"}
  PROVE  Base'
<1> DEFINE a == fnext(f)
           u == buf["FO_MAIN"] \o out
           v == buf["NO_PAYMENT"]
<1>1. a \in Seq(Symbol)
  BY RestIs
<1>2. /\ {"FO_MAIN", "NO_PAYMENT"} \subseteq Channel /\ "NO_PAYMENT" # "FO_MAIN"
      /\ "NO_PAYMENT" # "FI_MAIN" /\ "FO_MAIN" # "FI_MAIN"
  BY Channels DEF Inputs
<1>3. buf \in [Channel -> Seq(Symbol)]
  BY DEF EngineInv, Base, Inner
<1>4. buf["FO_MAIN"] \in Seq(Symbol) /\ v \in Seq(Symbol)
  BY <1>2, <1>3
<1>5. u \in Seq(Symbol) /\ u # <<>>
  BY <1>4, Appended
<1>6. machine' = "main" /\ buf' = [buf EXCEPT !["FI_MAIN"] = a, !["FO_MAIN"] = u]
  BY DEF Takes, Renewed
<1> HIDE DEF a, u
<1>7. buf' = [buf EXCEPT !["FI_MAIN"] = a, !["FO_MAIN"] = u, !["NO_PAYMENT"] = v]
  BY <1>2, <1>3, <1>6
<1>8. machine' \in States
  BY <1>6 DEF States
<1> HIDE DEF v
<1>9. {} \in SUBSET (Outputs \cap fd) /\ wset' = wset \cup {"FO_MAIN"} \cup {} /\ v = buf["NO_PAYMENT"]
  BY DEF v
<1> QED BY <1>1, <1>4, <1>5, <1>7, <1>8, <1>9, AppendKeeps

\* What is not touched stays in its types.
LEMMA AsideIs ==
  ASSUME EngineInv, UNCHANGED <<fd, rset, timeout, sigint, pc, todo>>,
         process' \in {process, "overrun"},
         UNCHANGED <<manner, console, inbox, hungup, owes, lines>>,
         ack' \in BOOLEAN, UNCHANGED <<ping, pings_left, armed, alarms>>,
         UNCHANGED history \/ Irregular
  PROVE  Aside
<1>1. /\ {ping, regular, astray} \subseteq BOOLEAN
      /\ pings_left \in Nat /\ alarms \in Seq(Signal) /\ IsInjective(alarms)
  BY DEF EngineInv, Base, Outer
<1>2. jammed' = jammed /\ astray' = astray /\ regular' \in BOOLEAN
  <2>1. CASE UNCHANGED history
    BY <1>1, <2>1 DEF history
  <2>2. CASE Irregular
    BY <2>2 DEF Irregular, Forgets
  <2> QED BY <2>1, <2>2
<1>3. {ack', ping', regular', astray'} \subseteq BOOLEAN
  BY <1>1, <1>2
<1> QED BY <1>1, <1>2, <1>3 DEF Aside

\* A frame that cannot be used is acknowledged only, wherever its byte goes.
LEMMA RefusedKeeps ==
  ASSUME EngineInv, InMain, NEW f, f = frob_frame_process(machine, buf["FI_MAIN"]),
         BadLrc(f) \/ BadParse(f) \/ AckOverruns(f)
  PROVE  Base'
<1>1. PICK x \in Symbol : Takes(f, <<x>>)
  <2>1. "NAK" \in Symbol /\ "ACK" \in Symbol
    BY SymbolsAre
  <2> QED BY <2>1 DEF BadLrc, BadParse, AckOverruns
<1>2. f.e # "EAGAIN" /\ wset' = wset \cup {"FO_MAIN"}
  BY DEF BadLrc, BadParse, AckOverruns, Good
<1>4. Aside
  <2>1. ack \in BOOLEAN
    BY DEF EngineInv, Base, Outer
  <2>2. /\ UNCHANGED <<fd, rset, timeout, sigint, pc, todo>>
        /\ UNCHANGED <<manner, console, inbox, hungup, owes, lines>>
        /\ ack' = ack /\ UNCHANGED <<ping, pings_left, armed, alarms>>
        /\ UNCHANGED history /\ process' \in {process, "overrun"}
    BY DEF BadLrc, BadParse, AckOverruns, flags, timers, round, world
  <2> QED BY <2>1, <2>2, AsideIs
<1> DEFINE t == <<x>>
<1>5. t \in Seq(Symbol) /\ t # <<>> /\ Takes(f, t)
  BY <1>1, ShortSeqs
<1> HIDE DEF t
<1> QED BY <1>2, <1>4, <1>5, TakesKeeps

\* A T2 ends the wait for it; its own acknowledge goes out.
LEMMA PongKeeps ==
  ASSUME EngineInv, InMain, NEW f, f = frob_frame_process(machine, buf["FI_MAIN"]), Pong(f)
  PROVE  Base'
<1> DEFINE t == <<"ACK">>
<1>1. /\ f.e # "EAGAIN" /\ wset' = wset \cup {"FO_MAIN"} /\ Takes(f, t)
      /\ ping' = FALSE /\ Disarm("timer_ping") /\ pings_left' = pings_left + 1
      /\ UNCHANGED <<fd, rset, timeout, ack, sigint, pc, todo, process>>
      /\ UNCHANGED <<manner, console, inbox, hungup, owes, lines, astray, regular, jammed>>
  BY DEF Pong, Good, round, world, history
<1>2. t \in Seq(Symbol) /\ t # <<>>
  BY SymbolsAre, ShortSeqs
<1> HIDE DEF t
<1>3. /\ {ack, regular, astray} \subseteq BOOLEAN
      /\ pings_left \in Nat /\ alarms \in Seq(Signal) /\ IsInjective(alarms)
  BY DEF EngineInv, Base, Outer
<1>4. /\ armed' = armed \ {"timer_ping"}
      /\ alarms' \in {alarms, RemoveFirst(alarms, "timer_ping")}
  BY <1>1 DEF Disarm
<1>5. alarms' \in Seq(Signal) /\ IsInjective(alarms')
  <2>1. CASE alarms' = alarms
    BY <1>3, <2>1
  <2>2. CASE alarms' = RemoveFirst(alarms, "timer_ping")
    BY <1>3, <2>2, WithoutOne
  <2> QED BY <1>4, <2>1, <2>2
<1>6. Aside
  <2>1. {ack', ping', regular', astray'} \subseteq BOOLEAN
    BY <1>1, <1>3
  <2>2. pings_left' \in Nat /\ armed' \subseteq armed
    BY <1>1, <1>3, <1>4
  <2> QED BY <1>1, <1>5, <2>1, <2>2 DEF Aside
<1> QED BY <1>1, <1>2, <1>6, TakesKeeps

\* A message and an answer are symbols.
LEMMA MessageIs ==
  ASSUME NEW x \in Symbol
  PROVE  /\ Message(x) \in Seq(Symbol) /\ Len(Message(x)) = 2 /\ Message(x) # <<>>
         /\ <<"ACK">> \o Message(x) \in Seq(Symbol) /\ <<"ACK">> \o Message(x) # <<>>
         /\ Len(<<"ACK">> \o Message(x)) = 3
<1> DEFINE a == <<"ACK">>
           m == Message(x)
<1>1. a \in Seq(Symbol) /\ Len(a) = 1
  BY SymbolsAre, ShortSeqs
<1>2. m \in Seq(Symbol) /\ Len(m) = 2 /\ m # <<>>
  BY SymbolsAre, ShortSeqs DEF Message
<1> HIDE DEF a, m
<1>3. a \o m \in Seq(Symbol) /\ a \o m # <<>> /\ Len(a \o m) = Len(a) + Len(m)
  BY <1>1, <1>2, Appended
<1>4. Len(a \o m) = 3
  BY <1>1, <1>2, <1>3
<1> QED BY <1>2, <1>3, <1>4 DEF a, m

\* What a frame that is answered adds to MAIN's buffer, its acknowledge and what there is
\* room for.
LEMMA SpokenIs ==
  ASSUME EngineInv, InMain, NEW f, f = frob_frame_process(machine, buf["FI_MAIN"]),
         Responds(f) \/ PaymentBusy(f)
  PROVE  /\ f.e # "EAGAIN" /\ Len(buf["FO_MAIN"]) <= Capacity
         /\ \/ Takes(f, <<"ACK">>)
            \/ \E x \in Symbol : /\ Takes(f, <<"ACK">> \o Message(x))
                               /\ Len(buf["FO_MAIN"]) + 3 <= Capacity
         /\ wset' = wset \cup {"FO_MAIN"} /\ (ack' = ack \/ ack' = TRUE)
         /\ UNCHANGED history \/ Irregular
<1>1. f.e # "EAGAIN" /\ ~Leaves("FO_MAIN")
  BY DEF Responds, PaymentBusy, Local, Good
<1> DEFINE k == Len(buf["FO_MAIN"])
<1>2. k \in Nat
  <2>1. buf["FO_MAIN"] \in Seq(Symbol)
    BY Channels DEF EngineInv, Base, Inner
  <2> QED BY <2>1, LenProperties
<1>3. Spare = Capacity - k - 1 /\ Capacity \in Nat
  BY CapacityAssumption DEF Spare, Free
<1>4. k <= Capacity
  <2>1. ~(k > Capacity)
    BY <1>1 DEF Leaves
  <2> HIDE DEF k
  <2> QED BY <1>2, <1>3, <2>1
<1> HIDE DEF k
<1>5. CASE Responds(f)
  <2> DEFINE r == Response[Type(f)]
             a == Answer(f)
  <2>1. r \in Symbol /\ a = IF r = "" THEN <<>> ELSE Message(r)
    BY <1>5, SymbolsAre DEF Responds, Local, Answer
  <2>2. CASE a = <<>> \/ Skipped(a)
    <3>1. /\ Takes(f, <<"ACK">>) /\ wset' = wset \cup {"FO_MAIN"} /\ ack' = ack
          /\ IF a = <<>> THEN UNCHANGED history ELSE Irregular
      BY <1>5, <2>2 DEF Responds
    <3> HIDE DEF a
    <3>2. UNCHANGED history \/ Irregular
      BY <3>1
    <3> QED BY <1>1, <1>4, <3>1, <3>2 DEF k
  <2>3. CASE ~(a = <<>> \/ Skipped(a))
    <3>1. /\ Takes(f, <<"ACK">> \o (IF Spare = 0 THEN <<>> ELSE a)) /\ Commission(wset)
          /\ (IF Spare = 0 THEN Irregular ELSE UNCHANGED history) /\ Spare >= 0
      BY <1>5, <2>3 DEF Responds
    <3>2. a = Message(r) /\ Len(a) = 2
      BY <2>1, <2>3, MessageIs
    <3>3. Spare = 0 \/ ~(Spare > 0 /\ Spare < 2)
      BY <2>3, <3>2 DEF Skipped
    <3> HIDE DEF a, r
    <3>4. Spare = 0 \/ k + 3 <= Capacity
      BY <1>2, <1>3, <3>1, <3>3
    <3>5. CASE Spare = 0
      <4>1. Takes(f, <<"ACK">> \o <<>>)
        BY <3>1, <3>5
      <4>2. <<"ACK">> \o <<>> = <<"ACK">>
        OBVIOUS
      <4>3. Takes(f, <<"ACK">>)
        BY <4>1, <4>2
      <4> QED BY <1>1, <1>4, <3>1, <3>5, <4>3 DEF Commission, k
    <3>6. CASE Spare # 0
      <4>1. Takes(f, <<"ACK">> \o Message(r))
        BY <3>1, <3>2, <3>6
      <4> QED BY <1>1, <1>4, <2>1, <3>1, <3>4, <3>6, <4>1 DEF Commission, k
    <3> QED BY <3>5, <3>6
  <2> QED BY <2>2, <2>3
<1>6. CASE PaymentBusy(f)
  <2>1. CASE 2 >= Spare
    BY <1>1, <1>4, <1>6, <2>1 DEF PaymentBusy, k
  <2>2. CASE ~(2 >= Spare)
    <3>1. Takes(f, <<"ACK">> \o Message("S2")) /\ Commission(wset) /\ UNCHANGED history
      BY <1>6, <2>2 DEF PaymentBusy
    <3>2. k + 3 <= Capacity
      BY <1>2, <1>3, <2>2
    <3> QED BY <1>1, <1>4, <3>1, <3>2, SymbolsAre DEF Commission, k
  <2> QED BY <2>1, <2>2
<1> QED BY <1>5, <1>6

\* A frame that is answered, or acknowledged alone when the answer has no room.
LEMMA AnswersKeep ==
  ASSUME EngineInv, InMain, NEW f, f = frob_frame_process(machine, buf["FI_MAIN"]),
         Responds(f) \/ PaymentBusy(f)
  PROVE  Base'
<1>1. /\ f.e # "EAGAIN"
      /\ \/ Takes(f, <<"ACK">>)
         \/ \E x \in Symbol : Takes(f, <<"ACK">> \o Message(x))
      /\ wset' = wset \cup {"FO_MAIN"} /\ (ack' = ack \/ ack' = TRUE)
      /\ UNCHANGED history \/ Irregular
  BY SpokenIs
<1>2. /\ UNCHANGED <<fd, rset, timeout, sigint, pc, todo, process>>
      /\ UNCHANGED <<manner, console, inbox, hungup, owes, lines>>
      /\ UNCHANGED <<ping, pings_left, armed, alarms>>
  BY DEF Responds, PaymentBusy, timers, round, world
<1>3. Aside
  <2>1. ack' \in BOOLEAN
    BY <1>1 DEF EngineInv, Base, Outer
  <2> QED BY <1>1, <1>2, <2>1, AsideIs
<1>4. \E out \in Seq(Symbol) : Takes(f, out) /\ out # <<>>
  <2>1. CASE Takes(f, <<"ACK">>)
    <3>1. <<"ACK">> \in Seq(Symbol) /\ <<"ACK">> # <<>>
      BY SymbolsAre, ShortSeqs
    <3> QED BY <2>1, <3>1
  <2>2. CASE \E x \in Symbol : Takes(f, <<"ACK">> \o Message(x))
    <3>1. PICK x \in Symbol : Takes(f, <<"ACK">> \o Message(x))
      BY <2>2
    <3> DEFINE out == <<"ACK">> \o Message(x)
    <3>2. out \in Seq(Symbol) /\ out # <<>> /\ Takes(f, out)
      BY <3>1, MessageIs
    <3> HIDE DEF out
    <3> QED BY <3>2
  <2> QED BY <1>1, <2>1, <2>2
<1> QED BY <1>1, <1>3, <1>4, TakesKeeps

\* A forwarded S1 is watched on the payment channel and acknowledged on MAIN.
LEMMA ForwardsKeep ==
  ASSUME EngineInv, InMain, NEW f, f = frob_frame_process(machine, buf["FI_MAIN"]), Forwards(f)
  PROVE  Base'
<1> DEFINE skipped == 2 >= Free("NO_PAYMENT")
           a == fnext(f)
           b == buf["FO_MAIN"]
           u == Append(b, "ACK")
           n == buf["NO_PAYMENT"]
           s == Message("S1")
           v == IF skipped THEN n ELSE n \o s
           W == IF skipped THEN {} ELSE {"NO_PAYMENT"}
<1>1. /\ buf' = [buf EXCEPT !["FI_MAIN"] = a, !["FO_MAIN"] = Append(@, "ACK"),
                            !["NO_PAYMENT"] = IF skipped THEN @ ELSE @ \o s]
      /\ wset' = wset \cup {"FO_MAIN"} \cup W /\ machine' = "main"
      /\ "NO_PAYMENT" \in fd /\ f.e # "EAGAIN"
      /\ IF skipped THEN Irregular ELSE UNCHANGED history
  BY DEF Forwards, Good, Renewed
<1>2. /\ UNCHANGED <<fd, rset, timeout, sigint, pc, todo, process>>
      /\ UNCHANGED <<manner, console, inbox, hungup, owes, lines>>
      /\ ack' = ack /\ UNCHANGED <<ping, pings_left, armed, alarms>>
  BY DEF Forwards, flags, timers, round, world
<1>3. ack \in BOOLEAN /\ buf \in [Channel -> Seq(Symbol)]
  BY DEF EngineInv, Base, Outer, Inner
<1>4. Aside
  BY <1>1, <1>2, <1>3, AsideIs
<1>5. a \in Seq(Symbol)
  BY <1>1, RestIs
<1>6. /\ {"FI_MAIN", "FO_MAIN", "NO_PAYMENT"} \subseteq Channel /\ "NO_PAYMENT" \in Outputs
      /\ "NO_PAYMENT" # "FO_MAIN" /\ "NO_PAYMENT" # "FI_MAIN" /\ "FO_MAIN" # "FI_MAIN"
  BY Channels DEF Inputs
<1>7. b \in Seq(Symbol) /\ n \in Seq(Symbol)
  BY <1>3, <1>6
<1>8. s \in Seq(Symbol)
  BY SymbolsAre, MessageIs
<1>9. u \in Seq(Symbol) /\ u # <<>>
  BY <1>7, SymbolsAre, AppendProperties
<1>10. v \in Seq(Symbol)
  BY <1>7, <1>8, Appended
<1>11. buf' = [buf EXCEPT !["FI_MAIN"] = a, !["FO_MAIN"] = u, !["NO_PAYMENT"] = v]
  BY <1>1, <1>3, <1>6
<1>12. W \in SUBSET (Outputs \cap fd) /\ (v = n \/ "NO_PAYMENT" \in W)
  BY <1>1, <1>6
<1>13. machine' \in States
  BY <1>1 DEF States
<1>14. wset' = wset \cup {"FO_MAIN"} \cup W
  BY <1>1
<1> HIDE DEF a, u, v, W
<1> QED BY <1>4, <1>5, <1>9, <1>10, <1>11, <1>12, <1>13, <1>14, AppendKeeps

\* The buffer is used up and the machine stays where it is.
LEMMA MainDoneKeeps ==
  ASSUME EngineInv, InMain, NEW f, f = frob_frame_process(machine, buf["FI_MAIN"]), MainDone(f)
  PROVE  Base'
<1>0. Outer /\ Inner /\ Wiring /\ Stage /\ Delivered /\ Watched /\ WaitsGuarded
  BY DEF EngineInv, Base
<1> DEFINE e == <<>>
<1>1. /\ todo' = todo \ {"FI_MAIN"} /\ buf' = [buf EXCEPT !["FI_MAIN"] = e] /\ machine' = f.cs
      /\ UNCHANGED history \/ Irregular
      /\ UNCHANGED <<fd, wset, rset, timeout, ack, ping, pings_left, armed, alarms, sigint, pc, process>>
      /\ UNCHANGED <<manner, console, inbox, hungup, owes, lines>>
  BY DEF MainDone, flags, timers, world
<1>2. e \in Seq(Symbol)
  BY ShortSeqs
<1> HIDE DEF e
<1>3. f.cs \in States
  BY RestIs
<1>4. /\ {"FI_MAIN", "FO_MAIN", "II_SIGNAL"} \subseteq Channel
      /\ "FI_MAIN" \notin Outputs /\ Outputs \subseteq Channel
  BY Channels DEF Inputs
<1>5. /\ buf' \in [Channel -> Seq(Symbol)]
      /\ \A c \in Channel : c # "FI_MAIN" => buf'[c] = buf[c]
  BY <1>0, <1>1, <1>2, <1>4 DEF Inner
<1>6. jammed' = jammed /\ {regular', astray'} \subseteq BOOLEAN
  <2>1. {regular, astray} \subseteq BOOLEAN
    BY <1>0 DEF Outer
  <2>2. CASE UNCHANGED history
    BY <2>1, <2>2 DEF history
  <2>3. CASE Irregular
    BY <2>1, <2>3 DEF Irregular, Forgets
  <2> QED BY <1>1, <2>2, <2>3
<1>7. Outer'
  <2>1. {ack, ping, sigint, hungup, jammed} \subseteq BOOLEAN
    BY <1>0 DEF Outer
  <2>2. {ack', ping', sigint', hungup', astray', regular', jammed'} \subseteq BOOLEAN
    BY <1>1, <1>6, <2>1
  <2> QED BY <1>0, <1>1, <1>3, <2>2 DEF Outer, States
<1>8. Inner'
  BY <1>0, <1>1, <1>4, <1>5 DEF Inner
<1>9. Wiring' /\ Stage' /\ Delivered'
  <2>1. pc = "process"
    BY DEF InMain, At
  <2> QED BY <1>0, <1>1, <1>4, <1>5, <2>1 DEF Wiring, Stage, Delivered
<1>10. Watched'
  <2>1. Echoes => Echoes'
    BY <1>1 DEF Echoes
  <2> QED BY <1>0, <1>1, <1>4, <1>5, <1>6, <2>1 DEF Watched
<1>11. WaitsGuarded'
  <2>1. buf'["FO_MAIN"] = buf["FO_MAIN"] /\ buf'["II_SIGNAL"] = buf["II_SIGNAL"]
    BY <1>4, <1>5
  <2> QED BY <1>0, <1>1, <1>6, <2>1 DEF WaitsGuarded, OnTheWay
<1> QED BY <1>7, <1>8, <1>9, <1>10, <1>11 DEF Base

\* All of process_main.
LEMMA ProcessKeeps == ASSUME EngineInv, process_main PROVE Base'
<1> DEFINE f == frob_frame_process(machine, buf["FI_MAIN"])
<1>1. /\ InMain /\ process = "up"
      /\ \/ AckOverruns(f) \/ BadLrc(f) \/ EmptyMessage(f) \/ BadParse(f) \/ Pong(f) \/ Responds(f)
         \/ AnswerFails(f) \/ Forwards(f) \/ PaymentBusy(f) \/ BusyFails(f) \/ Unhandled(f)
         \/ MainDone(f)
  BY DEF process_main, InMain, At
<1>2. f = frob_frame_process(machine, buf["FI_MAIN"])
  OBVIOUS
<1> HIDE DEF f
<1>3. CASE EmptyMessage(f) \/ AnswerFails(f) \/ BusyFails(f) \/ Unhandled(f)
  <2>1. \E how : Ends(how)
    BY <1>3 DEF EmptyMessage, AnswerFails, BusyFails, Unhandled
  <2> QED BY <1>1, <2>1, EndsKeeps
<1>4. CASE BadLrc(f) \/ BadParse(f) \/ AckOverruns(f)
  BY <1>1, <1>2, <1>4, RefusedKeeps
<1>5. CASE Pong(f)
  BY <1>1, <1>2, <1>5, PongKeeps
<1>6. CASE Responds(f) \/ PaymentBusy(f)
  BY <1>1, <1>2, <1>6, AnswersKeep
<1>7. CASE Forwards(f)
  BY <1>1, <1>2, <1>7, ForwardsKeep
<1>8. CASE MainDone(f)
  BY <1>1, <1>2, <1>8, MainDoneKeeps
<1> QED BY <1>1, <1>3, <1>4, <1>5, <1>6, <1>7, <1>8

\* The handlers are done: what they asked to be watched is given to select.
LEMMA RoundKeeps == ASSUME EngineInv, RoundDone PROVE Base'
<1>0. Outer /\ Inner /\ Wiring /\ Stage /\ Delivered /\ Watched /\ WaitsGuarded
  BY DEF EngineInv, Base
<1>1. /\ pc = "process" /\ todo \cap fd = {} /\ pc' = "select" /\ todo' = {} /\ rset' = rset \ fd
      /\ UNCHANGED <<fd, buf, wset, timeout, machine, ack, ping, pings_left, armed, alarms, sigint, process>>
      /\ UNCHANGED <<manner, console, inbox, hungup, owes, lines, astray, regular, jammed>>
  BY DEF RoundDone, At, flags, timers, world, history
<1>2. buf["II_SIGNAL"] = <<>>
  BY <1>0, <1>1 DEF Wiring, Delivered
<1>3. Outer'
  BY <1>0, <1>1 DEF Outer
<1>4. Inner'
  BY <1>0, <1>1 DEF Inner
<1>5. Wiring' /\ Stage' /\ Delivered'
  BY <1>0, <1>1, <1>2 DEF Wiring, Stage, Delivered
<1>6. Watched' /\ WaitsGuarded'
  <2>1. Echoes => "CO_MASTER" \notin fd
    BY <1>0, <1>1 DEF Echoes, Wiring
  <2> QED BY <1>0, <1>1, <2>1 DEF Watched, WaitsGuarded, OnTheWay
<1> QED BY <1>3, <1>4, <1>5, <1>6 DEF Base

-----------------------------------------------------------------------------
(* The world *)

\* What the round works on is left alone, and a signal that was on its way still is.
LEMMA OutsideKeeps ==
  ASSUME EngineInv, Outer', UNCHANGED <<fd, buf, wset, rset, pc, todo, ack, ping, jammed, console>>,
         process = "up",
         \A timer \in {"timer_ack", "timer_ping"} : OnTheWay(timer) => OnTheWay(timer)'
  PROVE  Base'
<1>0. Inner /\ Wiring /\ Stage /\ Delivered /\ Watched /\ WaitsGuarded
  BY DEF EngineInv, Base
<1>1. Inner'
  BY <1>0 DEF Inner
<1>2. Wiring' /\ Stage' /\ Delivered' /\ Watched'
  BY <1>0 DEF Wiring, Stage, Delivered, Watched, Echoes
<1>3. WaitsGuarded'
  BY <1>0 DEF WaitsGuarded
<1> QED BY <1>1, <1>2, <1>3 DEF Base

\* The peer sends a request, or what it owes, or nothing more.
LEMMA PeerKeeps ==
  ASSUME EngineInv, pc = "select", PeerSends \/ PeerReplies \/ PeerHangsUp
  PROVE  Base'
<1>0. Outer
  BY DEF EngineInv, Base
<1>1. /\ process = "up"
      /\ UNCHANGED <<fd, buf, wset, rset, timeout, machine, ack, ping, pings_left>>
      /\ UNCHANGED <<armed, alarms, sigint, pc, todo, process>>
      /\ UNCHANGED <<manner, console, lines, astray, regular, jammed>>
  BY DEF PeerSends, PeerReplies, PeerHangsUp, io, flags, timers, round, history
<1>2. hungup' \in BOOLEAN
  BY <1>0 DEF PeerSends, PeerReplies, PeerHangsUp, Outer
<1>3. inbox' \in Seq(Seq(Symbol)) /\ owes' \in Seq(Seq(Symbol))
  <2>0. inbox \in Seq(Seq(Symbol)) /\ owes \in Seq(Seq(Symbol))
    BY <1>0 DEF Outer
  <2>1. CASE PeerSends
    <3>1. PICK q \in Requests \cup Polite : inbox' = Append(inbox, q.bytes)
      BY <2>1 DEF PeerSends
    <3>2. owes' = owes
      BY <2>1 DEF PeerSends
    <3> QED BY <2>0, <3>1, <3>2, RequestsAre, AppendProperties
  <2>2. CASE PeerReplies
    <3>1. owes # <<>> /\ inbox' = <<Head(owes)>> /\ owes' = Tail(owes)
      BY <2>2 DEF PeerReplies
    <3>2. Head(owes) \in Seq(Symbol) /\ Tail(owes) \in Seq(Seq(Symbol))
      BY <2>0, <3>1, HeadTailProperties
    <3> QED BY <3>1, <3>2, ShortSeqs
  <2>3. CASE PeerHangsUp
    BY <2>0, <2>3 DEF PeerHangsUp
  <2> QED BY <2>1, <2>2, <2>3
<1>4. Outer'
  <2>1. {ack', ping', sigint', hungup', astray', regular', jammed'} \subseteq BOOLEAN
    BY <1>0, <1>1, <1>2 DEF Outer
  <2> QED BY <1>0, <1>1, <1>3, <2>1 DEF Outer
<1>5. \A timer \in {"timer_ack", "timer_ping"} : OnTheWay(timer) => OnTheWay(timer)'
  BY <1>1 DEF OnTheWay
<1> QED BY <1>1, <1>4, <1>5, OutsideKeeps

\* A line for the console.
LEMMA UserKeeps == ASSUME EngineInv, UserTypes PROVE Base'
<1>0. Outer
  BY DEF EngineInv, Base
<1>1. /\ process = "up"
      /\ UNCHANGED <<fd, buf, wset, rset, timeout, machine, ack, ping, pings_left>>
      /\ UNCHANGED <<armed, alarms, sigint, pc, todo, process>>
      /\ UNCHANGED <<manner, console, inbox, hungup, owes, astray, regular, jammed>>
  BY DEF UserTypes, io, flags, timers, round, history
<1>2. PICK line \in {<<"char", "char", "lf">>, <<"nak", "lf">>, <<>>} : lines' = Append(lines, line)
  BY DEF UserTypes
<1>3. line \in Seq(Symbol)
  <2>1. <<"char", "char", "lf">> \in Seq(Symbol)
    BY SymbolsAre, ShortSeqs
  <2>2. <<"nak", "lf">> \in Seq(Symbol)
    BY SymbolsAre, ShortSeqs
  <2>3. <<>> \in Seq(Symbol)
    BY ShortSeqs
  <2> QED BY <2>1, <2>2, <2>3
<1>4. Outer'
  <2>1. lines' \in Seq(Seq(Symbol))
    BY <1>0, <1>2, <1>3, AppendProperties DEF Outer
  <2> QED BY <1>0, <1>1, <2>1 DEF Outer
<1>5. \A timer \in {"timer_ack", "timer_ping"} : OnTheWay(timer) => OnTheWay(timer)'
  BY <1>1 DEF OnTheWay
<1> QED BY <1>1, <1>4, <1>5, OutsideKeeps

\* A new signal in front, or behind, leaves the others where they can be read.
LEMMA Queued ==
  ASSUME NEW s \in Seq(Signal), IsInjective(s), NEW x \in Signal, ~Contains(s, x),
         NEW t \in {Append(s, x), <<x>> \o s}
  PROVE  /\ t \in Seq(Signal) /\ IsInjective(t) /\ Contains(t, x)
         /\ \A y : Contains(s, y) => Contains(t, y)
<1> DEFINE n == Len(s)
<1>1. n \in Nat /\ DOMAIN s = 1..n /\ \A i \in 1..n : s[i] \in Signal /\ s[i] # x
  BY LenProperties, ElementOfSeq DEF Contains
<1>2. \A i, j \in 1..n : s[i] = s[j] => i = j
  BY <1>1 DEF IsInjective
<1>3. CASE t = Append(s, x)
  <2>1. t \in Seq(Signal) /\ Len(t) = n + 1 /\ (\A i \in 1..n : t[i] = s[i]) /\ t[n + 1] = x
    BY <1>3, AppendProperties
  <2> HIDE DEF n
  <2>2. DOMAIN t = 1..(n + 1)
    BY <2>1, LenProperties
  <2>3. IsInjective(t)
    <3> SUFFICES ASSUME NEW i \in 1..(n + 1), NEW j \in 1..(n + 1), t[i] = t[j] PROVE i = j
      BY <2>2 DEF IsInjective
    <3>1. CASE i \in 1..n /\ j \in 1..n
      BY <1>2, <2>1, <3>1
    <3>2. CASE i = n + 1 \/ j = n + 1
      BY <1>1, <2>1, <3>2
    <3> QED BY <1>1, <3>1, <3>2
  <2>4. Contains(t, x)
    BY <1>1, <2>1 DEF Contains
  <2>5. \A y : Contains(s, y) => Contains(t, y)
    BY <1>1, <2>1 DEF Contains, n
  <2> QED BY <2>1, <2>3, <2>4, <2>5
<1>4. CASE t = <<x>> \o s
  <2> DEFINE a == <<x>>
  <2>1. a \in Seq(Signal) /\ Len(a) = 1 /\ a[1] = x
    BY ShortSeqs
  <2> HIDE DEF a
  <2>2. /\ t \in Seq(Signal) /\ Len(t) = 1 + n
        /\ \A i \in 1..(1 + n) : t[i] = IF i <= 1 THEN a[i] ELSE s[i - 1]
    <3>1. t = a \o s
      BY <1>4 DEF a
    <3> QED BY <2>1, <3>1, ConcatProperties
  <2> HIDE DEF n
  <2>3. t[1] = x /\ \A i \in 2..(n + 1) : t[i] = s[i - 1] /\ i - 1 \in 1..n
    BY <1>1, <2>1, <2>2
  <2>4. DOMAIN t = 1..(n + 1)
    BY <1>1, <2>2, LenProperties
  <2>5. IsInjective(t)
    <3> SUFFICES ASSUME NEW i \in 1..(n + 1), NEW j \in 1..(n + 1), t[i] = t[j] PROVE i = j
      BY <2>4 DEF IsInjective
    <3>1. CASE i \in 2..(n + 1) /\ j \in 2..(n + 1)
      <4>1. s[i - 1] = s[j - 1] /\ i - 1 \in 1..n /\ j - 1 \in 1..n
        BY <2>3, <3>1
      <4>2. i - 1 = j - 1
        BY <1>2, <4>1
      <4> QED BY <4>2
    <3>2. CASE i = 1 \/ j = 1
      BY <1>1, <2>3, <3>2
    <3> QED BY <1>1, <3>1, <3>2
  <2>6. Contains(t, x)
    BY <1>1, <2>2, <2>3 DEF Contains
  <2>7. \A y : Contains(s, y) => Contains(t, y)
    <3> SUFFICES ASSUME NEW i \in 1..n PROVE \E j \in 1..Len(t) : t[j] = s[i]
      BY DEF Contains, n
    <3>1. i + 1 \in 2..(n + 1) /\ i + 1 \in 1..Len(t) /\ (i + 1) - 1 = i
      BY <1>1, <2>2
    <3> QED BY <2>3, <3>1
  <2> QED BY <2>2, <2>5, <2>6, <2>7
<1> QED BY <1>3, <1>4

\* A timer that runs out gives way to its signal.
LEMMA TimerKeeps ==
  ASSUME EngineInv, NEW timer \in {"timer_ack", "timer_ping"}, TimerExpires(timer)
  PROVE  Base'
<1>0. Outer
  BY DEF EngineInv, Base
<1>1. /\ process = "up" /\ armed' = armed \ {timer}
      /\ alarms' = IF Contains(alarms, timer) THEN alarms ELSE Append(alarms, timer)
      /\ UNCHANGED <<fd, buf, wset, rset, timeout, machine, ack, ping, pings_left>>
      /\ UNCHANGED <<sigint, pc, todo, process>>
      /\ UNCHANGED <<manner, console, inbox, hungup, owes, lines, astray, regular, jammed>>
  BY DEF TimerExpires, io, flags, round, world, history
<1>2. alarms \in Seq(Signal) /\ IsInjective(alarms) /\ timer \in Signal
  BY <1>0 DEF Outer, Signal
<1>3. /\ alarms' \in Seq(Signal) /\ IsInjective(alarms') /\ Contains(alarms', timer)
      /\ \A y : Contains(alarms, y) => Contains(alarms', y)
  BY <1>1, <1>2, Queued
<1>4. Outer'
  BY <1>0, <1>1, <1>3 DEF Outer
<1>5. \A other \in {"timer_ack", "timer_ping"} : OnTheWay(other) => OnTheWay(other)'
  BY <1>1, <1>3 DEF OnTheWay
<1> QED BY <1>1, <1>4, <1>5, OutsideKeeps

\* SIGINT comes before the timers' signals and takes none of them away.
LEMMA InterruptKeeps == ASSUME EngineInv, Interrupt PROVE Base'
<1>0. Outer
  BY DEF EngineInv, Base
<1> DEFINE r == RemoveFirst(alarms, "SIGINT")
<1>1. /\ process = "up"
      /\ alarms' = alarms \/ alarms' = <<"SIGINT">> \o r
      /\ UNCHANGED <<fd, buf, wset, rset, timeout, machine, ack, ping, pings_left, armed>>
      /\ UNCHANGED <<sigint, pc, todo>>
      /\ UNCHANGED <<manner, console, inbox, hungup, owes, lines, astray, regular, jammed>>
  BY DEF Interrupt, io, flags, history, Cons
<1>2. alarms \in Seq(Signal) /\ IsInjective(alarms) /\ "SIGINT" \in Signal
  BY <1>0 DEF Outer, Signal
<1>3. /\ r \in Seq(Signal) /\ IsInjective(r) /\ ~Contains(r, "SIGINT")
      /\ \A x : x # "SIGINT" => (Contains(r, x) <=> Contains(alarms, x))
  BY <1>2, WithoutOne
<1> HIDE DEF r
<1>4. /\ alarms' \in Seq(Signal) /\ IsInjective(alarms')
      /\ \A x : x # "SIGINT" /\ Contains(alarms, x) => Contains(alarms', x)
  <2>1. CASE alarms' = alarms
    BY <1>2, <2>1
  <2>2. CASE alarms' = <<"SIGINT">> \o r
    <3>1. /\ alarms' \in Seq(Signal) /\ IsInjective(alarms')
          /\ \A y : Contains(r, y) => Contains(alarms', y)
      BY <1>2, <1>3, <2>2, Queued
    <3> QED BY <1>3, <3>1
  <2> QED BY <1>1, <2>1, <2>2
<1>5. Outer'
  BY <1>0, <1>1, <1>4 DEF Outer
<1>6. \A timer \in {"timer_ack", "timer_ping"} : OnTheWay(timer) => OnTheWay(timer)'
  BY <1>1, <1>4 DEF OnTheWay
<1> QED BY <1>1, <1>5, <1>6, OutsideKeeps

\* All that comes from outside.
LEMMA WorldKeeps == ASSUME EngineInv, World PROVE Base'
<1>1. CASE pc = "select" /\ (PeerSends \/ PeerReplies \/ PeerHangsUp)
  BY <1>1, PeerKeeps
<1>2. CASE Interrupt
  BY <1>2, InterruptKeeps
<1>3. CASE UserTypes
  BY <1>3, UserKeeps
<1>4. CASE \E timer \in {"timer_ack", "timer_ping"} : TimerExpires(timer)
  BY <1>4, TimerKeeps
<1> QED BY <1>1, <1>2, <1>3, <1>4 DEF World

-----------------------------------------------------------------------------
(* The console, and the room in the buffers *)

Console == {"CI_MASTER", "CO_MASTER"}

\* The steps there are.
LEMMA StepIs ==
  ASSUME Next
  PROVE  \/ \E how : process = "up" /\ Ends(how)
         \/ SelectReports \/ Pings \/ (\E c \in Outputs : PendingWrite(c)) \/ ReadSignals
         \/ ConsoleCloses \/ (\E c \in {"CO_MASTER", "CI_MASTER"} : ConsoleRead(c))
         \/ MainRead \/ MainEnds \/ IoDone \/ RoundDone
         \/ process_signal \/ process_master \/ process_main
         \/ PeerSends \/ PeerReplies \/ PeerHangsUp \/ UserTypes
         \/ (\E timer \in {"timer_ack", "timer_ping"} : TimerExpires(timer)) \/ Interrupt
<1>1. CASE WaitForIo
  BY <1>1 DEF WaitForIo, SelectFails, SelectPolls, PingsExhausted, PingImpossible, TimesOut,
              NothingReady, At
<1>2. CASE PerformPendingIo
  BY <1>2 DEF PerformPendingIo, ArmsTwice, OutputRead, WritesNothing, WritesBeyond, At
<1>3. CASE World
  BY <1>3 DEF World
<1> QED BY <1>1, <1>2, <1>3 DEF Next, Program

\* What a read leaves alone.
LEMMA TookFrame ==
  ASSUME EngineInv, NEW c, NEW a, Took(c, a)
  PROVE  /\ \A d \in Channel : d \notin {c, "FO_MAIN"} => buf'[d] = buf[d]
         /\ c # "FO_MAIN" => buf'["FO_MAIN"] = buf["FO_MAIN"] \/ buf'["FO_MAIN"] = <<>>
         /\ Contains(alarms', "SIGINT") => Contains(alarms, "SIGINT")
<1>1. buf \in [Channel -> Seq(Symbol)] /\ alarms \in Seq(Signal) /\ IsInjective(alarms)
  BY DEF EngineInv, Base, Outer, Inner
<1>2. "FO_MAIN" \in Channel
  BY Channels
<1> DEFINE e == <<>>
           b == buf[c] \o a
<1>3. CASE Acknowledged(c, a)
  <2>1. /\ buf' = [buf EXCEPT ![c] = b, !["FO_MAIN"] = e]
        /\ alarms' = alarms \/ alarms' = RemoveFirst(alarms, "timer_ack")
    BY <1>3 DEF Acknowledged, Disarm
  <2>2. Contains(alarms', "SIGINT") => Contains(alarms, "SIGINT")
    BY <1>1, <2>1, WithoutOne
  <2> HIDE DEF e, b
  <2>3. /\ \A d \in Channel : d \notin {c, "FO_MAIN"} => buf'[d] = buf[d]
        /\ buf'["FO_MAIN"] = e
    BY <1>1, <1>2, <2>1
  <2> QED BY <2>2, <2>3 DEF e
<1>4. CASE Put(c, a) /\ UNCHANGED <<ack, timers>>
  <2>1. buf' = [buf EXCEPT ![c] = b] /\ alarms' = alarms
    BY <1>4 DEF Put, timers
  <2> HIDE DEF b
  <2> QED BY <1>1, <1>2, <2>1
<1> QED BY <1>3, <1>4 DEF Took

\* A step that leaves the console and SIGINT alone.
LEMMA StillUnopened ==
  ASSUME Unopened, process = "up", sigint' = sigint,
         sigint => buf'["CO_MASTER"] = <<>>,
         sigint => Console \cap (fd' \cup wset' \cup rset' \cup todo') = {},
         buf'["II_SIGNAL"] = buf["II_SIGNAL"],
         Contains(alarms', "SIGINT") => Contains(alarms, "SIGINT")
  PROVE  Unopened'
BY DEF Unopened, Console

\* A channel that is visited is in todo.
LEMMA VisitedIs ==
  ASSUME EngineInv, NEW c, todo # {}, c = First(todo)
  PROVE  c \in todo
BY FirstIs DEF EngineInv, Base, Inner

\* What a step of process_main does not touch.
LEMMA MainFrame ==
  ASSUME EngineInv, process_main
  PROVE  /\ process = "up" /\ UNCHANGED <<fd, rset, sigint>> /\ todo' \subseteq todo
         /\ wset' \subseteq wset \cup {"FO_MAIN", "NO_PAYMENT"}
         /\ \A c \in {"CO_MASTER", "CI_MASTER", "II_SIGNAL"} : buf'[c] = buf[c]
         /\ Contains(alarms', "SIGINT") => Contains(alarms, "SIGINT")
<1> DEFINE f == frob_frame_process(machine, buf["FI_MAIN"])
           K == {"CO_MASTER", "CI_MASTER", "II_SIGNAL"}
<1>1. /\ InMain /\ process = "up"
      /\ \/ AckOverruns(f) \/ BadLrc(f) \/ EmptyMessage(f) \/ BadParse(f) \/ Pong(f) \/ Responds(f)
         \/ AnswerFails(f) \/ Forwards(f) \/ PaymentBusy(f) \/ BusyFails(f) \/ Unhandled(f)
         \/ MainDone(f)
  BY DEF process_main, InMain, At
<1> HIDE DEF f
<1>2. alarms \in Seq(Signal) /\ IsInjective(alarms) /\ buf \in [Channel -> Seq(Symbol)]
  BY DEF EngineInv, Base, Outer, Inner
<1>3. ASSUME NEW out, Takes(f, out) PROVE \A c \in K : buf'[c] = buf[c]
  <2>1. buf' = [buf EXCEPT !["FI_MAIN"] = fnext(f), !["FO_MAIN"] = @ \o out]
    BY <1>3 DEF Takes
  <2>2. K \subseteq Channel
    BY Channels DEF Inputs
  <2> QED BY <1>2, <2>1, <2>2
<1>4. CASE EmptyMessage(f) \/ AnswerFails(f) \/ BusyFails(f) \/ Unhandled(f)
  <2>1. \E how : Ends(how)
    BY <1>4 DEF EmptyMessage, AnswerFails, BusyFails, Unhandled
  <2> QED BY <1>1, <2>1 DEF Ends, io, timers
<1>5. CASE AckOverruns(f) \/ BadLrc(f) \/ BadParse(f)
  <2>1. \E out : Takes(f, out)
    BY <1>5 DEF AckOverruns, BadLrc, BadParse
  <2>2. /\ UNCHANGED <<fd, rset, sigint, alarms, todo>> /\ wset' = wset \cup {"FO_MAIN"}
    BY <1>5 DEF AckOverruns, BadLrc, BadParse, timers, round
  <2> QED BY <1>1, <1>3, <2>1, <2>2
<1>6. CASE Pong(f)
  <2>1. /\ UNCHANGED <<fd, rset, sigint, todo>> /\ wset' = wset \cup {"FO_MAIN"}
        /\ Disarm("timer_ping") /\ Takes(f, <<"ACK">>)
    BY <1>6 DEF Pong, round
  <2>2. Contains(alarms', "SIGINT") => Contains(alarms, "SIGINT")
    <3>1. alarms' = alarms \/ alarms' = RemoveFirst(alarms, "timer_ping")
      BY <2>1 DEF Disarm
    <3> QED BY <1>2, <3>1, WithoutOne
  <2> QED BY <1>1, <1>3, <2>1, <2>2
<1>7. CASE Responds(f) \/ PaymentBusy(f)
  <2>1. /\ \E out : Takes(f, out)
        /\ wset' = wset \cup {"FO_MAIN"}
    <3>1. /\ Takes(f, <<"ACK">>) \/ \E x \in Symbol : Takes(f, <<"ACK">> \o Message(x))
          /\ wset' = wset \cup {"FO_MAIN"}
      BY <1>1, <1>7, SpokenIs DEF f
    <3> QED BY <3>1
  <2>2. UNCHANGED <<fd, rset, sigint, alarms, todo>>
    BY <1>7 DEF Responds, PaymentBusy, timers, round
  <2> QED BY <1>1, <1>3, <2>1, <2>2
<1>8. CASE Forwards(f)
  <2> DEFINE skipped == 2 >= Free("NO_PAYMENT")
  <2>1. /\ buf' = [buf EXCEPT !["FI_MAIN"] = fnext(f), !["FO_MAIN"] = Append(@, "ACK"),
                              !["NO_PAYMENT"] = IF skipped THEN @ ELSE @ \o Message("S1")]
        /\ wset' = wset \cup {"FO_MAIN"} \cup (IF skipped THEN {} ELSE {"NO_PAYMENT"})
        /\ UNCHANGED <<fd, rset, sigint, alarms, todo>>
    BY <1>8 DEF Forwards, timers, round
  <2> HIDE DEF skipped
  <2>2. K \subseteq Channel
    BY Channels DEF Inputs
  <2>3. wset' \subseteq wset \cup {"FO_MAIN", "NO_PAYMENT"}
    BY <2>1
  <2>4. \A c \in K : buf'[c] = buf[c]
    BY <1>2, <2>1, <2>2
  <2> QED BY <1>1, <2>1, <2>3, <2>4
<1>9. CASE MainDone(f)
  <2>1. /\ todo' = todo \ {"FI_MAIN"} /\ buf' = [buf EXCEPT !["FI_MAIN"] = <<>>]
        /\ UNCHANGED <<fd, rset, wset, sigint, alarms>>
    BY <1>9 DEF MainDone, timers
  <2>2. K \subseteq Channel
    BY Channels DEF Inputs
  <2> QED BY <1>1, <1>2, <2>1, <2>2
<1> QED BY <1>1, <1>4, <1>5, <1>6, <1>7, <1>8, <1>9

\* A console is opened by a SIGINT only, which it ends the blocking of.
LEMMA UnopenedKeeps == ASSUME EngineInv, Next PROVE Unopened'
<1>0. Outer /\ Inner /\ Wiring /\ Stage /\ Delivered /\ Unopened
  BY DEF EngineInv, Base
<1>1. alarms \in Seq(Signal) /\ IsInjective(alarms) /\ buf \in [Channel -> Seq(Symbol)]
  BY <1>0 DEF Outer, Inner
<1>2. {"CO_MASTER", "II_SIGNAL", "FO_MAIN", "FI_MAIN"} \subseteq Channel /\ Inputs \cap Outputs = {}
  BY Channels DEF Inputs
<1>3. sigint => /\ buf["CO_MASTER"] = <<>>
               /\ Console \cap (fd \cup wset \cup rset \cup todo) = {}
  BY <1>0 DEF Unopened, Console
<1>4. ASSUME process = "up", UNCHANGED <<sigint, alarms, buf>>,
             fd' \subseteq fd, wset' \subseteq wset, rset' \subseteq rset,
             todo' \subseteq todo \cup rset
      PROVE  Unopened'
  BY <1>0, <1>3, <1>4, StillUnopened
<1>5. CASE \E how : process = "up" /\ Ends(how)
  <2>1. process = "up" /\ UNCHANGED <<sigint, alarms, buf, fd, wset, rset, todo>>
    BY <1>5 DEF Ends, io, timers
  <2> QED BY <1>4, <2>1
<1>6. CASE SelectReports
  <2>1. PICK full \in SUBSET wset :
          /\ wset' = wset \ full /\ rset' = Readable /\ UNCHANGED <<sigint, alarms, buf, fd>>
          /\ process = "up"
          /\ todo' = (wset \ full) \cup Readable
                      \cup (IF console = "shared" /\ "CI_MASTER" \in Readable THEN {"CO_MASTER"} ELSE {})
    BY <1>6 DEF SelectReports, timers, At
  <2>2. Readable \subseteq fd
    BY DEF Readable
  <2>3. sigint => Console \cap (fd' \cup wset' \cup rset' \cup todo') = {}
    BY <1>3, <2>1, <2>2 DEF Console
  <2> QED BY <1>0, <1>3, <2>1, <2>3, StillUnopened
<1>7. CASE Pings
  <2>1. /\ process = "up" /\ UNCHANGED <<sigint, alarms, fd>>
        /\ buf' = [buf EXCEPT !["FO_MAIN"] = @ \o Message("T1")]
        /\ wset' = {"FO_MAIN"} /\ rset' = {} /\ todo' = {"FO_MAIN"}
    BY <1>7 DEF Pings, TimesOut, NothingReady, At, Put, Commission, timers
  <2>2. sigint => Console \cap (fd' \cup wset' \cup rset' \cup todo') = {}
    BY <1>3, <2>1 DEF Console
  <2>3. buf'["CO_MASTER"] = buf["CO_MASTER"] /\ buf'["II_SIGNAL"] = buf["II_SIGNAL"]
    BY <1>1, <1>2, <2>1
  <2> QED BY <1>0, <1>3, <2>1, <2>2, <2>3, StillUnopened
<1>8. CASE \E c \in Outputs : PendingWrite(c)
  <2>1. PICK c \in Outputs : PendingWrite(c)
    BY <1>8
  <2>2. /\ process = "up" /\ UNCHANGED <<sigint, alarms, fd, rset>>
        /\ buf' = [buf EXCEPT ![c] = <<>>] /\ wset' = wset \ {c} /\ todo' \subseteq todo
    BY <2>1 DEF PendingWrite, At
  <2>3. c # "II_SIGNAL" /\ c \in Channel
    BY <1>2, Channels DEF Inputs
  <2>4. /\ buf'["II_SIGNAL"] = buf["II_SIGNAL"]
        /\ buf'["CO_MASTER"] = buf["CO_MASTER"] \/ buf'["CO_MASTER"] = <<>>
    BY <1>1, <1>2, <2>2, <2>3
  <2>5. sigint => Console \cap (fd' \cup wset' \cup rset' \cup todo') = {}
    BY <1>3, <2>2
  <2> QED BY <1>0, <1>3, <2>2, <2>4, <2>5, StillUnopened
<1>9. CASE ReadSignals
  <2>1. /\ process = "up" /\ pc = "io" /\ UNCHANGED <<sigint, fd, wset, rset, process>> /\ todo' \subseteq todo
        /\ "II_SIGNAL" \in todo
        /\ buf' = [buf EXCEPT !["II_SIGNAL"] = @ \o alarms] /\ alarms' = <<>>
    BY <1>9, VisitedIs DEF ReadSignals, Visits, At, Put
  <2>2. buf["II_SIGNAL"] = <<>>
    BY <1>0, <2>1 DEF Delivered
  <2>3. <<>> \o alarms = alarms
    BY <1>1, Appended, ShortSeqs
  <2>4. buf'["II_SIGNAL"] = alarms /\ buf'["CO_MASTER"] = buf["CO_MASTER"]
    BY <1>1, <1>2, <2>1, <2>2, <2>3
  <2>5. ~Contains(<<>>, "SIGINT")
    BY ShortSeqs DEF Contains
  <2>6. ~Contains(alarms', "SIGINT")
    BY <2>1, <2>5
  <2>7. sigint => Console \cap (fd' \cup wset' \cup rset' \cup todo') = {}
    BY <1>3, <2>1
  <2> QED BY <1>0, <1>3, <2>1, <2>4, <2>6, <2>7 DEF Unopened, Console
<1>10. CASE ConsoleCloses \/ \E c \in {"CO_MASTER", "CI_MASTER"} : ConsoleRead(c)
  <2>1. /\ process = "up" /\ UNCHANGED <<sigint, process>>
        /\ buf'["II_SIGNAL"] = buf["II_SIGNAL"]
        /\ Contains(alarms', "SIGINT") => Contains(alarms, "SIGINT")
    <3>1. CASE ConsoleCloses
      BY <3>1 DEF ConsoleCloses, Visits, At, timers
    <3>2. CASE \E c \in {"CO_MASTER", "CI_MASTER"} : ConsoleRead(c)
      <4>1. PICK c \in {"CO_MASTER", "CI_MASTER"} : ConsoleRead(c)
        BY <3>2
      <4>2. \E a : Took(c, a)
        BY <4>1 DEF ConsoleRead
      <4>3. c # "II_SIGNAL"
        OBVIOUS
      <4> QED BY <1>1, <1>2, <4>1, <4>2, <4>3, TookFrame DEF ConsoleRead, Visits, At
    <3> QED BY <1>10, <3>1, <3>2
  <2>2. \E c \in Console : c \in todo
    BY <1>10, VisitedIs DEF ConsoleCloses, ConsoleRead, Visits, Console
  <2>3. ~sigint
    BY <1>3, <2>2
  <2> QED BY <1>0, <2>1, <2>3, StillUnopened
<1>11. CASE MainRead
  <2>1. /\ process = "up" /\ UNCHANGED <<sigint, fd, wset, rset>> /\ todo' \subseteq todo
        /\ \E a : Took("FI_MAIN", a)
    BY <1>11 DEF MainRead, Visits, At
  <2>2. /\ buf'["II_SIGNAL"] = buf["II_SIGNAL"] /\ buf'["CO_MASTER"] = buf["CO_MASTER"]
        /\ Contains(alarms', "SIGINT") => Contains(alarms, "SIGINT")
    <3>1. PICK a : Took("FI_MAIN", a)
      BY <2>1
    <3>2. /\ \A d \in Channel : d \notin {"FI_MAIN", "FO_MAIN"} => buf'[d] = buf[d]
          /\ Contains(alarms', "SIGINT") => Contains(alarms, "SIGINT")
      BY <3>1, TookFrame
    <3> QED BY <3>2, Channels DEF Inputs
  <2>3. sigint => Console \cap (fd' \cup wset' \cup rset' \cup todo') = {}
    BY <1>3, <2>1
  <2> QED BY <1>0, <1>3, <2>1, <2>2, <2>3, StillUnopened
<1>12. CASE MainEnds \/ IoDone \/ RoundDone
  <2>1. /\ process = "up" /\ UNCHANGED <<sigint, alarms, buf>>
        /\ fd' \subseteq fd /\ wset' \subseteq wset /\ rset' \subseteq rset
        /\ todo' \subseteq todo \cup rset
    BY <1>12 DEF MainEnds, IoDone, RoundDone, Visits, At, close_main_channel, timers
  <2> QED BY <1>4, <2>1
<1>13. CASE process_signal
  <2>1. /\ sigint' = (sigint /\ ~Interrupted) /\ todo' \subseteq todo
        /\ buf' = [buf EXCEPT !["II_SIGNAL"] = <<>>,
                              !["CO_MASTER"] = IF Interrupted THEN Append(@, "prompt") ELSE @]
        /\ UNCHANGED <<rset, alarms>> /\ process' \in Outcome /\ process = "up"
        /\ fd' \subseteq fd \cup Opened
        /\ wset' \subseteq wset \cup (Opened \cap Outputs) \cup {"FO_MAIN"}
    BY <1>13 DEF process_signal, Handles, At, timers
  <2>2. buf'["II_SIGNAL"] = <<>> /\ (~Interrupted => buf'["CO_MASTER"] = buf["CO_MASTER"])
    BY <1>1, <1>2, <2>1
  <2>3. ~Contains(<<>>, "SIGINT")
    BY ShortSeqs DEF Contains
  <2>4. ~Contains(buf'["II_SIGNAL"], "SIGINT")
    BY <2>2, <2>3
  <2>5. CASE Interrupted
    <3>1. ~sigint'
      BY <2>1, <2>5
    <3>2. process' = "up" => ~Contains(alarms, "SIGINT")
      BY <2>1, <2>5 DEF Outcome
    <3> QED BY <2>1, <2>4, <3>1, <3>2 DEF Unopened
  <2>6. CASE ~Interrupted
    <3>1. Opened = {} /\ process' = "up"
      BY <2>1, <2>6 DEF Opened, Outcome
    <3>2. sigint => Console \cap (fd' \cup wset' \cup rset' \cup todo') = {}
      BY <1>3, <2>1, <3>1 DEF Console
    <3> QED BY <1>0, <1>3, <2>1, <2>2, <2>4, <2>6, <3>1, <3>2 DEF Unopened, Console
  <2> QED BY <2>5, <2>6
<1>14. CASE process_master
  <2>1. /\ process = "up" /\ UNCHANGED <<sigint, alarms>> /\ "CI_MASTER" \in todo
        /\ buf' = [buf EXCEPT !["CO_MASTER"] = @ \o <<"prompt">>]
    <3>1. At("process") /\ todo \cap fd # {} /\ "CI_MASTER" = First(todo \cap fd)
      BY <1>14 DEF process_master, Handles
    <3>2. "CI_MASTER" \in todo
      BY <3>1, Handled
    <3> QED BY <1>14, <3>1, <3>2 DEF process_master, At, Put, timers
  <2>2. ~sigint
    BY <1>3, <2>1 DEF Console
  <2>3. buf'["II_SIGNAL"] = buf["II_SIGNAL"]
    BY <1>1, <1>2, <2>1
  <2> QED BY <1>0, <2>1, <2>2, <2>3, StillUnopened
<1>15. CASE process_main
  <2>1. /\ process = "up" /\ UNCHANGED <<fd, rset, sigint>> /\ todo' \subseteq todo
        /\ wset' \subseteq wset \cup {"FO_MAIN", "NO_PAYMENT"}
        /\ buf'["CO_MASTER"] = buf["CO_MASTER"] /\ buf'["II_SIGNAL"] = buf["II_SIGNAL"]
        /\ Contains(alarms', "SIGINT") => Contains(alarms, "SIGINT")
    BY <1>15, MainFrame
  <2>2. sigint => Console \cap (fd' \cup wset' \cup rset' \cup todo') = {}
    BY <1>3, <2>1 DEF Console
  <2> QED BY <1>0, <1>3, <2>1, <2>2, StillUnopened
<1>16. CASE PeerSends \/ PeerReplies \/ PeerHangsUp \/ UserTypes
  <2>1. process = "up" /\ UNCHANGED <<sigint, alarms, buf, fd, wset, rset, todo>>
    BY <1>16 DEF PeerSends, PeerReplies, PeerHangsUp, UserTypes, io, timers, round
  <2> QED BY <1>4, <2>1
<1>17. CASE \E timer \in {"timer_ack", "timer_ping"} : TimerExpires(timer)
  <2>1. PICK timer \in {"timer_ack", "timer_ping"} : TimerExpires(timer)
    BY <1>17
  <2>2. /\ process = "up" /\ UNCHANGED <<sigint, buf, fd, wset, rset, todo>>
        /\ alarms' = alarms \/ alarms' = Append(alarms, timer)
    BY <2>1 DEF TimerExpires, io, round
  <2>3. Contains(alarms', "SIGINT") => Contains(alarms, "SIGINT")
    <3>1. CASE alarms' = alarms
      BY <3>1
    <3>2. CASE alarms' = Append(alarms, timer)
      <4>1. /\ Len(alarms) \in Nat /\ Len(alarms') = Len(alarms) + 1
            /\ \A i \in 1..Len(alarms) : alarms'[i] = alarms[i]
            /\ alarms'[Len(alarms) + 1] = timer
        BY <1>1, <3>2, AppendProperties, LenProperties DEF Signal
      <4> QED BY <4>1 DEF Contains
    <3> QED BY <2>2, <3>1, <3>2
  <2> QED BY <1>0, <1>3, <2>2, <2>3, StillUnopened
<1>18. CASE Interrupt
  <2>1. /\ process = "up" /\ UNCHANGED <<sigint, buf, fd, wset, rset, todo>>
        /\ sigint \/ (process' = "killed" /\ alarms' = alarms)
    BY <1>18 DEF Interrupt, io
  <2> QED BY <1>0, <2>1 DEF Unopened
<1>19. \/ \E how : process = "up" /\ Ends(how)
       \/ SelectReports \/ Pings \/ (\E c \in Outputs : PendingWrite(c)) \/ ReadSignals
       \/ ConsoleCloses \/ (\E c \in {"CO_MASTER", "CI_MASTER"} : ConsoleRead(c))
       \/ MainRead \/ MainEnds \/ IoDone \/ RoundDone
       \/ process_signal \/ process_master \/ process_main
       \/ PeerSends \/ PeerReplies \/ PeerHangsUp \/ UserTypes
       \/ (\E timer \in {"timer_ack", "timer_ping"} : TimerExpires(timer)) \/ Interrupt
  BY StepIs
<1> QED BY <1>5, <1>6, <1>7, <1>8, <1>9, <1>10, <1>11, <1>12, <1>13, <1>14, <1>15, <1>16, <1>17,
            <1>18, <1>19

\* A step that adds to no buffer but MAIN's input.
LEMMA StillBounded ==
  ASSUME Bounds, process = "up",
         \A c \in Channel \ {"FI_MAIN"} : buf'[c] = buf[c] \/ buf'[c] = <<>>
  PROVE  Bounds'
<1> DEFINE e == <<>>
<1>1. Len(e) = 0
  BY ShortSeqs
<1>2. \A c \in Channel \ {"FI_MAIN"} : buf'[c] = buf[c] \/ buf'[c] = e
  OBVIOUS
<1> HIDE DEF e
<1>3. {"NO_PAYMENT", "CO_MASTER", "FO_MAIN", "II_SIGNAL", "CI_MASTER"} \subseteq Channel \ {"FI_MAIN"}
  BY Channels DEF Inputs
<1>4. /\ Len(buf["NO_PAYMENT"]) <= Capacity /\ Len(buf["II_SIGNAL"]) <= Capacity
      /\ Len(buf["CI_MASTER"]) <= Capacity /\ Len(buf["CO_MASTER"]) <= Capacity + 1
      /\ Ample(buf["FO_MAIN"])
  BY DEF Bounds
<1>5. Ample(e) /\ Len(e) <= Capacity /\ Len(e) <= Capacity + 1
  BY <1>1, CapacityAssumption DEF Ample
<1>6. \A c \in {"NO_PAYMENT", "II_SIGNAL", "CI_MASTER"} : Len(buf'[c]) <= Capacity
  BY <1>2, <1>3, <1>4, <1>5
<1>7. Len(buf'["CO_MASTER"]) <= Capacity + 1
  BY <1>2, <1>3, <1>4, <1>5
<1>8. buf'["FO_MAIN"] = buf["FO_MAIN"] \/ buf'["FO_MAIN"] = e
  BY <1>2, <1>3
<1>9. Ample(buf'["FO_MAIN"])
  BY <1>4, <1>5, <1>8
<1>10. Ample(buf["FO_MAIN"])'
  BY <1>9 DEF Ample
<1> QED BY <1>6, <1>7, <1>10 DEF Bounds

\* An acknowledge may be the one symbol too many.
LEMMA AmpleAppend ==
  ASSUME NEW b \in Seq(Symbol), Len(b) <= Capacity, NEW x \in {"ACK", "NAK"}
  PROVE  Ample(b \o <<x>>) /\ Ample(Append(b, x))
<1> DEFINE t == <<x>>
           n == Len(b)
<1>1. x \in Symbol
  BY SymbolsAre
<1>2. t \in Seq(Symbol) /\ Len(t) = 1 /\ t[1] = x /\ n \in Nat
  BY <1>1, ShortSeqs, LenProperties
<1> HIDE DEF t
<1>3. /\ b \o t \in Seq(Symbol) /\ Len(b \o t) = n + 1
      /\ (b \o t)[n + 1] = x
  <2>1. Len(b \o t) = n + Len(t)
    BY <1>2, ConcatProperties
  <2>2. \A i \in 1..(n + Len(t)) : (b \o t)[i] = IF i <= n THEN b[i] ELSE t[i - n]
    BY <1>2, ConcatProperties
  <2> HIDE DEF n
  <2>3. n + 1 \in 1..(n + Len(t)) /\ ~(n + 1 <= n) /\ (n + 1) - n = 1
    BY <1>2
  <2> QED BY <1>2, <2>1, <2>2, <2>3, ConcatProperties
<1>4. Len(Append(b, x)) = n + 1 /\ Append(b, x)[n + 1] = x
  BY <1>1, AppendProperties
<1>5. n + 1 <= Capacity + 1
  <2> HIDE DEF n
  <2>1. n <= Capacity
    BY DEF n
  <2> QED BY <1>2, <2>1, CapacityAssumption
<1>6. Ample(b \o t)
  <2> DEFINE u == b \o t
  <2> HIDE DEF u, n
  <2>1. Len(u) = n + 1 /\ u[n + 1] = x
    BY <1>3 DEF u
  <2>2. Ample(u)
    BY <1>5, <2>1 DEF Ample, Last
  <2> QED BY <2>2 DEF u
<1>7. Ample(Append(b, x))
  <2> DEFINE u == Append(b, x)
  <2> HIDE DEF u, n
  <2>1. Len(u) = n + 1 /\ u[n + 1] = x
    BY <1>4 DEF u
  <2>2. Ample(u)
    BY <1>5, <2>1 DEF Ample, Last
  <2> QED BY <2>2 DEF u
<1> QED BY <1>6, <1>7 DEF t

\* What is taken from MAIN's input is added to MAIN's output.
LEMMA TakesBounded ==
  ASSUME EngineInv, process = "up", NEW f, NEW out, Takes(f, out),
         process' # "overrun" => Ample(buf["FO_MAIN"] \o out)
  PROVE  Bounds'
<1>0. Bounds /\ buf \in [Channel -> Seq(Symbol)]
  BY DEF EngineInv, Base, Inner
<1> DEFINE u == buf["FO_MAIN"] \o out
           a == fnext(f)
<1>1. buf' = [buf EXCEPT !["FI_MAIN"] = a, !["FO_MAIN"] = u]
  BY DEF Takes
<1>2. process' # "overrun" => Ample(u)
  OBVIOUS
<1> HIDE DEF u, a
<1>3. {"NO_PAYMENT", "CO_MASTER", "FO_MAIN", "II_SIGNAL", "CI_MASTER"} \subseteq Channel \ {"FI_MAIN"}
  BY Channels DEF Inputs
<1>4. /\ buf'["FO_MAIN"] = u
      /\ \A c \in {"NO_PAYMENT", "CO_MASTER", "II_SIGNAL", "CI_MASTER"} : buf'[c] = buf[c]
  BY <1>0, <1>1, <1>3
<1>5. process' # "overrun" => Ample(buf["FO_MAIN"])'
  BY <1>2, <1>4 DEF Ample
<1> QED BY <1>0, <1>4, <1>5 DEF Bounds

\* A step of process_main: an acknowledge may follow the last there is room for.
LEMMA MainBounded == ASSUME EngineInv, process_main PROVE Bounds'
<1> DEFINE f == frob_frame_process(machine, buf["FI_MAIN"])
           b == buf["FO_MAIN"]
<1>1. /\ InMain /\ process = "up"
      /\ \/ AckOverruns(f) \/ BadLrc(f) \/ EmptyMessage(f) \/ BadParse(f) \/ Pong(f) \/ Responds(f)
         \/ AnswerFails(f) \/ Forwards(f) \/ PaymentBusy(f) \/ BusyFails(f) \/ Unhandled(f)
         \/ MainDone(f)
  BY DEF process_main, InMain, At
<1> HIDE DEF f
<1>2. Bounds /\ buf \in [Channel -> Seq(Symbol)]
  BY DEF EngineInv, Base, Inner
<1>3. {"NO_PAYMENT", "CO_MASTER", "FO_MAIN", "FI_MAIN", "II_SIGNAL", "CI_MASTER"} \subseteq Channel
  BY Channels DEF Inputs
<1>4. b \in Seq(Symbol) /\ Len(b) \in Nat
  <2>1. b \in Seq(Symbol)
    BY <1>2, <1>3
  <2> QED BY <2>1, LenProperties
<1>5. ~Leaves("FO_MAIN") => Len(b) <= Capacity
  <2> DEFINE n == Len(b)
  <2>1. ~Leaves("FO_MAIN") => ~(n > Capacity)
    BY DEF Leaves
  <2>2. n \in Nat
    BY <1>4
  <2> HIDE DEF n
  <2>3. ~(n > Capacity) => n <= Capacity
    BY <2>2, CapacityAssumption
  <2> QED BY <2>1, <2>3 DEF n
<1>6. CASE EmptyMessage(f) \/ AnswerFails(f) \/ BusyFails(f) \/ Unhandled(f)
  <2>1. \E how : Ends(how)
    BY <1>6 DEF EmptyMessage, AnswerFails, BusyFails, Unhandled
  <2>2. buf' = buf
    BY <2>1 DEF Ends, io
  <2> QED BY <1>1, <1>2, <2>2, StillBounded
<1>7. CASE AckOverruns(f)
  <2>1. process' = "overrun" /\ \E out : Takes(f, out)
    BY <1>7 DEF AckOverruns
  <2> QED BY <1>1, <2>1, TakesBounded
<1>8. CASE BadLrc(f) \/ BadParse(f) \/ Pong(f)
  <2>1. ~Leaves("FO_MAIN") /\ (Takes(f, <<"ACK">>) \/ Takes(f, <<"NAK">>))
    BY <1>8 DEF BadLrc, BadParse, Pong, Good
  <2> QED BY <1>1, <1>4, <1>5, <2>1, AmpleAppend, TakesBounded
<1>9. CASE Responds(f) \/ PaymentBusy(f)
  <2>1. /\ Len(b) <= Capacity
        /\ \/ Takes(f, <<"ACK">>)
           \/ \E x \in Symbol : Takes(f, <<"ACK">> \o Message(x)) /\ Len(b) + 3 <= Capacity
    BY <1>1, <1>9, SpokenIs DEF f
  <2>2. CASE Takes(f, <<"ACK">>)
    BY <1>1, <1>4, <2>1, <2>2, AmpleAppend, TakesBounded
  <2>3. CASE \E x \in Symbol : Takes(f, <<"ACK">> \o Message(x)) /\ Len(b) + 3 <= Capacity
    <3>1. PICK x \in Symbol : Takes(f, <<"ACK">> \o Message(x)) /\ Len(b) + 3 <= Capacity
      BY <2>3
    <3> DEFINE out == <<"ACK">> \o Message(x)
    <3>2. out \in Seq(Symbol) /\ Len(out) = 3 /\ Takes(f, out)
      BY <3>1, MessageIs
    <3> HIDE DEF out
    <3>3. Len(b \o out) = Len(b) + Len(out)
      BY <1>4, <3>2, ConcatProperties
    <3> DEFINE u == b \o out
               n == Len(b)
    <3>4. Len(u) = n + 3 /\ n \in Nat /\ n + 3 <= Capacity
      BY <1>4, <3>1, <3>2, <3>3
    <3> HIDE DEF u, n
    <3>5. Ample(u)
      BY <3>4, CapacityAssumption DEF Ample
    <3>6. Ample(buf["FO_MAIN"] \o out)
      BY <3>5 DEF u
    <3> QED BY <1>1, <3>2, <3>6, TakesBounded
  <2> QED BY <2>1, <2>2, <2>3
<1>10. CASE Forwards(f)
  <2> DEFINE skipped == 2 >= Free("NO_PAYMENT")
             p == buf["NO_PAYMENT"]
             s == Message("S1")
             u == Append(b, "ACK")
             v == IF skipped THEN p ELSE p \o s
             a == fnext(f)
  <2>1. /\ buf' = [buf EXCEPT !["FI_MAIN"] = a, !["FO_MAIN"] = Append(@, "ACK"),
                              !["NO_PAYMENT"] = IF skipped THEN @ ELSE @ \o s]
        /\ ~Leaves("FO_MAIN")
    BY <1>10 DEF Forwards, Good
  <2>2. Ample(u)
    BY <1>4, <1>5, <2>1, AmpleAppend
  <2>3. Len(v) <= Capacity
    <3>1. p \in Seq(Symbol) /\ Len(p) \in Nat /\ Len(p) <= Capacity
      <4>1. p \in Seq(Symbol)
        BY <1>2, <1>3
      <4> QED BY <1>2, <4>1, LenProperties DEF Bounds
    <3>2. s \in Seq(Symbol) /\ Len(s) = 2
      BY SymbolsAre, MessageIs
    <3>3. Free("NO_PAYMENT") = Capacity - Len(p)
      BY DEF Free
    <3> HIDE DEF p, s
    <3>4. Len(p \o s) = Len(p) + 2
      <4>1. Len(p \o s) = Len(p) + Len(s)
        BY <3>1, <3>2, Appended
      <4> QED BY <3>2, <4>1
    <3>5. ~skipped => Len(p) + 2 <= Capacity
      BY <3>1, <3>3, CapacityAssumption
    <3> HIDE DEF skipped
    <3> QED BY <3>1, <3>4, <3>5
  <2>4. buf' = [buf EXCEPT !["FI_MAIN"] = a, !["FO_MAIN"] = u, !["NO_PAYMENT"] = v]
    BY <1>2, <1>3, <2>1
  <2> HIDE DEF a, u, v
  <2>5. /\ buf'["FO_MAIN"] = u /\ buf'["NO_PAYMENT"] = v
        /\ \A c \in {"CO_MASTER", "II_SIGNAL", "CI_MASTER"} : buf'[c] = buf[c]
    BY <1>2, <1>3, <2>4
  <2>6. Ample(buf["FO_MAIN"])'
    BY <2>2, <2>5 DEF Ample
  <2> QED BY <1>1, <1>2, <2>3, <2>5, <2>6 DEF Bounds
<1>11. CASE MainDone(f)
  <2>1. buf' = [buf EXCEPT !["FI_MAIN"] = <<>>]
    BY <1>11 DEF MainDone
  <2>2. \A c \in Channel \ {"FI_MAIN"} : buf'[c] = buf[c]
    BY <1>2, <2>1
  <2> QED BY <1>1, <1>2, <2>2, StillBounded
<1> QED BY <1>1, <1>6, <1>7, <1>8, <1>9, <1>10, <1>11

\* What is appended without a look for room was looked after before.
LEMMA BoundsKeep == ASSUME EngineInv, Next PROVE Bounds'
<1>0. Outer /\ Inner /\ Delivered /\ Unopened /\ Bounds
  BY DEF EngineInv, Base
<1>1. buf \in [Channel -> Seq(Symbol)] /\ alarms \in Seq(Signal) /\ IsInjective(alarms)
  BY <1>0 DEF Outer, Inner
<1>2. /\ {"NO_PAYMENT", "CO_MASTER", "FO_MAIN", "FI_MAIN", "II_SIGNAL", "CI_MASTER"} \subseteq Channel
  BY Channels DEF Inputs
<1>3. /\ Len(buf["NO_PAYMENT"]) <= Capacity /\ Len(buf["II_SIGNAL"]) <= Capacity
      /\ Len(buf["CI_MASTER"]) <= Capacity
      /\ process = "up" => Len(buf["CO_MASTER"]) <= Capacity + 1 /\ Ample(buf["FO_MAIN"])
  BY <1>0 DEF Bounds
<1>4. CASE \/ \E how : process = "up" /\ Ends(how)
           \/ SelectReports \/ ConsoleCloses \/ MainEnds \/ IoDone \/ RoundDone
           \/ PeerSends \/ PeerReplies \/ PeerHangsUp \/ UserTypes
           \/ (\E timer \in {"timer_ack", "timer_ping"} : TimerExpires(timer)) \/ Interrupt
  <2>1. process = "up" /\ buf' = buf
    BY <1>4 DEF Ends, SelectReports, ConsoleCloses, MainEnds, IoDone, RoundDone, PeerSends,
                PeerReplies, PeerHangsUp, UserTypes, TimerExpires, Interrupt, Visits, At, io
  <2> QED BY <1>0, <2>1, StillBounded
<1>5. CASE Pings
  <2> DEFINE b == buf["FO_MAIN"]
             t == Message("T1")
             u == b \o t
  <2>1. process = "up" /\ 2 < Capacity - Len(b) /\ buf' = [buf EXCEPT !["FO_MAIN"] = u]
    BY <1>5 DEF Pings, TimesOut, NothingReady, At, MayPing, Free, Put
  <2>2. b \in Seq(Symbol)
    BY <1>1, <1>2
  <2>3. t \in Seq(Symbol) /\ Len(t) = 2 /\ Len(b) \in Nat
    BY <2>2, SymbolsAre, MessageIs, LenProperties
  <2> HIDE DEF b, t
  <2>4. Len(u) = Len(b) + 2
    <3>1. Len(b \o t) = Len(b) + Len(t)
      BY <2>2, <2>3, Appended
    <3> QED BY <2>3, <3>1
  <2> HIDE DEF u
  <2>5. Len(u) \in Nat /\ Len(u) <= Capacity
    BY <2>1, <2>3, <2>4, CapacityAssumption
  <2>6. Ample(u)
    BY <2>5, CapacityAssumption DEF Ample
  <2>7. buf'["FO_MAIN"] = u /\ \A c \in Channel \ {"FO_MAIN"} : buf'[c] = buf[c]
    BY <1>1, <1>2, <2>1
  <2>8. Ample(buf["FO_MAIN"])'
    BY <2>6, <2>7 DEF Ample
  <2> QED BY <1>2, <1>3, <2>1, <2>7, <2>8 DEF Bounds
<1>6. CASE \E c \in Outputs : PendingWrite(c)
  <2>1. PICK c \in Outputs : PendingWrite(c)
    BY <1>6
  <2>2. process = "up" /\ buf' = [buf EXCEPT ![c] = <<>>]
    BY <2>1 DEF PendingWrite, At
  <2>3. \A d \in Channel : buf'[d] = buf[d] \/ buf'[d] = <<>>
    BY <1>1, <2>2
  <2> QED BY <1>0, <2>2, <2>3, StillBounded
<1>7. CASE ReadSignals
  <2>1. /\ process = "up" /\ pc = "io" /\ "II_SIGNAL" \in todo
        /\ buf' = [buf EXCEPT !["II_SIGNAL"] = @ \o alarms] /\ process' = process
    BY <1>7, VisitedIs DEF ReadSignals, Visits, At, Put
  <2>2. buf["II_SIGNAL"] = <<>>
    BY <1>0, <2>1 DEF Delivered
  <2>3. <<>> \o alarms = alarms
    BY <1>1, Appended, ShortSeqs
  <2>4. buf'["II_SIGNAL"] = alarms /\ \A c \in Channel \ {"II_SIGNAL"} : buf'[c] = buf[c]
    BY <1>1, <1>2, <2>1, <2>2, <2>3
  <2>5. Len(alarms) <= Capacity
    <3>1. Len(alarms) \in Nat /\ Len(alarms) <= 3
      BY <1>1, FewSignals, LenProperties
    <3> QED BY <3>1, CapacityAssumption
  <2>6. Ample(buf["FO_MAIN"])'
    BY <1>2, <1>3, <2>1, <2>4 DEF Ample
  <2> QED BY <1>2, <1>3, <2>1, <2>4, <2>5, <2>6 DEF Bounds
<1>8. CASE \E c \in {"CO_MASTER", "CI_MASTER"} : ConsoleRead(c)
  <2>1. PICK c \in {"CO_MASTER", "CI_MASTER"} : ConsoleRead(c)
    BY <1>8
  <2>2. PICK a \in Seq(Symbol) : Visits(c) /\ Took(c, a) /\ Len(a) <= Free(c)
    BY <2>1, ConsoleReadIs
  <2>3. /\ \A d \in Channel : d \notin {c, "FO_MAIN"} => buf'[d] = buf[d]
        /\ buf'["FO_MAIN"] = buf["FO_MAIN"] \/ buf'["FO_MAIN"] = <<>>
        /\ Len(buf'[c]) = Len(buf[c]) + Len(a)
    BY <1>0, <2>2, TookIs
  <2>4. process = "up"
    BY <2>2 DEF Visits, At
  <2>5. Len(buf'[c]) \in Nat /\ Len(buf'[c]) <= Capacity
    <3> DEFINE i == Len(buf[c])
               j == Len(a)
               k == Len(buf'[c])
    <3>1. i \in Nat /\ j \in Nat
      <4>1. buf[c] \in Seq(Symbol)
        BY <1>1, <1>2
      <4> QED BY <4>1, LenProperties
    <3>2. k = i + j /\ j <= Capacity - i
      BY <2>2, <2>3 DEF Free
    <3> HIDE DEF i, j, k
    <3>3. k \in Nat /\ k <= Capacity
      BY <3>1, <3>2, CapacityAssumption
    <3> QED BY <3>3 DEF k
  <2>6. Len(buf'[c]) <= Capacity + 1
    <3> DEFINE k == Len(buf'[c])
    <3>1. k \in Nat /\ k <= Capacity
      BY <2>5
    <3> HIDE DEF k
    <3>2. k <= Capacity + 1
      BY <3>1, CapacityAssumption
    <3> QED BY <3>2 DEF k
  <2>7. Ample(buf["FO_MAIN"])'
    <3> DEFINE e == <<>>
    <3>1. Len(e) = 0
      BY ShortSeqs
    <3>2. buf'["FO_MAIN"] = buf["FO_MAIN"] \/ buf'["FO_MAIN"] = e
      BY <2>3
    <3> HIDE DEF e
    <3>3. Ample(e)
      BY <3>1, CapacityAssumption DEF Ample
    <3>4. Ample(buf'["FO_MAIN"])
      BY <1>3, <2>4, <3>2, <3>3
    <3> QED BY <3>4 DEF Ample
  <2>8. /\ buf'["NO_PAYMENT"] = buf["NO_PAYMENT"] /\ buf'["II_SIGNAL"] = buf["II_SIGNAL"]
        /\ c # "CO_MASTER" => buf'["CO_MASTER"] = buf["CO_MASTER"]
        /\ c # "CI_MASTER" => buf'["CI_MASTER"] = buf["CI_MASTER"]
    BY <1>2, <2>3
  <2> QED BY <1>3, <2>4, <2>5, <2>6, <2>7, <2>8 DEF Bounds
<1>9. CASE MainRead
  <2>1. process = "up" /\ \E a : Took("FI_MAIN", a)
    BY <1>9 DEF MainRead, Visits, At
  <2>2. \A c \in Channel \ {"FI_MAIN"} : buf'[c] = buf[c] \/ buf'[c] = <<>>
    BY <2>1, TookFrame
  <2> QED BY <1>0, <2>1, <2>2, StillBounded
<1>10. CASE process_signal
  <2> DEFINE m == IF Interrupted THEN Append(buf["CO_MASTER"], "prompt") ELSE buf["CO_MASTER"]
  <2>1. /\ buf' = [buf EXCEPT !["II_SIGNAL"] = <<>>, !["CO_MASTER"] = m] /\ process = "up"
    BY <1>10 DEF process_signal, Handles, At
  <2>2. Len(m) <= Capacity + 1
    <3>1. CASE Interrupted
      <4>1. buf["CO_MASTER"] = <<>>
        BY <1>0, <3>1 DEF Unopened, Interrupted
      <4>2. m = <<"prompt">>
        BY <3>1, <4>1
      <4>3. Len(<<"prompt">>) = 1
        BY ShortSeqs, SymbolsAre
      <4> HIDE DEF m
      <4> QED BY <4>2, <4>3, CapacityAssumption
    <3>2. CASE ~Interrupted
      BY <1>3, <2>1, <3>2
    <3> QED BY <3>1, <3>2
  <2> HIDE DEF m
  <2>3. /\ buf'["II_SIGNAL"] = <<>> /\ buf'["CO_MASTER"] = m
        /\ \A c \in Channel \ {"II_SIGNAL", "CO_MASTER"} : buf'[c] = buf[c]
    BY <1>1, <1>2, <2>1
  <2>4. Len(<<>>) <= Capacity
    BY ShortSeqs, CapacityAssumption
  <2>5. Ample(buf["FO_MAIN"])'
    BY <1>2, <1>3, <2>1, <2>3 DEF Ample
  <2> QED BY <1>2, <1>3, <2>2, <2>3, <2>4, <2>5 DEF Bounds
<1>11. CASE process_master
  <2> DEFINE b == buf["CO_MASTER"]
             t == <<"prompt">>
             u == b \o t
  <2>1. /\ process = "up" /\ buf' = [buf EXCEPT !["CO_MASTER"] = u]
        /\ Len(b) > Capacity => process' = "overrun"
    BY <1>11 DEF process_master, Handles, At, Put, Leaves
  <2>2. b \in Seq(Symbol) /\ t \in Seq(Symbol) /\ Len(t) = 1
    BY <1>1, <1>2, SymbolsAre, ShortSeqs
  <2> HIDE DEF b, t
  <2>3. Len(b) \in Nat /\ Len(u) = Len(b) + 1
    BY <2>2, LenProperties, ConcatProperties
  <2> HIDE DEF u
  <2>4. process' # "overrun" => Len(u) <= Capacity + 1
    BY <2>1, <2>3, CapacityAssumption
  <2>5. buf'["CO_MASTER"] = u /\ \A c \in Channel \ {"CO_MASTER"} : buf'[c] = buf[c]
    BY <1>1, <1>2, <2>1
  <2>6. Ample(buf["FO_MAIN"])'
    BY <1>2, <1>3, <2>1, <2>5 DEF Ample
  <2> QED BY <1>2, <1>3, <2>4, <2>5, <2>6 DEF Bounds
<1>12. CASE process_main
  BY <1>12, MainBounded
<1> QED BY <1>4, <1>5, <1>6, <1>7, <1>8, <1>9, <1>10, <1>11, <1>12, StepIs

-----------------------------------------------------------------------------
(* Every step *)

\* A step that changes nothing.
LEMMA NothingKeeps == ASSUME EngineInv, UNCHANGED vars PROVE EngineInv'
<1>1. /\ UNCHANGED <<fd, buf, wset, rset, timeout, machine, ack, ping, pings_left, armed, alarms>>
      /\ UNCHANGED <<sigint, pc, todo, process, manner, console, inbox, hungup, owes, lines>>
      /\ UNCHANGED <<astray, regular, jammed>>
  BY DEF vars, io, flags, timers, round, world, history
<1>2. Outer' /\ Inner'
  BY <1>1 DEF EngineInv, Base, Outer, Inner
<1>3. Wiring' /\ Stage' /\ Delivered' /\ Watched'
  BY <1>1 DEF EngineInv, Base, Wiring, Stage, Delivered, Watched, Echoes
<1>4. WaitsGuarded'
  BY <1>1 DEF EngineInv, Base, WaitsGuarded, OnTheWay
<1>5. Unopened' /\ Bounds'
  BY <1>1 DEF EngineInv, Unopened, Bounds, Ample
<1> QED BY <1>2, <1>3, <1>4, <1>5 DEF EngineInv, Base

\* The invariant is inductive.
LEMMA EngineStep == EngineInv /\ [Next]_vars => EngineInv'
<1> SUFFICES ASSUME EngineInv, [Next]_vars PROVE EngineInv'
  OBVIOUS
<1>1. CASE Next
  <2>1. Base'
    <3>1. CASE WaitForIo
      BY <3>1, WaitKeeps
    <3>2. CASE PerformPendingIo
      BY <3>2, PendingKeeps
    <3>3. CASE process_signal
      BY <3>3, SignalKeeps
    <3>4. CASE process_master
      BY <3>4, MasterKeeps
    <3>5. CASE process_main
      BY <3>5, ProcessKeeps
    <3>6. CASE RoundDone
      BY <3>6, RoundKeeps
    <3>7. CASE World
      BY <3>7, WorldKeeps
    <3> QED BY <1>1, <3>1, <3>2, <3>3, <3>4, <3>5, <3>6, <3>7 DEF Next, Program
  <2> QED BY <1>1, <2>1, UnopenedKeeps, BoundsKeep DEF EngineInv
<1>2. CASE UNCHANGED vars
  BY <1>2, NothingKeeps
<1> QED BY <1>1, <1>2

\* It holds always.
LEMMA EngineAlways == Spec => []EngineInv
<1>1. Init => EngineInv
  BY EngineInit
<1>2. EngineInv /\ [Next]_vars => EngineInv'
  BY EngineStep
<1> QED BY <1>1, <1>2, PTL DEF Spec

-----------------------------------------------------------------------------
(* The results *)

(***************************************************************************)
(* Channels, sets and flags keep their types.  What the console brings,    *)
(* what the signalfd brings and what is forwarded never passes the end of  *)
(* its array; what process_signal, process_master and an acknowledge add   *)
(* without a look for room passes what free_space counts by one byte at    *)
(* most, and on MAIN that byte is an acknowledge: the next one leaves the  *)
(* array, and the process is at "overrun".                                 *)
(***************************************************************************)
THEOREM EngineTypes == Spec => []EngineTypeOK
<1>1. EngineInv => EngineTypeOK
  <2> SUFFICES ASSUME EngineInv PROVE EngineTypeOK
    OBVIOUS
  <2>1. Outer /\ Inner /\ Bounds
    BY DEF EngineInv, Base
  <2>2. process # "overrun" =>
          /\ Len(buf["CO_MASTER"]) <= Capacity + 1 /\ Len(buf["FO_MAIN"]) <= Capacity + 1
          /\ Leaves("FO_MAIN") => Last(buf["FO_MAIN"]) \in {"ACK", "NAK"}
    BY <2>1 DEF Bounds, Ample, Leaves
  <2>3. \A c \in {"NO_PAYMENT", "II_SIGNAL", "CI_MASTER"} : Len(buf[c]) <= Capacity
    BY <2>1 DEF Bounds
  <2> QED BY <2>1, <2>2, <2>3 DEF EngineTypeOK, Outer, Inner
<1> QED BY <1>1, EngineAlways, PTL

(***************************************************************************)
(* When wait_for_io is entered no closed descriptor is in the write set    *)
(* (close_main_channel runs after FD_SET in the same round), and an output *)
(* with something to write is watched unless select once found one full.   *)
(***************************************************************************)
THEOREM OutputsAreWatched == Spec => []OutputWatched
<1>1. EngineInv => OutputWatched
  BY DEF EngineInv, Base, Stage, Watched, Echoes, OutputWatched, At
<1> QED BY <1>1, EngineAlways, PTL

(***************************************************************************)
(* While an acknowledge or a T2 is missing for what perform_pending_write  *)
(* wrote, its timer runs, its signal is queued or read, or the resend is   *)
(* watched: the wait for the peer is never without a bound.                *)
(***************************************************************************)
THEOREM WaitsAreBounded == Spec => []WaitsGuarded
<1>1. EngineInv => WaitsGuarded
  BY DEF EngineInv, Base
<1> QED BY <1>1, EngineAlways, PTL

=============================================================================
