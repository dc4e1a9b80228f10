------------------------------- MODULE Engine -------------------------------
(***************************************************************************)
(* frob.c: the program as one loop over select(2).  A round is wait_for_io,*)
(* perform_pending_io over the channels in their order, then one handler   *)
(* for each input channel that was ready.  A channel's buf holds what lies *)
(* before its cur; a step is one handler, or one frame inside process_main.*)
(* An acknowledge byte is one symbol, a message two, a prompt one.         *)
(*                                                                         *)
(* The world is a peer, a user at a console, timers and a clock.  A rude   *)
(* peer sends what it likes when it likes, its bytes may be cut anywhere,  *)
(* its side of the connection may be full, and timers run out.  A polite   *)
(* one sends a request when all before it is settled, and acknowledges a   *)
(* message, and answers a ping, before any timer runs out.                 *)
(***************************************************************************)
EXTENDS Frame, FiniteSets

CONSTANTS
  Settings,   \* records of a manner, "polite" or "rude"; what av[1] means, "never" for
              \* a negative number, "some", "zero"; what start_master_channel finds, "tty"
              \* when stdin is a terminal and not MAIN, "shared" when one descriptor is opened
              \* for both directions, "none" when it is not; and the world's budget
  Payment,    \* whether av[2] names a file for the payment channel
  Capacity,   \* symbols free_space counts in an empty buf, which has one byte more than it says
  Requests,   \* what the peer sends: records of bytes and the reply due to them
  Polite,     \* the requests a polite peer sends
  Cuts        \* how many bytes a read may have that ends in the middle of something sent

ASSUME CapacityAssumption == Capacity \in Nat /\ Capacity >= 4
ASSUME CutsAssumption == Cuts \subseteq Nat \ {0}
ASSUME RequestsAssumption == \A q \in Requests \cup Polite : q.bytes \in Seq(STRING) \ {<<>>}
ASSUME SettingsAssumption ==
  \A s \in Settings : /\ s.manner \in {"polite", "rude"} /\ s.timeout \in {"never", "some", "zero"}
                      /\ s.console \in {"tty", "shared", "none"}

\* choose_hardcoded_response, for messages handled locally; "" is FROB_NONE.
Response == [T1 |-> "T2", T3 |-> "T4", T4 |-> "T5", D4 |-> "D5", B1 |-> "B2",
             T2 |-> "", T5 |-> ""]

\* frob_body_extract has a machine for these.  S1C is an S1 that voids a transaction.
Parseable == DOMAIN Response \cup {"S1", "S1C", "S2", "K0", "K1", "D5", "B2", "B3", "B4"}

\* What lies between a frame's STX and its ETX, and what follows its LRC.
Inside(bytes, f) == SubSeq(bytes, f.start, f.end - 1)
Behind(bytes, f) == SubSeq(bytes, f.end + 2, Len(bytes))

\* parse_message: the type of a message, which is a token and a type.
Parsed(text) == IF Len(text) = 2 /\ text[1] = "tok" /\ text[2] \in Parseable
                  THEN text[2] ELSE "none"

\* What a message calls for: its acknowledge and its answer.  "S1" stands for nothing on
\* MAIN, but for the forwarding of an S1 or an S2 in its place.
Call(text) ==
  LET type == Parsed(text)
  IN  CASE type \in DOMAIN Response /\ Response[type] # "" -> <<"ACK", Response[type]>>
        [] type = "S1" -> <<"ACK", "S1">>
        [] OTHER -> <<"ACK">>

\* Byte by byte, what all the frames among some bytes call for.
Heard(m, byte) ==
  LET cs == IF m.cs = "error" THEN "error" ELSE Step(m.cs, byte)
  IN  IF m.cs = "lrc"
        THEN [cs |-> "main", text |-> <<>>,
              reply |-> m.reply \o (IF byte = "ok" THEN Call(m.text) ELSE <<"NAK">>)]
        ELSE [m EXCEPT !.cs = cs, !.text = IF cs = "data" THEN Append(@, byte) ELSE @]

CalledFor(bytes) ==
  LET run[i \in 0..Len(bytes)] ==
        IF i = 0 THEN [cs |-> "main", text |-> <<>>, reply |-> <<>>]
        ELSE Heard(run[i - 1], bytes[i])
  IN  run[Len(bytes)]

\* Requests are not cut, and the reply recorded with one is what it calls for.
ASSUME ReplyAssumption ==
  \A q \in Requests \cup Polite : LET m == CalledFor(q.bytes)
                                IN  m.cs \in {"main", "error"} /\ q.reply = m.reply

\* Bytes in which there is no frame, nor the beginning of one.
Idle(bytes) == LET f == frob_frame_process("main", bytes) IN f.e = "EAGAIN" /\ f.cs = "main"

\* One frame, spoilt or not, and for its message there is code.
OneFrame(bytes) ==
  LET f == frob_frame_process("main", bytes)
  IN  /\ Idle(Behind(bytes, f))
      /\ \/ f.e = "EBADMSG"
         \/ /\ f.e = "found" /\ Inside(bytes, f) # <<>>
            /\ Parsed(Inside(bytes, f)) \in
                 DOMAIN Response \cup {"none"} \cup (IF Payment THEN {"S1"} ELSE {})

ASSUME PoliteAssumption == \A q \in Polite : Idle(q.bytes) \/ OneFrame(q.bytes)

VARIABLES
  fd,         \* the channels whose fd is not -1
  buf,        \* what is in each channel's buf
  wset, rset, \* fs.wset, fs.rset
  timeout,    \* select_params.timeout_sec
  machine,    \* cs of process_main's frame machine
  ack, ping, pings_left,
  armed,      \* timers that run
  alarms,     \* signals the signalfd has, in the order it returns them
  sigint,     \* SIGINT is still in sigfdset
  pc, todo,   \* where in the round, and the channels it has still to visit
  process,    \* "up", or how the process ended
  manner, console, inbox, hungup, owes, lines, budget,       \* the world
  due, unpaid, astray, regular, jammed              \* history: what the peer has still to get

io == <<fd, buf, wset, rset>>
flags == <<ack, ping, pings_left>>
timers == <<armed, alarms>>
round == <<pc, todo, process>>
world == <<manner, console, inbox, hungup, owes, lines, budget>>
history == <<due, unpaid, astray, regular, jammed>>
vars == <<io, timeout, machine, flags, timers, sigint, round, world, history>>

\* enum channel.  STORAGE, UI and DEVICE stay at -1 and are left out.
Order == <<"NO_PAYMENT", "CO_MASTER", "FO_MAIN", "II_SIGNAL", "CI_MASTER", "FI_MAIN">>
Channel == {Order[i] : i \in DOMAIN Order}
Inputs == {"II_SIGNAL", "CI_MASTER", "FI_MAIN"}
Outputs == Channel \ Inputs

\* The channel of C that comes first in enum channel.
First(C) == Order[CHOOSE i \in DOMAIN Order : /\ Order[i] \in C
                                              /\ \A j \in 1..(i - 1) : Order[j] \notin C]

\* choose_destination_from_message, by the channel bits of the type.
Destination(type) ==
  CASE type = "S1"           -> "NO_PAYMENT"
    [] type = "S1C"          -> "NO_STORAGE"
    [] type \in {"K0", "K1"} -> "NO_UI"
    [] type = "S2"           -> "NONE"
    [] OTHER                 -> "FO_MAIN"

Init ==
  /\ fd = {"FO_MAIN", "FI_MAIN", "II_SIGNAL"} \cup (IF Payment THEN {"NO_PAYMENT"} ELSE {})
  /\ buf = [c \in Channel |-> <<>>]
  /\ wset = {} /\ rset = {}
  /\ \E s \in Settings : /\ manner = s.manner /\ console = s.console
                         /\ timeout = s.timeout /\ budget = s.budget
  /\ machine = "main"
  /\ ack = FALSE /\ ping = FALSE /\ pings_left = 2
  /\ armed = {} /\ alarms = <<>> /\ sigint = TRUE
  /\ pc = "select" /\ todo = {} /\ process = "up"
  /\ inbox = <<>> /\ hungup = FALSE /\ owes = <<>> /\ lines = <<>>
  /\ due = <<>> /\ unpaid = 0 /\ astray = FALSE /\ regular = TRUE /\ jammed = FALSE

At(label) == process = "up" /\ pc = label

\* EXITF, ABORTF, a failed assert, or main's return.
Ends(how) ==
  /\ process' = how
  /\ UNCHANGED <<io, timeout, machine, flags, timers, sigint, pc, todo, world, history>>

\* From here on nothing is said about what the peer gets.
Forgets == regular' = FALSE /\ due' = <<>> /\ unpaid' = 0 /\ UNCHANGED astray
Irregular == Forgets /\ UNCHANGED jammed

\* free_space.  lastof is the last byte of buf: when cur is there one more byte can be
\* written, behind it lies the fd of the next channel.
Free(c) == Capacity - Len(buf[c])

\* What free_space and used_space assert: cur <= lastof.
Within(c) == Len(buf[c]) <= Capacity

\* An append that looks for no room goes beyond the array.
Leaves(c) == Len(buf[c]) > Capacity
Put(c, items) == buf' = [buf EXCEPT ![c] = @ \o items]
Message(type) == <<"stx", type>>

-----------------------------------------------------------------------------
(* wait_for_io *)

Readable == {c \in Inputs \cap fd : CASE c = "II_SIGNAL" -> alarms # <<>>
                                      [] c = "CI_MASTER" -> lines # <<>>
                                      [] c = "FI_MAIN"   -> inbox # <<>> \/ hungup}

\* The descriptors a full pipe keeps from being written.
MayJam(full) == full \subseteq wset /\ (full # {} => manner = "rude" /\ budget.jams > 0)
Jams(full) ==
  IF full = {} THEN UNCHANGED <<budget, history>>
  ELSE budget' = [budget EXCEPT !.jams = @ - 1] /\ Forgets /\ jammed' = TRUE

\* select keeps of both sets what is ready; a bit that it clears is forgotten.
SelectReports ==
  /\ At("select") /\ wset \cup rset \subseteq fd
  /\ \E full \in SUBSET wset :
       /\ MayJam(full) /\ Jams(full)
       /\ (wset \ full) \cup Readable # {}
       /\ wset' = wset \ full
       /\ todo' = (wset \ full) \cup Readable
                   \cup (IF console = "shared" /\ "CI_MASTER" \in Readable THEN {"CO_MASTER"} ELSE {})
  /\ rset' = Readable
  /\ pc' = "io"
  /\ UNCHANGED <<fd, buf, timeout, machine, flags, timers, sigint, process,
                 manner, console, inbox, hungup, owes, lines>>

\* EBADF: a set has a descriptor that was closed since it was put there.
SelectFails == At("select") /\ ~(wset \cup rset \subseteq fd) /\ Ends("select")

NothingReady ==
  At("select") /\ wset \cup rset \subseteq fd /\ Readable = {} /\ MayJam(wset)

SelectPolls == NothingReady /\ timeout = "zero" /\ Ends("returned")

\* The clock gives a polite peer the time to send what it owes.
TimesOut == NothingReady /\ timeout = "some" /\ owes = <<>>

\* The third timeout without a T2 in between.
PingsExhausted == TimesOut /\ pings_left = 0 /\ Ends("exhausted")

MayPing == "FO_MAIN" \in fd /\ 2 < Free("FO_MAIN")

\* There is no one to ping, or no room for it: event_loop ends.
PingImpossible ==
  /\ TimesOut /\ pings_left > 0 /\ ~MayPing
  /\ Ends(IF "FO_MAIN" \in fd /\ ~Within("FO_MAIN") THEN "no room" ELSE "returned")

\* Slip: the bytes are there but the descriptor is not watched.
CommissionUnwatched(watched) == ack' = TRUE /\ wset' = watched

\* What commissioning a message on MAIN does next to appending it.
Commission(watched) == ack' = TRUE /\ wset' = watched \cup {"FO_MAIN"}

\* commission_ping_on_main: select has emptied the sets; the ping goes out in this round.
Pings ==
  /\ TimesOut /\ pings_left > 0 /\ MayPing
  /\ Jams(wset)
  /\ pings_left' = pings_left - 1 /\ ping' = TRUE
  /\ Put("FO_MAIN", Message("T1"))
  /\ Commission({}) /\ rset' = {} /\ todo' = wset'
  /\ pc' = "io"
  /\ UNCHANGED <<fd, timeout, machine, timers, sigint, process,
                 manner, console, inbox, hungup, owes, lines>>

WaitForIo ==
  \/ SelectReports \/ SelectFails \/ SelectPolls
  \/ PingsExhausted \/ PingImpossible \/ Pings

-----------------------------------------------------------------------------
(* perform_pending_io *)

Visits(c) == At("io") /\ todo # {} /\ c = First(todo) /\ todo' = todo \ {c}

\* timer_settime(0).  Whether it takes a signal back that was sent is unspecified.
Disarm(timer) ==
  /\ armed' = armed \ {timer}
  /\ alarms' \in {alarms, RemoveFirst(alarms, timer)}

\* The timers a write on MAIN starts.
Guards == (IF ack THEN {"timer_ack"} ELSE {}) \cup (IF ping THEN {"timer_ping"} ELSE {})

\* A polite peer acknowledges each message and answers a T1.
Debt(items) ==
  FlattenSeq([i \in DOMAIN items |->
    CASE items[i] = "stx" -> <<<<"ack">>>>
      [] items[i] = "T1"  -> <<<<"stx", "tok", "T2", "etx", "ok">>>>
      [] OTHER            -> <<>>])

\* Slip: the ping's timer is not started.
ArmsOne(c) == armed' = armed \cup (IF c = "FO_MAIN" /\ ack THEN {"timer_ack"} ELSE {})
\* alarm_set after a write on MAIN.
Arms(c) == armed' = armed \cup (IF c = "FO_MAIN" THEN Guards ELSE {})

\* What of a sequence is in K.
Keep(s, K) == FlattenSeq([i \in DOMAIN s |-> IF s[i] \in K THEN <<s[i]>> ELSE <<>>])

\* What due speaks of, and what unpaid counts: a forwarded S1 or an S2.
Said == {"ACK", "NAK"} \cup ({Response[t] : t \in DOMAIN Response} \ {""})
Payments == {"S1", "S2"}

\* History: the peer, or the payment channel, gets what is in buf.
Delivers(c) ==
  LET got == Keep(buf[c], Said)
      settled == Len(Keep(buf[c], Payments))
  IN  IF regular
        THEN /\ due' = IF IsPrefix(got, due) THEN SubSeq(due, Len(got) + 1, Len(due)) ELSE <<>>
             /\ unpaid' = unpaid - settled
             /\ astray' = (astray \/ ~IsPrefix(got, due) \/ settled > unpaid)
        ELSE UNCHANGED <<due, unpaid, astray>>

\* The output of the console has a descriptor that is also read.
TtyReadable == console = "shared" /\ "CI_MASTER" \in rset

\* perform_pending_write; cur goes back to buf.
PendingWrite(c) ==
  /\ At("io") /\ todo # {} /\ c = First(todo) /\ c \in wset
  /\ todo' = IF c = "CO_MASTER" /\ TtyReadable THEN todo ELSE todo \ {c}
  /\ buf[c] # <<>> /\ Within(c) /\ (c = "FO_MAIN" => Guards \cap armed = {})
  /\ Arms(c)
  /\ buf' = [buf EXCEPT ![c] = <<>>]
  /\ wset' = wset \ {c}
  /\ Delivers(c)
  /\ owes' = IF c = "FO_MAIN" /\ manner = "polite" THEN owes \o Debt(buf[c]) ELSE owes
  /\ UNCHANGED <<fd, rset, timeout, machine, flags, alarms, sigint, pc, process,
                 manner, console, inbox, hungup, lines, budget, regular, jammed>>

\* assert(ch->cur > ch->buf): there is nothing to write.
WritesNothing(c) ==
  At("io") /\ todo # {} /\ c = First(todo) /\ c \in wset /\ buf[c] = <<>> /\ Ends("empty write")

\* The assert of used_space.
WritesBeyond(c) ==
  At("io") /\ todo # {} /\ c = First(todo) /\ c \in wset /\ ~Within(c) /\ Ends("no room")

\* The assert of alarm_set: the timer runs already.
ArmsTwice ==
  /\ At("io") /\ todo # {} /\ First(todo) = "FO_MAIN" /\ "FO_MAIN" \in wset
  /\ buf["FO_MAIN"] # <<>> /\ Within("FO_MAIN") /\ Guards \cap armed # {}
  /\ Ends("duplicate alarm")

\* signalfd: all that there are.
ReadSignals ==
  /\ Visits("II_SIGNAL")
  /\ Put("II_SIGNAL", alarms) /\ alarms' = <<>>
  /\ UNCHANGED <<fd, wset, rset, timeout, machine, flags, armed, sigint, pc, process,
                 world, history>>

\* Slip: the timeout stays what it was.
CloseQuietly == fd' = fd \ {"FO_MAIN", "FI_MAIN"} /\ UNCHANGED timeout

close_main_channel ==
  /\ fd' = fd \ {"FO_MAIN", "FI_MAIN"}
  /\ timeout' = IF timeout = "zero" THEN "zero" ELSE "some"

\* A read on c has nothing to wait for and returns 0: ^D, or no room is left in buf.
EndOfInput(c) == Free(c) = 0 \/ (lines # <<>> /\ Head(lines) = <<>>)

ConsoleCloses ==
  /\ Visits("CI_MASTER") /\ EndOfInput("CI_MASTER")
  /\ fd' = fd \ {"CI_MASTER", "CO_MASTER"}
  /\ rset' = rset \ {"CI_MASTER"}
  /\ lines' = <<>>
  /\ UNCHANGED <<buf, wset, timeout, machine, flags, timers, sigint, pc, process,
                 manner, console, inbox, hungup, owes, budget, history>>

\* The shared descriptor is read as CO_MASTER first: at the end of file the assert that
\* only inputs are read fails, or free_space's does.
OutputRead ==
  /\ At("io") /\ todo # {} /\ First(todo) = "CO_MASTER" /\ "CO_MASTER" \notin wset
  /\ EndOfInput("CO_MASTER") \/ ~Within("CO_MASTER")
  /\ Ends(IF Within("CO_MASTER") THEN "output read" ELSE "no room")

\* Slip: the timer runs on after the acknowledge.
AcknowledgedStillArmed(c, bytes) ==
  /\ ack' = FALSE
  /\ buf' = [buf EXCEPT ![c] = @ \o bytes, !["FO_MAIN"] = <<>>]
  /\ UNCHANGED timers

\* A read, of whatever channel, that begins with ACK or NAK takes the output back.
Acknowledged(c, bytes) ==
  /\ ack' = FALSE
  /\ buf' = [buf EXCEPT ![c] = @ \o bytes, !["FO_MAIN"] = <<>>]
  /\ Disarm("timer_ack")

Took(c, bytes) ==
  IF ack /\ Head(bytes) \in {"ack", "nak"}
    THEN Acknowledged(c, bytes)
    ELSE Put(c, bytes) /\ UNCHANGED <<ack, timers>>

\* A line, or what of it there is room for, is read for c: for CI_MASTER, and when the
\* descriptor is shared for CO_MASTER first; the read for CI_MASTER then waits for the next.
ConsoleRead(c) ==
  /\ Visits(c) /\ c \notin wset
  /\ Free(c) > 0 /\ lines # <<>> /\ Head(lines) # <<>>
  /\ LET line == Head(lines)
         room == IF Len(line) < Free(c) THEN Len(line) ELSE Free(c)
     IN  /\ Took(c, SubSeq(line, 1, room))
         /\ lines' = IF room = Len(line) THEN Tail(lines)
                     ELSE <<SubSeq(line, room + 1, Len(line))>> \o Tail(lines)
  /\ UNCHANGED <<fd, wset, rset, timeout, machine, ping, pings_left, sigint, pc, process,
                 manner, console, inbox, hungup, owes, budget, history>>

\* The second read of a shared console: the process waits for the user, whatever else is ready.
Blocked ==
  /\ console = "shared" /\ At("io") /\ todo # {} /\ First(todo) = "CI_MASTER"
  /\ Free("CI_MASTER") > 0 /\ lines = <<>>

\* The peer's bytes: some of what it sent, up to the end of something it sent or not.
MainRead ==
  /\ Visits("FI_MAIN") /\ inbox # <<>>
  /\ \/ \E k \in 1..Len(inbox) :
          /\ manner = "polite" => k = Len(inbox)
          /\ Took("FI_MAIN", FlattenSeq(SubSeq(inbox, 1, k)))
          /\ inbox' = SubSeq(inbox, k + 1, Len(inbox))
          /\ UNCHANGED history
     \/ \E n \in Cuts :
          /\ manner = "rude" /\ n < Len(Head(inbox))
          /\ Took("FI_MAIN", SubSeq(Head(inbox), 1, n))
          /\ inbox' = [inbox EXCEPT ![1] = SubSeq(@, n + 1, Len(@))]
          /\ Irregular
  /\ UNCHANGED <<fd, wset, rset, timeout, machine, ping, pings_left, sigint, pc, process,
                 manner, console, hungup, owes, lines, budget>>

MainEnds ==
  /\ Visits("FI_MAIN") /\ inbox = <<>>
  /\ close_main_channel
  /\ rset' = rset \ {"FI_MAIN"}
  /\ UNCHANGED <<buf, wset, machine, flags, timers, sigint, pc, process, world, history>>

\* The bits of wset are cleared one by one.
IoDone ==
  /\ At("io") /\ todo = {}
  /\ wset' = {} /\ todo' = rset /\ pc' = "process"
  /\ UNCHANGED <<fd, buf, rset, timeout, machine, flags, timers, sigint, process, world, history>>

PerformPendingIo ==
  \/ \E c \in Outputs : PendingWrite(c) \/ WritesNothing(c) \/ WritesBeyond(c)
  \/ \E c \in {"CO_MASTER", "CI_MASTER"} : ConsoleRead(c)
  \/ ArmsTwice \/ ReadSignals \/ ConsoleCloses \/ OutputRead \/ MainRead \/ MainEnds \/ IoDone

-----------------------------------------------------------------------------
(* process_signal, process_master *)

Handles(c) ==
  /\ At("process") /\ todo \cap fd # {} /\ c = First(todo \cap fd)
  /\ todo' = todo \ {c}

\* One read may bring signals of two timers: only the first one of a number counts.
Alarm == LET i == SelectInSeq(buf["II_SIGNAL"], LAMBDA x : x # "SIGINT")
         IN  IF i = 0 THEN "none" ELSE buf["II_SIGNAL"][i]

\* start_master_channel opens a console, or fails to and goes on with the descriptor -1;
\* it unblocks SIGINT, also one that waits already.
Interrupted == Contains(buf["II_SIGNAL"], "SIGINT")
Opened == IF Interrupted /\ console # "none" THEN {"CI_MASTER", "CO_MASTER"} ELSE {}

\* FD_SET of -1 is undefined: nothing happens, or the library's check aborts.
Outcome ==
  IF ~Interrupted THEN {process}
  ELSE IF Contains(alarms, "SIGINT") THEN {"killed"}
  ELSE IF console = "none" THEN {process, "abort"} ELSE {process}

process_signal ==
  /\ Handles("II_SIGNAL")
  /\ sigint' = (sigint /\ ~Interrupted)
  /\ buf' = [buf EXCEPT !["II_SIGNAL"] = <<>>,
                        !["CO_MASTER"] = IF Interrupted THEN Append(@, "prompt") ELSE @]
  /\ LET closes == "FO_MAIN" \in fd /\ Alarm = "timer_ping"
     IN  /\ fd' = (fd \cup Opened) \ (IF closes THEN {"FO_MAIN", "FI_MAIN"} ELSE {})
         /\ timeout' = IF closes /\ timeout # "zero" THEN "some" ELSE timeout
         /\ wset' = wset \cup (Opened \cap Outputs)
                         \cup (IF "FO_MAIN" \in fd /\ Alarm = "timer_ack" THEN {"FO_MAIN"} ELSE {})
  /\ process' \in Outcome
  /\ UNCHANGED <<rset, machine, flags, timers, pc, world, history>>

\* MCOPY looks for no room.
process_master ==
  /\ Handles("CI_MASTER")
  /\ Put("CO_MASTER", <<"prompt">>)
  /\ wset' = wset \cup {"CO_MASTER"}
  /\ process' = IF Leaves("CO_MASTER") THEN "overrun" ELSE process
  /\ UNCHANGED <<fd, rset, timeout, machine, flags, timers, sigint, pc, world, history>>

-----------------------------------------------------------------------------
(* process_main: one step for each frame among the bytes read *)

\* f is what frob_frame_process finds.
Text(f) == Inside(buf["FI_MAIN"], f)
Type(f) == Parsed(Text(f))

InMain == At("process") /\ todo \cap fd # {} /\ First(todo \cap fd) = "FI_MAIN"

\* Slip: the rest of the buffer goes with the frame.
DropsRest(f) == SubSeq(buf["FI_MAIN"], Len(buf["FI_MAIN"]) + 1, Len(buf["FI_MAIN"]))
\* What follows the frame's LRC.
fnext(f) == Behind(buf["FI_MAIN"], f)

\* Slip: the machine is not started anew.
NotRenewed(f) == f.cs
\* The struct that fnext returns has not_first = false.
Renewed(f) == "main"

\* A frame is taken and what it calls for on MAIN, its acknowledge first, is appended.
Takes(f, out) ==
  /\ buf' = [buf EXCEPT !["FI_MAIN"] = fnext(f), !["FO_MAIN"] = @ \o out]
  /\ machine' = Renewed(f)

\* commission_ack_on_main looks for no room.
AckOverruns(f) ==
  /\ f.e # "EAGAIN" /\ Leaves("FO_MAIN")
  /\ Takes(f, IF f.e = "found" THEN <<"ACK">> ELSE <<"NAK">>)
  /\ wset' = wset \cup {"FO_MAIN"} /\ process' = "overrun"
  /\ UNCHANGED <<fd, rset, timeout, flags, timers, sigint, pc, todo, world, history>>

Good(f) == f.e = "found" /\ ~Leaves("FO_MAIN")

BadLrc(f) ==
  /\ f.e = "EBADMSG" /\ ~Leaves("FO_MAIN")
  /\ Takes(f, <<"NAK">>)
  /\ wset' = wset \cup {"FO_MAIN"}
  /\ UNCHANGED <<fd, rset, timeout, flags, timers, sigint, round, world, history>>

\* assert(f->pe > f->p): all of the message but its ETX came with an earlier read.
EmptyMessage(f) == Good(f) /\ Text(f) = <<>> /\ Ends("empty message")

BadParse(f) ==
  /\ Good(f) /\ Text(f) # <<>> /\ Type(f) = "none"
  /\ Takes(f, <<"ACK">>)
  /\ wset' = wset \cup {"FO_MAIN"}
  /\ UNCHANGED <<fd, rset, timeout, flags, timers, sigint, round, world, history>>

Pong(f) ==
  /\ Good(f) /\ Type(f) = "T2"
  /\ Takes(f, <<"ACK">>)
  /\ wset' = wset \cup {"FO_MAIN"}
  /\ ping' = FALSE /\ Disarm("timer_ping")
  /\ pings_left' = pings_left + 1
  /\ UNCHANGED <<fd, rset, timeout, ack, sigint, round, world, history>>

\* Handled locally: commission_hardcoded_message_on_main, or nothing for T5.
Local(f) == Good(f) /\ Type(f) \in DOMAIN Response \ {"T2"}
Answer(f) == IF Response[Type(f)] = "" THEN <<>> ELSE Message(Response[Type(f)])

\* What free_space says once the acknowledge is there.
Spare == Free("FO_MAIN") - 1

\* Slip: the room is counted to the end of the array.
SkippedLate(answer) == Spare > 0 /\ Spare + 1 < Len(answer)
\* serialize refuses; but with no room at all it returns 0, which is not below 0.
Skipped(answer) == Spare > 0 /\ Spare < Len(answer)

Responds(f) ==
  /\ Local(f) /\ (Answer(f) # <<>> => Spare >= 0)
  /\ IF Answer(f) = <<>> \/ Skipped(Answer(f))
       THEN /\ Takes(f, <<"ACK">>)
            /\ wset' = wset \cup {"FO_MAIN"}
            /\ IF Answer(f) = <<>> THEN UNCHANGED history ELSE Irregular
            /\ UNCHANGED ack
       ELSE /\ Takes(f, <<"ACK">> \o (IF Spare = 0 THEN <<>> ELSE Answer(f)))
            /\ Commission(wset)
            /\ IF Spare = 0 THEN Irregular ELSE UNCHANGED history
  /\ UNCHANGED <<fd, rset, timeout, ping, pings_left, timers, sigint, round, world>>

\* What an answer may end in: the assert of free_space, zeros that stpncpy writes behind a
\* field and beyond the array, and for a T4 the copy from a pointer nobody has set.
AnswerFails(f) ==
  /\ Local(f) /\ Answer(f) # <<>>
  /\ \/ Spare < 0 /\ Ends("no room")
     \/ Spare \in 1..Len(Answer(f)) /\ Ends("overrun")
     \/ Response[Type(f)] = "T4" /\ Spare >= Len(Answer(f)) /\ Ends("fault")

\* S1 with the lock on the payment channel: commission_native_message.
Forwards(f) ==
  /\ Good(f) /\ Destination(Type(f)) = "NO_PAYMENT" /\ "NO_PAYMENT" \in fd
  /\ machine' = Renewed(f)
  /\ LET skipped == 2 >= Free("NO_PAYMENT")
     IN  /\ buf' = [buf EXCEPT !["FI_MAIN"] = fnext(f), !["FO_MAIN"] = Append(@, "ACK"),
                               !["NO_PAYMENT"] = IF skipped THEN @ ELSE @ \o Message("S1")]
         /\ wset' = wset \cup {"FO_MAIN"} \cup (IF skipped THEN {} ELSE {"NO_PAYMENT"})
         /\ IF skipped THEN Irregular ELSE UNCHANGED history
  /\ UNCHANGED <<fd, rset, timeout, flags, timers, sigint, round, world>>

\* Another process holds the lock: the fallback S2, on MAIN.
PaymentBusy(f) ==
  /\ Good(f) /\ Destination(Type(f)) = "NO_PAYMENT" /\ "NO_PAYMENT" \in fd /\ Spare >= 0
  /\ LET skipped == 2 >= Spare
     IN  /\ Takes(f, IF skipped THEN <<"ACK">> ELSE <<"ACK">> \o Message("S2"))
         /\ IF skipped THEN Irregular ELSE UNCHANGED history
         /\ IF skipped THEN wset' = wset \cup {"FO_MAIN"} /\ UNCHANGED ack
                       ELSE Commission(wset)
  /\ UNCHANGED <<fd, rset, timeout, ping, pings_left, timers, sigint, round, world>>

BusyFails(f) ==
  /\ Good(f) /\ Destination(Type(f)) = "NO_PAYMENT" /\ "NO_PAYMENT" \in fd /\ Spare < 0
  /\ Ends("no room")

\* lockf of a channel that is at -1, or an assert: no code is for the message.
Unhandled(f) ==
  /\ Good(f) /\ Type(f) \in Parseable \ DOMAIN Response
  /\ Destination(Type(f)) \in fd => Destination(Type(f)) = "FO_MAIN"
  /\ Ends("unhandled")

\* EAGAIN: the buffer is used up, and the machine stays where it is.
MainDone(f) ==
  /\ f.e = "EAGAIN"
  /\ todo' = todo \ {"FI_MAIN"}
  /\ buf' = [buf EXCEPT !["FI_MAIN"] = <<>>]
  /\ machine' = f.cs
  /\ IF f.cs = "error" THEN Irregular ELSE UNCHANGED history
  /\ UNCHANGED <<fd, wset, rset, timeout, flags, timers, sigint, pc, process, world>>

process_main ==
  InMain /\ \E f \in {frob_frame_process(machine, buf["FI_MAIN"])} :
    \/ AckOverruns(f) \/ BadLrc(f) \/ EmptyMessage(f) \/ BadParse(f) \/ Pong(f) \/ Responds(f)
    \/ AnswerFails(f) \/ Forwards(f) \/ PaymentBusy(f) \/ BusyFails(f) \/ Unhandled(f) \/ MainDone(f)

\* reset_fdsets: what select is given besides are the inputs that are open.
RoundDone ==
  /\ At("process") /\ todo \cap fd = {}
  /\ pc' = "select" /\ todo' = {}
  /\ rset' = rset \ fd
  /\ UNCHANGED <<fd, buf, wset, timeout, machine, flags, timers, sigint, process, world, history>>

Program ==
  WaitForIo \/ PerformPendingIo \/ process_signal \/ process_master \/ process_main \/ RoundDone

-----------------------------------------------------------------------------
(* The world *)

\* Nothing is on its way in either direction: a polite peer may speak, or leave.
Settled == inbox = <<>> /\ owes = <<>> /\ pc = "select" /\ buf["FO_MAIN"] = <<>>

Expects(reply) ==
  IF regular
    THEN /\ due' = due \o Keep(reply, Said)
         /\ unpaid' = unpaid + Len(Keep(reply, Payments))
    ELSE UNCHANGED <<due, unpaid>>

PeerSends ==
  /\ process = "up" /\ ~hungup /\ budget.sends > 0
  /\ manner = "polite" => Settled
  /\ \E q \in (IF manner = "polite" THEN Polite ELSE Requests) :
       /\ inbox' = Append(inbox, q.bytes)
       /\ Expects(q.reply)
  /\ budget' = [budget EXCEPT !.sends = @ - 1]
  /\ UNCHANGED <<io, timeout, machine, flags, timers, sigint, round,
                 manner, console, hungup, owes, lines, astray, regular, jammed>>

PeerReplies ==
  /\ process = "up" /\ owes # <<>> /\ inbox = <<>> /\ pc = "select"
  /\ inbox' = <<Head(owes)>> /\ owes' = Tail(owes)
  /\ Expects(IF Head(owes) = <<"ack">> THEN <<>> ELSE <<"ACK">>)
  /\ UNCHANGED <<io, timeout, machine, flags, timers, sigint, round,
                 manner, console, hungup, lines, budget, astray, regular, jammed>>

PeerHangsUp ==
  /\ process = "up" /\ ~hungup /\ (manner = "polite" => Settled)
  /\ hungup' = TRUE
  /\ UNCHANGED <<io, timeout, machine, flags, timers, sigint, round,
                 manner, console, inbox, owes, lines, budget, history>>

\* At most one signal of a timer is queued; another expiry counts as an overrun.
TimerExpires(timer) ==
  /\ process = "up" /\ manner = "rude" /\ timer \in armed
  /\ armed' = armed \ {timer}
  /\ alarms' = IF Contains(alarms, timer) THEN alarms ELSE Append(alarms, timer)
  /\ UNCHANGED <<io, timeout, machine, flags, sigint, round, world, history>>

\* SIGINT is read before SIGALRM; once it is not blocked it ends the process.
Interrupt ==
  /\ process = "up" /\ budget.interrupts > 0
  /\ budget' = [budget EXCEPT !.interrupts = @ - 1]
  /\ IF sigint THEN /\ alarms' = Cons("SIGINT", RemoveFirst(alarms, "SIGINT"))
                    /\ UNCHANGED process
               ELSE process' = "killed" /\ UNCHANGED alarms
  /\ UNCHANGED <<io, timeout, machine, flags, armed, sigint, pc, todo,
                 manner, console, inbox, hungup, owes, lines, history>>

\* A line, perhaps one that begins with the byte of NAK (^U), or ^D.
UserTypes ==
  /\ process = "up" /\ "CI_MASTER" \in fd /\ budget.lines > 0
  /\ \E line \in {<<"char", "char", "lf">>, <<"nak", "lf">>, <<>>} : lines' = Append(lines, line)
  /\ budget' = [budget EXCEPT !.lines = @ - 1]
  /\ UNCHANGED <<io, timeout, machine, flags, timers, sigint, round,
                 manner, console, inbox, hungup, owes, history>>

\* What arrives during a round is as if it had been there before its select, or
\* came before the next one; but a timer may run out while its answer is read, and a
\* blocked process has the user to wait for.
World ==
  \/ pc = "select" /\ (PeerSends \/ PeerReplies \/ PeerHangsUp)
  \/ (pc = "select" \/ Blocked) /\ (Interrupt \/ UserTypes)
  \/ pc # "process" /\ \E timer \in {"timer_ack", "timer_ping"} : TimerExpires(timer)

Next == Program \/ World
Spec == Init /\ [][Next]_vars /\ WF_vars(Program)

-----------------------------------------------------------------------------
(* Properties *)

\* What the peer sends, and with it all that a channel carries.
Carried == UNION {ToSet(q.bytes) : q \in Requests \cup Polite}
Symbol == Carried \cup {"stx", "tok", "etx", "ok", "ack", "nak", "char", "lf"}
                \cup {"ACK", "NAK", "prompt", "T1", "S1", "S2"} \cup {Response[t] : t \in DOMAIN Response}
                \cup {"SIGINT", "timer_ack", "timer_ping"}

EngineTypeOK ==
  /\ fd \subseteq Channel /\ wset \subseteq Outputs /\ rset \subseteq Inputs
  /\ buf \in [Channel -> Seq(Symbol)]
  /\ \A c \in {"NO_PAYMENT", "II_SIGNAL", "CI_MASTER"} : Len(buf[c]) <= Capacity
  /\ process # "overrun" =>
       /\ Len(buf["CO_MASTER"]) <= Capacity + 1 /\ Len(buf["FO_MAIN"]) <= Capacity + 1
       /\ Leaves("FO_MAIN") => Last(buf["FO_MAIN"]) \in {"ACK", "NAK"}
  /\ timeout \in {"never", "some", "zero"}
  /\ machine \in {"main", "first", "data", "lrc", "final", "error"}
  /\ {ack, ping, sigint, hungup, astray, regular, jammed} \subseteq BOOLEAN
  /\ pings_left \in Nat
  /\ armed \subseteq {"timer_ack", "timer_ping"}
  /\ pc \in {"select", "io", "process"} /\ todo \subseteq Channel
  /\ manner \in {"polite", "rude"} /\ console \in {"tty", "shared", "none"}

(***************************************************************************)
(* A peer that keeps to one exchange at a time, acknowledges in time and   *)
(* answers pings never makes the program fail one of its own asserts or    *)
(* abort: no duplicate alarm, no write of nothing, no message without a    *)
(* handler, no buffer that is full; until a console is opened that has not *)
(* a descriptor for each direction.  A T4 alone may end in a fault.        *)
(***************************************************************************)
PoliteSafe ==
  manner = "polite" /\ (console = "tty" \/ sigint) =>
    process \in {"up", "returned", "killed", "fault"}

(***************************************************************************)
(* frob.c:600, "We can read only from input channels", which the end of    *)
(* the interactive session that the prompt offers fails.                   *)
(***************************************************************************)
OnlyInputsRead == process # "output read"

(***************************************************************************)
(* What is appended to an output is not forgotten: when select is entered  *)
(* its descriptor is watched, unless select found it full once.  And no    *)
(* output is watched after it was closed (close_main_channel may run       *)
(* between FD_SET and select).                                             *)
(***************************************************************************)
OutputWatched ==
  At("select") =>
    /\ wset \subseteq fd
    /\ ~jammed => \A c \in Outputs \cap fd : buf[c] # <<>> => c \in wset

(***************************************************************************)
(* While an acknowledge or a T2 is missing for something that was written  *)
(* a timer runs for it, or its signal is on the way to process_signal, or  *)
(* has reached the write set: the wait for the peer is never unbounded,    *)
(* unless select found MAIN full and so forgot that bit.                   *)
(***************************************************************************)
OnTheWay(timer) ==
  \/ timer \in armed
  \/ Contains(alarms, timer) \/ Contains(buf["II_SIGNAL"], timer)
  \/ "FO_MAIN" \in wset

WaitsGuarded ==
  process = "up" /\ "FO_MAIN" \in fd /\ buf["FO_MAIN"] = <<>> /\ ~jammed =>
    /\ ack => OnTheWay("timer_ack")
    /\ ping => OnTheWay("timer_ping")

(***************************************************************************)
(* What MAIN got is what its requests call for, each request's acknowledge *)
(* and then its answer, in the order of the requests; all of it when all   *)
(* was read.  S1 is forwarded or answered with S2, never both.  Nothing is *)
(* said from where bytes are cut in the middle of something sent, an empty *)
(* frame puts the machine into its error state, an output is full, or a    *)
(* message is skipped for want of room (Irregular).                        *)
(***************************************************************************)
AnswersExact ==
  /\ ~astray
  /\ At("select") /\ inbox = <<>> /\ wset = {} /\ "FO_MAIN" \in fd => due = <<>> /\ unpaid = 0

(***************************************************************************)
(* A polite peer's requests are answered in full, unless the process waits *)
(* in the second read of a shared console.                                 *)
(***************************************************************************)
RequestsAnswered ==
  (manner = "polite" /\ inbox # <<>>)
    ~> (due = <<>> /\ unpaid = 0) \/ process # "up" \/ Blocked

(***************************************************************************)
(* After the peer has hung up the program ends: close_main_channel turns   *)
(* waiting for ever into waiting for a second.  A shared console's second  *)
(* read may keep it from noticing.                                         *)
(***************************************************************************)
HangUpEnds == hungup ~> process # "up" \/ Blocked
=============================================================================
