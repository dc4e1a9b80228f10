------------------------------- MODULE Frobd -------------------------------
(***************************************************************************)
(* The frob program: the eight tasks of main.c over the runtime of Sus,    *)
(* between a peer that writes bytes to descriptor 7 and reads what the     *)
(* program writes to descriptors 6 and args->out.                          *)
(*                                                                         *)
(*   peer -> fd 7 -> fsm_wireformat -> slot 0 -> fsm_frontend_foreign      *)
(*                    -> slot 1 -> autoresponder -> fd out -> peer         *)
(*                                  fsm_frontend_foreign -> fd 6 -> peer   *)
(*                                                                         *)
(* A byte is a member of a small alphabet.  "ok" is a byte equal to the    *)
(* LRC of the frame it ends, "bad" one that is not, and a whole message    *)
(* (token, type, fields) is the one byte named after its type.             *)
(***************************************************************************)
EXTENDS Integers, Sequences, FiniteSets

CONSTANTS
  NULL,
  slot0, slot1, \* s_iow[0] and s_iow[1]
  OutFd,        \* where autoresponder writes: "fd7" (UCSPI client) or "fd1"
  Timeout,      \* sus_ioloop's timeout: "none" (< 0), "deadline", "poll" (0)
  VisitLimit,   \* 100
  BufSize,      \* sizeof buf in fsm_wireformat: 1024
  Traffic,      \* what the peer may send in one go
  MaxSends,     \* bound: how often it does
  Patient,      \* it waits until the program is back at its read
  Split,        \* a read may end anywhere in what the peer sent
  MaxSignals,   \* bound: signals the process receives
  MaxAgain      \* bound: writes that answer EAGAIN

ASSUME OptionAssumption ==
  /\ OutFd \in {"fd1", "fd7"}
  /\ Timeout \in {"none", "deadline", "poll"}
  /\ {Patient, Split} \subseteq BOOLEAN
  /\ {VisitLimit, BufSize, MaxSends, MaxSignals, MaxAgain} \subseteq Nat
ASSUME PointerAssumption == slot0 # slot1 /\ NULL \notin 0..BufSize

VARIABLES
  \* the runtime, see Sus
  queue, visited, wait, iow, held, scheduled, active, surrended, process,
  \* the tasks
  pc,           \* where each task is in its own code
  buf,          \* wireformat's buffer: what the last read put there
  wf,           \* wireformat's machine: cs, p and start
  fe,           \* frontend's machine: cs, p and pe
  rsp,          \* autoresponder's answer, being written
  \* the world
  inbox,        \* bytes on their way to descriptor 7
  hungup,       \* the peer will send nothing more
  sent,         \* what the program wrote, oldest first
  open,         \* descriptors that are open
  expired,      \* sus_ioloop's deadline has passed
  signals,      \* signals not read yet
  budget,       \* what the bounds leave the world to do
  owed          \* history: the answer due for the frame in slot 0

rtVars  == <<queue, visited, wait, iow, held, scheduled, active, surrended, process>>
wfVars  == <<buf, wf>>
world   == <<inbox, hungup, sent, open, expired, signals, budget>>
vars    == <<rtVars, pc, wfVars, fe, rsp, world, owed>>

wireformat == "fsm_wireformat"
frontend == "fsm_frontend_foreign"
timer == "fsm_frontend_timer"
autoresponder == "autoresponder"
sighandler == "sighandler"
ioloop == "sus_ioloop"

\* main.c's array.
tasks == <<wireformat, frontend, timer, autoresponder, sighandler, "s6_notify",
           "controller", ioloop>>

Task == {tasks[i] : i \in DOMAIN tasks}
Fds == {"fd1", "fd6", "fd7", "timerfd", "sigfd"}

Input == <<"read", "fd7">>
AckOut == <<"write", "fd6">>
Output == <<"write", OutFd>>
Tick == <<"read", "timerfd">>
Signal == <<"read", "sigfd">>

\* Pointers count wireformat's buf from 1; 0 is the string literal "\x03".
Literal == 0

Rt == INSTANCE Sus WITH
        IoLoop <- ioloop,
        Slot <- {slot0, slot1},
        Lender <- [id \in {slot0, slot1} |->
                     IF id = slot0 THEN wireformat ELSE frontend],
        Borrower <- [id \in {slot0, slot1} |->
                       IF id = slot0 THEN frontend ELSE autoresponder],
        Pointer <- 0..BufSize,
        Size <- (0 - BufSize)..BufSize,
        Fd <- Fds

\* Messages autoresponder has a hardcoded answer for: the next type (type + 1).
Answer == [T1 |-> "T2", T2 |-> "T3", T3 |-> "T4", T4 |-> "T5",
           D4 |-> "D5", B1 |-> "B2", K0 |-> "K1"]

\* Messages body.rl can parse; the rest is ENOSYS.
Parseable == DOMAIN Answer \cup
             {"T5", "D5", "S1", "S2", "K1", "B2", "B3", "B4"}

Bytes == {"stx", "etx", "ok", "bad", "ack", "nak", "lf", "nul", "junk", "P1"}
           \cup Parseable
ASSUME TrafficAssumption == Traffic \subseteq Seq(Bytes)

Goto(t, label) == pc' = [pc EXCEPT ![t] = label]

Init ==
  \* inserted in order, each after the cursor: the last one has the first turn
  /\ queue = <<ioloop>> \o SubSeq(tasks, 1, Len(tasks) - 1)
  /\ visited = [t \in Task |-> 0]
  /\ wait = [t \in Task |-> Rt!Run]
  /\ iow = [id \in {slot0, slot1} |-> Rt!Cleared]
  /\ held = [id \in {slot0, slot1} |-> Rt!Empty]
  /\ scheduled = {} /\ active = {}
  /\ surrended = FALSE
  /\ process = "up"
  /\ pc = [t \in Task |->
             CASE t \in {wireformat, timer, sighandler} -> "read"
               [] t \in {frontend, autoresponder} -> "borrow"
               [] t \in {"s6_notify", "controller"} -> "end"
               [] OTHER -> "loop"]
  /\ buf = <<>>
  /\ wf = [cs |-> "idle", p |-> 1, start |-> 0]
  /\ fe = [cs |-> "main", p |-> 0, pe |-> 0]
  /\ rsp = NULL
  /\ inbox = <<>>
  /\ hungup = FALSE
  /\ sent = <<>>
  /\ open = Fds
  /\ expired = FALSE
  /\ signals = 0
  /\ budget = [sends |-> MaxSends, signals |-> MaxSignals, again |-> MaxAgain]
  /\ owed = "none"

-----------------------------------------------------------------------------
(* fsm_wireformat (wireprotocol.rl) *)

\* Slip: the read is not limited to the size of buf.
ReadLengthsUncapped == IF Split THEN 1..Len(inbox) ELSE {Len(inbox)}

\* What one read of descriptor 7 may return.
ReadLengths ==
  LET most == IF Len(inbox) < BufSize THEN Len(inbox) ELSE BufSize
  IN  IF Split THEN 1..most ELSE {most}

\* Bytes, into buf from its start: the machine goes on where it was.
WireReads ==
  /\ pc[wireformat] = "read"
  /\ Rt!IoDone(wireformat, Input)
  /\ "fd7" \in open /\ inbox # <<>>
  /\ \E n \in ReadLengths :
       /\ buf' = SubSeq(inbox, 1, n)
       /\ inbox' = SubSeq(inbox, n + 1, Len(inbox))
  /\ wf' = [wf EXCEPT !.p = 1]
  /\ Goto(wireformat, "exec")
  /\ UNCHANGED <<fe, rsp, hungup, sent, open, expired, signals, budget, owed>>

\* End of file, or the descriptor was closed by the surrender.
WireEnds ==
  /\ pc[wireformat] = "read"
  /\ Rt!IoDone(wireformat, Input)
  /\ "fd7" \in open => inbox = <<>> /\ hungup
  /\ open' = open \ {"fd7"}
  /\ Goto(wireformat, "disable")
  /\ UNCHANGED <<wfVars, fe, rsp, inbox, hungup, sent, expired, signals, budget, owed>>

WireDisables ==
  /\ pc[wireformat] = "disable"
  /\ Rt!Disable(wireformat, slot0)
  /\ Goto(wireformat, "end")
  /\ UNCHANGED <<wfVars, fe, rsp, world, owed>>

\* The machine: main := ((any-stx)* frame)*, one byte at a time up to the LRC.
WireNext(cs, byte) ==
  CASE cs = "idle"  -> IF byte = "stx" THEN "first" ELSE "idle"
    [] cs = "first" -> IF byte = "etx" THEN "error" ELSE "data"
    [] cs = "data"  -> IF byte = "etx" THEN "lrc" ELSE "data"

WireScans ==
  /\ pc[wireformat] = "exec" /\ Rt!Calls(wireformat)
  /\ wf.p <= Len(buf)
  /\ wf.cs \in {"idle", "first", "data"}
  /\ LET cs == WireNext(wf.cs, buf[wf.p]) IN
       /\ wf' = [cs |-> cs,
                 p |-> IF cs = "error" THEN wf.p ELSE wf.p + 1,
                 start |-> IF wf.cs = "first" /\ cs = "data" THEN wf.p
                           ELSE wf.start]
       /\ IF cs = "error" THEN Goto(wireformat, "read") ELSE UNCHANGED pc
  /\ UNCHANGED <<rtVars, buf, fe, rsp, world, owed>>

(***************************************************************************)
(* exec entered in the error state: the generated switch has no case for   *)
(* it.  No byte is looked at, and the machine stays there or falls through *)
(* to the label after the switch, which sets the start state.              *)
(***************************************************************************)
WireStuck ==
  /\ pc[wireformat] = "exec" /\ Rt!Calls(wireformat)
  /\ wf.cs = "error"
  /\ \E cs \in {"error", "idle"} : wf' = [wf EXCEPT !.cs = cs]
  /\ Goto(wireformat, "read")
  /\ UNCHANGED <<rtVars, buf, fe, rsp, world, owed>>

WireExhausts ==
  /\ pc[wireformat] = "exec" /\ Rt!Calls(wireformat)
  /\ wf.p > Len(buf) /\ wf.cs # "error"
  /\ Goto(wireformat, "read")
  /\ UNCHANGED <<rtVars, wfVars, fe, rsp, world, owed>>

\* Slip: the pointers are subtracted the other way around.
WireLendsBackwards ==
  /\ pc[wireformat] = "exec"
  /\ wf.cs = "lrc" /\ wf.p <= Len(buf)
  /\ IF buf[wf.p] = "ok"
       THEN Rt!Lend(wireformat, slot0, wf.start - wf.p, 1) /\ owed' = "ACK"
       ELSE Rt!Lend(wireformat, slot0, 1, Literal) /\ owed' = "NAK"
  /\ Goto(wireformat, "lent")
  /\ UNCHANGED <<wfVars, fe, rsp, world>>

\* LRC_Check: the whole buf from its start is lent, fpc - start bytes of it.
WireLends ==
  /\ pc[wireformat] = "exec"
  /\ wf.cs = "lrc" /\ wf.p <= Len(buf)
  /\ IF buf[wf.p] = "ok"
       THEN Rt!Lend(wireformat, slot0, wf.p - wf.start, 1) /\ owed' = "ACK"
       ELSE Rt!Lend(wireformat, slot0, 1, Literal) /\ owed' = "NAK"
  /\ Goto(wireformat, "lent")
  /\ UNCHANGED <<wfVars, fe, rsp, world>>

WireGoesOn ==
  /\ pc[wireformat] = "lent"
  /\ Rt!LendReturns(wireformat, slot0)
  /\ wf' = [wf EXCEPT !.cs = "idle", !.p = @ + 1]
  /\ Goto(wireformat, "exec")
  /\ UNCHANGED <<buf, fe, rsp, world, owed>>

WireWaits ==
  /\ \/ pc[wireformat] = "read" /\ Rt!IoWaits(wireformat, Input)
     \/ pc[wireformat] = "lent" /\ Rt!LendWaits(wireformat, slot0)
  /\ UNCHANGED <<pc, wfVars, fe, rsp, world, owed>>

Wireformat ==
  \/ WireReads \/ WireEnds \/ WireDisables \/ WireScans \/ WireStuck
  \/ WireExhausts \/ WireLends \/ WireGoesOn \/ WireWaits

-----------------------------------------------------------------------------
(* fsm_frontend_foreign (frontend.rl) *)

ByteAt(p) == IF p = Literal THEN "etx" ELSE buf[p]

\* A size with its sign bit set is an error to the loop: nothing is returned.
FrontTakes ==
  /\ pc[frontend] = "borrow"
  /\ Rt!BorrowTakes(frontend, slot0)
  /\ LET b == held'[slot0] IN
       IF b.size < 0
         THEN Goto(frontend, "disable") /\ UNCHANGED fe
         ELSE /\ fe' = [fe EXCEPT !.p = b.data, !.pe = b.data + b.size]
              /\ Goto(frontend, "exec")
  /\ UNCHANGED <<wfVars, rsp, world, owed>>

\* Slip: the loop goes on when sus_borrow fails.
FrontRetries ==
  /\ pc[frontend] = "borrow"
  /\ Rt!BorrowFails(frontend, slot0)
  /\ UNCHANGED <<pc, wfVars, fe, rsp, world, owed>>

FrontRefused ==
  /\ pc[frontend] = "borrow"
  /\ Rt!BorrowFails(frontend, slot0)
  /\ Goto(frontend, "disable")
  /\ UNCHANGED <<wfVars, fe, rsp, world, owed>>

\* The machine: (OK | NAK | IDEMPOTENT TIMEOUT{0,3} ACK)*, actions apart.
FrontNext(cs, byte) ==
  CASE cs = "main" /\ byte \in {"stx", "nak"} -> "main"
    [] cs = "main" /\ byte = "lf"  -> "lf"
    [] cs # "main" /\ byte = "ack" -> "main"
    [] cs = "lf" /\ byte = "nul"   -> "t1"
    [] cs = "t1" /\ byte = "nul"   -> "t2"
    [] cs = "t2" /\ byte = "nul"   -> "t3"
    [] OTHER -> "error"

InExec == pc[frontend] = "exec" /\ fe.p < fe.pe

\* A byte with no action: no state is left on an error but for the error.
FrontScans ==
  /\ InExec /\ Rt!Calls(frontend)
  /\ fe.cs # "error"
  /\ ~(fe.cs = "main" /\ ByteAt(fe.p) \in {"stx", "nak"})
  /\ LET cs == FrontNext(fe.cs, ByteAt(fe.p)) IN
       IF cs = "error"
         THEN fe' = [fe EXCEPT !.cs = cs] /\ Goto(frontend, "return")
         ELSE fe' = [fe EXCEPT !.cs = cs, !.p = @ + 1] /\ UNCHANGED pc
  /\ UNCHANGED <<rtVars, wfVars, rsp, world, owed>>

\* As WireStuck.
FrontStuck ==
  /\ InExec /\ Rt!Calls(frontend)
  /\ fe.cs = "error"
  /\ \E cs \in {"error", "main"} : fe' = [fe EXCEPT !.cs = cs]
  /\ Goto(frontend, "return")
  /\ UNCHANGED <<rtVars, wfVars, rsp, world, owed>>

Sends == InExec /\ fe.cs = "main" /\ ByteAt(fe.p) \in {"stx", "nak"}

AckNak == IF ByteAt(fe.p) = "stx" THEN "ACK" ELSE "NAK"

\* Slip: no Send between Confirm and Process.
FrontForgetsSend ==
  /\ Sends /\ Rt!Calls(frontend)
  /\ Goto(frontend, "process")
  /\ UNCHANGED <<rtVars, wfVars, fe, rsp, world, owed>>

\* Send: the byte is written, or fbreak leaves the machine past this byte.
FrontSends ==
  /\ Sends
  /\ Rt!IoDone(frontend, AckOut)
  /\ IF "fd6" \in open
       THEN /\ sent' = Append(sent, AckNak)
            /\ owed' = IF owed = AckNak THEN "none" ELSE owed
            /\ IF AckNak = "ACK"
                 THEN Goto(frontend, "process") /\ UNCHANGED fe
                 ELSE fe' = [fe EXCEPT !.p = @ + 1] /\ UNCHANGED pc
       ELSE /\ fe' = [fe EXCEPT !.p = @ + 1]
            /\ Goto(frontend, "return")
            /\ UNCHANGED <<sent, owed>>
  /\ UNCHANGED <<wfVars, rsp, inbox, hungup, open, expired, signals, budget>>

\* Slip: the STX is skipped, its byte still counted.
FrontLendsPastStx ==
  /\ pc[frontend] = "process"
  /\ Rt!Lend(frontend, slot1, fe.pe - fe.p, fe.p + 1)
  /\ Goto(frontend, "lent")
  /\ UNCHANGED <<wfVars, fe, rsp, world, owed>>

\* Process: what is left of the frame is lent on, from its STX.
FrontLends ==
  /\ pc[frontend] = "process"
  /\ Rt!Lend(frontend, slot1, fe.pe - fe.p, fe.p)
  /\ Goto(frontend, "lent")
  /\ UNCHANGED <<wfVars, fe, rsp, world, owed>>

FrontGoesOn ==
  /\ pc[frontend] = "lent"
  /\ Rt!LendReturns(frontend, slot1)
  /\ fe' = [fe EXCEPT !.p = @ + 1]
  /\ Goto(frontend, "exec")
  /\ UNCHANGED <<wfVars, rsp, world, owed>>

\* Slip: what is left is returned instead of what was borrowed.
FrontReturnsRest ==
  /\ pc[frontend] = "return" \/ (pc[frontend] = "exec" /\ ~InExec)
  /\ Rt!Return(frontend, slot0, fe.p, fe.pe - fe.p)
  /\ Goto(frontend, "borrow")
  /\ UNCHANGED <<wfVars, fe, rsp, world, owed>>

FrontReturns ==
  /\ pc[frontend] = "return" \/ (pc[frontend] = "exec" /\ ~InExec)
  /\ Rt!Return(frontend, slot0, held[slot0].data, held[slot0].size)
  /\ Goto(frontend, "borrow")
  /\ UNCHANGED <<wfVars, fe, rsp, world, owed>>

FrontDisables ==
  /\ pc[frontend] = "disable"
  /\ Rt!Disable(frontend, slot1)
  /\ Goto(frontend, "end")
  /\ UNCHANGED <<wfVars, fe, rsp, world, owed>>

FrontWaits ==
  /\ \/ pc[frontend] = "borrow" /\ Rt!BorrowWaits(frontend, slot0)
     \/ pc[frontend] = "lent" /\ Rt!LendWaits(frontend, slot1)
     \/ Sends /\ Rt!IoWaits(frontend, AckOut)
  /\ UNCHANGED <<pc, wfVars, fe, rsp, world, owed>>

Frontend ==
  \/ FrontTakes \/ FrontRefused \/ FrontScans \/ FrontStuck \/ FrontSends
  \/ FrontLends \/ FrontGoesOn \/ FrontReturns \/ FrontDisables \/ FrontWaits

-----------------------------------------------------------------------------
(* autoresponder (autoresponder.c) *)

\* xparse_message's view of what is lent: everything past the STX.
Lent == held[slot1]
Payload == SubSeq(buf, Lent.data + 1, Lent.data + Lent.size - 1)
Message == IF Len(Payload) = 1 /\ Payload[1] \in Parseable THEN Payload[1] ELSE NULL

\* Slip: a message of one byte taken for an empty one.
RespTakesLonger ==
  /\ pc[autoresponder] = "borrow"
  /\ Rt!BorrowTakes(autoresponder, slot1)
  /\ Goto(autoresponder, IF held'[slot1].size > 2 THEN "answer" ELSE "giveback")
  /\ UNCHANGED <<wfVars, fe, rsp, world, owed>>

RespTakes ==
  /\ pc[autoresponder] = "borrow"
  /\ Rt!BorrowTakes(autoresponder, slot1)
  /\ Goto(autoresponder, IF held'[slot1].size > 1 THEN "answer" ELSE "giveback")
  /\ UNCHANGED <<wfVars, fe, rsp, world, owed>>

RespEnds ==
  /\ pc[autoresponder] = "borrow"
  /\ Rt!BorrowFails(autoresponder, slot1)
  /\ Goto(autoresponder, "end")
  /\ UNCHANGED <<wfVars, fe, rsp, world, owed>>

\* Slip: the buffer is given back before the answer is written.
RespReturnsFirst ==
  /\ pc[autoresponder] = "answer"
  /\ Message \in DOMAIN Answer
  /\ rsp' = Answer[Message]
  /\ Rt!Return(autoresponder, slot1, Lent.data, Lent.size)
  /\ Goto(autoresponder, "write")
  /\ UNCHANGED <<wfVars, fe, world, owed>>

RespAnswers ==
  /\ pc[autoresponder] = "answer" /\ Rt!Calls(autoresponder)
  /\ Message \in DOMAIN Answer
  /\ rsp' = Answer[Message]
  /\ Goto(autoresponder, "write")
  /\ UNCHANGED <<rtVars, wfVars, fe, world, owed>>

\* EXITFX on a message it cannot parse, assert(false) on one without a body.
RespDies ==
  /\ pc[autoresponder] = "answer"
  /\ Message \notin DOMAIN Answer
  /\ Rt!Quit(autoresponder, IF Message = NULL THEN "exit" ELSE "abort")
  /\ UNCHANGED <<pc, wfVars, fe, rsp, world, owed>>

\* Whatever the write answered, the buffer is given back next.
RespWrites ==
  /\ pc[autoresponder] = "write"
  /\ Rt!IoDone(autoresponder, Output)
  /\ sent' = IF OutFd \in open THEN Append(sent, rsp) ELSE sent
  /\ rsp' = NULL
  /\ Goto(autoresponder, "giveback")
  /\ UNCHANGED <<wfVars, fe, inbox, hungup, open, expired, signals, budget, owed>>

RespReturns ==
  /\ pc[autoresponder] = "giveback"
  /\ Rt!Return(autoresponder, slot1, Lent.data, Lent.size)
  /\ Goto(autoresponder, "borrow")
  /\ UNCHANGED <<wfVars, fe, rsp, world, owed>>

RespWaits ==
  /\ \/ pc[autoresponder] = "borrow" /\ Rt!BorrowWaits(autoresponder, slot1)
     \/ pc[autoresponder] = "write" /\ Rt!IoWaits(autoresponder, Output)
  /\ UNCHANGED <<pc, wfVars, fe, rsp, world, owed>>

Autoresponder ==
  \/ RespTakes \/ RespEnds \/ RespAnswers \/ RespDies \/ RespWrites
  \/ RespReturns \/ RespWaits

-----------------------------------------------------------------------------
(* The tasks beside the chain, and what any task does *)

\* The timer is never armed: its read is over when the descriptor is closed.
TimerEnds ==
  /\ pc[timer] = "read"
  /\ Rt!IoDone(timer, Tick)
  /\ "timerfd" \notin open
  /\ Goto(timer, "end")
  /\ UNCHANGED <<wfVars, fe, rsp, world, owed>>

SignalHandled ==
  /\ pc[sighandler] = "read"
  /\ Rt!IoDone(sighandler, Signal)
  /\ IF "sigfd" \in open
       THEN signals' = signals - 1 /\ UNCHANGED pc
       ELSE Goto(sighandler, "end") /\ UNCHANGED signals
  /\ UNCHANGED <<wfVars, fe, rsp, inbox, hungup, sent, open, expired, budget, owed>>

SideWaits ==
  /\ \/ pc[timer] = "read" /\ Rt!IoWaits(timer, Tick)
     \/ pc[sighandler] = "read" /\ Rt!IoWaits(sighandler, Signal)
  /\ UNCHANGED <<pc, wfVars, fe, rsp, world, owed>>

\* The entry point returns; s6_notify (fd -1) and controller do nothing else.
TaskEnds ==
  /\ \E t \in Task : pc[t] = "end" /\ Rt!Finish(t)
  /\ UNCHANGED <<pc, wfVars, fe, rsp, world, owed>>

\* A write answers EAGAIN: descriptors 6 and 7 are non-blocking.
WriteAgain ==
  /\ budget.again > 0
  /\ \/ Sends /\ "fd6" \in open /\ Rt!IoAgain(frontend, AckOut)
     \/ /\ pc[autoresponder] = "write" /\ OutFd = "fd7" /\ OutFd \in open
        /\ Rt!IoAgain(autoresponder, Output)
  /\ budget' = [budget EXCEPT !.again = @ - 1]
  /\ UNCHANGED <<pc, wfVars, fe, rsp, inbox, hungup, sent, open, expired, signals, owed>>

Side == TimerEnds \/ SignalHandled \/ SideWaits \/ TaskEnds \/ WriteAgain

-----------------------------------------------------------------------------
(* sus_ioloop and select(2) (suspendables.c, eventloop.c) *)

Ready(e) ==
  /\ e[2] \in open
  /\ CASE e = Input  -> inbox # <<>> \/ hungup
       [] e = Signal -> signals > 0
       [] e = Tick   -> FALSE
       [] OTHER      -> TRUE

AllReady == {e \in scheduled : Ready(e)}
BadDescriptor == \E e \in scheduled : e[2] \notin open

\* io_wait_timeout looks at the clock first; xselect exits on a failure.
LoopSelects ==
  \/ Rt!IoLoopStarts
  \/ Rt!IoLoopResumes
  \/ /\ ~expired
     /\ IF BadDescriptor THEN Rt!SelectFails ELSE Rt!SelectReports(AllReady)

\* No event by the deadline, or at once in io_nowait.
LoopTimesOut ==
  /\ expired \/ (Timeout = "poll" /\ ~BadDescriptor /\ AllReady = {})
  /\ Rt!SelectTimesOut

\* The surrender closes descriptors 0 to 9, which are all there are.
Ioloop ==
  /\ LoopSelects \/ LoopTimesOut
  /\ open' = IF surrended' THEN {} ELSE open
  /\ UNCHANGED <<pc, wfVars, fe, rsp, inbox, hungup, sent, expired, signals, budget, owed>>

Program == Wireformat \/ Frontend \/ Autoresponder \/ Side \/ Ioloop

-----------------------------------------------------------------------------
(* The world *)

Lives == process = "up" /\ queue # <<>>

PeerSends ==
  /\ Lives /\ ~hungup /\ budget.sends > 0
  /\ Patient => inbox = <<>> /\ pc[wireformat] = "read"
  /\ \E bytes \in Traffic : inbox' = inbox \o bytes
  /\ budget' = [budget EXCEPT !.sends = @ - 1]
  /\ UNCHANGED <<rtVars, pc, wfVars, fe, rsp, hungup, sent, open, expired, signals, owed>>

\* The peer shuts down its side and goes on reading.
PeerHangsUp ==
  /\ Lives /\ ~hungup
  /\ hungup' = TRUE
  /\ UNCHANGED <<rtVars, pc, wfVars, fe, rsp, inbox, sent, open, expired, signals, budget, owed>>

\* A signal that sighandler blocks and reads, once it does.
SignalArrives ==
  /\ Lives /\ budget.signals > 0 /\ wait[sighandler].op = "io"
  /\ signals' = signals + 1
  /\ budget' = [budget EXCEPT !.signals = @ - 1]
  /\ UNCHANGED <<rtVars, pc, wfVars, fe, rsp, inbox, hungup, sent, open, expired, owed>>

DeadlinePasses ==
  /\ Lives /\ Timeout = "deadline" /\ ~expired
  /\ expired' = TRUE
  /\ UNCHANGED <<rtVars, pc, wfVars, fe, rsp, inbox, hungup, sent, open, signals, budget, owed>>

World == PeerSends \/ PeerHangsUp \/ SignalArrives \/ DeadlinePasses

Next == Program \/ World

\* The one thread of the program runs; nothing is asked of the world.
Spec == Init /\ [][Next]_vars /\ WF_vars(Program)

-----------------------------------------------------------------------------
(* Properties *)

Labels == {"read", "exec", "lent", "disable", "end", "borrow", "process",
           "return", "answer", "write", "giveback", "loop"}

FrobdTypeOK ==
  /\ Rt!TypeOK
  /\ pc \in [Task -> Labels]
  /\ buf \in Seq(Bytes) /\ Len(buf) <= BufSize
  /\ wf \in [cs : {"idle", "first", "data", "lrc", "error"},
             p : 1..(BufSize + 1), start : 0..BufSize]
  /\ fe \in [cs : {"main", "lf", "t1", "t2", "t3", "error"},
             p : 0..(BufSize + 1), pe : 0..(BufSize + 1)]
  /\ rsp \in {Answer[m] : m \in DOMAIN Answer} \cup {NULL}
  /\ inbox \in Seq(Bytes)
  /\ open \subseteq Fds
  /\ signals \in 0..MaxSignals
  /\ owed \in {"none", "ACK", "NAK"}

\* The program is one behaviour of the runtime and its contract.
Runtime == Rt!SusSpec

(***************************************************************************)
(* The buffer a frame was read into is not read into again while a task    *)
(* works on the frame: fsm_wireformat is inside sus_lend until the bytes   *)
(* it lent, and what fsm_frontend_foreign lent on of them, are back.       *)
(***************************************************************************)
BufferStable ==
  [][buf' # buf => \A id \in {slot0, slot1} :
                     iow[id].data \in {NULL, Literal} /\ held[id].data \in {NULL, Literal}]_vars

(***************************************************************************)
(* A loan of a loan: what fsm_frontend_foreign lends to autoresponder lies *)
(* inside what it has borrowed from fsm_wireformat and not given back.     *)
(***************************************************************************)
LoanChain ==
  iow[slot1].data # NULL =>
    /\ held[slot0].data \notin {NULL, Literal}
    /\ held[slot0].data <= iow[slot1].data
    /\ iow[slot1].data + iow[slot1].size = held[slot0].data + held[slot0].size

(***************************************************************************)
(* select(2) is never given a closed descriptor (it would fail with EBADF  *)
(* and xselect leave the program): fsm_wireformat closes descriptor 7,     *)
(* which is autoresponder's args->out in a UCSPI client, only when no      *)
(* task waits on it.                                                       *)
(***************************************************************************)
SelectOnlyOpen == Rt!Selecting => ~BadDescriptor

(***************************************************************************)
(* As long as a frame and its LRC arrive in one read, fsm_frontend_foreign *)
(* leaves its loop only because fsm_wireformat has left its own: the value *)
(* of sus_borrow it takes for an error is never the size of a frame.       *)
(***************************************************************************)
FrontendOutlivesWire ==
  pc[frontend] \in {"disable", "end"} => pc[wireformat] = "end"

Replies == {Answer[m] : m \in DOMAIN Answer}

(***************************************************************************)
(* Every response the peer gets comes right after the acknowledge of the   *)
(* frame it answers, however the two tasks' writes are suspended.          *)
(***************************************************************************)
AckBeforeReply ==
  \A i \in DOMAIN sent : sent[i] \in Replies => i > 1 /\ sent[i - 1] = "ACK"

(***************************************************************************)
(* The response being written is to the message in the buffer, which stays *)
(* borrowed for as long as the write is suspended.                         *)
(***************************************************************************)
ReplyFits ==
  pc[autoresponder] = "write" =>
    Lent.data # NULL /\ Message \in DOMAIN Answer /\ rsp = Answer[Message]

(***************************************************************************)
(* The first message the peer sends is acknowledged and then answered      *)
(* (t1.exp, d4.exp, t4.exp), unless the deadline strikes first, or a write *)
(* answers EAGAIN: sus_write then suspends without asking for its event,   *)
(* and select(2) may sleep over the answer for as long as the peer waits.  *)
(***************************************************************************)
FirstFrameAnswered ==
  \A m \in DOMAIN Answer :
    (budget.sends = MaxSends - 1 /\ inbox = <<"stx", m, "etx", "ok">>)
      ~> \/ sent = <<"ACK", Answer[m]>>
         \/ expired \/ budget.again < MaxAgain

(***************************************************************************)
(* At its deadline the program comes to its end: sus_ioloop gives up I/O,  *)
(* every task notices, whatever it was suspended in, and sus_runall        *)
(* returns.                                                                *)
(***************************************************************************)
DeadlineEndsProgram == expired ~> (queue = <<>>)

-----------------------------------------------------------------------------
(* What the repository says of the program and the code does not do *)

\* When a handed-over frame comes back, the peer has got what it is owed.
Settled(answer) ==
  pc[wireformat] = "lent" /\ Rt!Lendable(slot0) => owed # answer

\* message_ack.exp:6: "Message with bad LRC needs to be NAK'ed".
BadLrcNaked == Settled("NAK")

\* message_ack.exp:12: "Message with good LRC needs to be ACK'ed".
GoodLrcAcked == Settled("ACK")

(***************************************************************************)
(* sus.h:31-32: "In well-written program order of tasks in the input array *)
(* shouldn't matter": then the process does not fall asleep in select(2)   *)
(* over a task that could go on, just because its turn came too early.     *)
(***************************************************************************)
CanGoOn(t) ==
  \/ wait[t].op = "lend" /\ iow[wait[t].on].data = NULL
  \/ wait[t].op = "borrow" /\ (iow[wait[t].on].data # NULL \/ iow[wait[t].on].disabled)

SleepsOnlyIdle == Rt!Selecting => \A t \in Task : ~CanGoOn(t)

=============================================================================
