----------------------------- MODULE FrobdProofs -----------------------------
(***************************************************************************)
(* What holds of the frob program whatever the peer sends, however a read  *)
(* cuts it, for any buffer size, visit limit and timeout: it is one        *)
(* behaviour of the runtime of Sus, keeps that runtime's contract, and so  *)
(* has all that SusProofs shows of any tasks that do.                      *)
(***************************************************************************)
EXTENDS Frobd, FiniteSetTheorems, FunctionTheorems, SequenceTheorems, TLAPS

Rp == INSTANCE SusProofs WITH
        IoLoop <- ioloop,
        Slot <- {slot0, slot1},
        Lender <- [id \in {slot0, slot1} |->
                     IF id = slot0 THEN wireformat ELSE frontend],
        Borrower <- [id \in {slot0, slot1} |->
                       IF id = slot0 THEN frontend ELSE autoresponder],
        Pointer <- 0..BufSize,
        Size <- (0 - BufSize)..BufSize,
        Fd <- Fds

-----------------------------------------------------------------------------
(* The runtime as it is used here meets the assumptions of SusProofs *)

\* The tasks by name.
LEMMA TaskIs ==
  Task = {wireformat, frontend, timer, autoresponder, sighandler, "s6_notify",
          "controller", ioloop}
BY DEF Task, tasks

\* main.c's array is finite, and its eight tasks are different.
LEMMA TasksCounted ==
  /\ IsFiniteSet(Task) /\ Cardinality(Task) = 8
  /\ tasks \in [1..8 -> Task] /\ tasks \in Seq(Task) /\ Len(tasks) = 8
  /\ \A i, j \in 1..8 : tasks[i] = tasks[j] => i = j
<1>1. tasks \in [1..8 -> Task] /\ tasks \in Seq(Task) /\ Len(tasks) = 8
  BY DEF Task, tasks
<1>2. \A i, j \in 1..8 : tasks[i] = tasks[j] => i = j
  BY DEF tasks, wireformat, frontend, timer, autoresponder, sighandler, ioloop
<1>3. \A t \in Task : \E i \in 1..8 : tasks[i] = t
  BY DEF Task, tasks
<1> HIDE DEF tasks
<1>4. tasks \in Bijection(1..8, Task)
  BY <1>1, <1>2, <1>3, Fun_IsBij
<1>5. Cardinality(Task) = 8 /\ IsFiniteSet(Task)
  BY <1>4, FS_CountingElements, FS_NatBijection, Fun_ExistsBij
<1> QED BY <1>1, <1>2, <1>5

\* The four assumptions of SusProofs, for main.c's tasks and slots.
LEMMA Wiring ==
  /\ Rp!TaskAssumption /\ Rp!SlotAssumption /\ Rp!DataAssumption /\ Rp!LimitAssumption
<1>1. Rp!TaskAssumption
  BY TasksCounted, TaskIs DEF IsFiniteSet, Rp!IsFiniteSet
<1>2. Rp!SlotAssumption
  BY TaskIs DEF wireformat, frontend, ioloop, autoresponder
<1>3. Rp!DataAssumption /\ Rp!LimitAssumption
  BY OptionAssumption, PointerAssumption
<1> QED BY <1>1, <1>2, <1>3

\* Rt, which the program is written with, and Rp, which the theorems are about,
\* are instances of the same module with the same substitution.
LEMMA SameRuntime ==
  /\ Rt!vars = Rp!vars /\ Rt!SusNext = Rp!SusNext
  /\ Rt!TypeOK = Rp!TypeOK /\ Rt!HandoverSafe = Rp!HandoverSafe
  /\ Rt!ContractHolds = Rp!ContractHolds
  /\ Rt!WatchedHaveWaiters = Rp!WatchedHaveWaiters
  /\ Rt!TypeOK' = Rp!TypeOK' /\ Rt!HandoverSafe' = Rp!HandoverSafe'
  /\ Rt!ContractHolds' = Rp!ContractHolds'
  /\ Rt!WatchedHaveWaiters' = Rp!WatchedHaveWaiters'
<1>1. /\ Rt!vars = Rp!vars /\ Rt!SusNext = Rp!SusNext
      /\ Rt!TypeOK = Rp!TypeOK /\ Rt!TypeOK' = Rp!TypeOK'
  BY DEF Rt!At, Rp!At, Rt!Run, Rp!Run, Rt!Event, Rp!Event, Rt!Empty, Rp!Empty, Rt!Cleared,
         Rp!Cleared, Rt!Ops, Rp!Ops, Rt!Running, Rp!Running, Rt!Calls, Rp!Calls,
         Rt!Resumed, Rp!Resumed, Rt!Suspend, Rp!Suspend, Rt!Proceed, Rp!Proceed,
         Rt!GiveUp, Rp!GiveUp, Rt!Die, Rp!Die, Rt!Exit, Rp!Exit, Rt!Finish,
         Rp!Finish, Rt!Quit, Rp!Quit, Rt!Lendable, Rp!Lendable, Rt!Lend, Rp!Lend,
         Rt!LendWaits, Rp!LendWaits, Rt!LendReturns, Rp!LendReturns, Rt!Borrows,
         Rp!Borrows, Rt!BorrowFails, Rp!BorrowFails, Rt!BorrowWaits, Rp!BorrowWaits,
         Rt!BorrowTakes, Rp!BorrowTakes, Rt!Returnable, Rp!Returnable, Rt!Return,
         Rp!Return, Rt!Disable, Rp!Disable, Rt!AtIo, Rp!AtIo, Rt!MayTry, Rp!MayTry,
         Rt!IoWaits, Rp!IoWaits, Rt!IoAgain, Rp!IoAgain, Rt!IoDone, Rp!IoDone,
         Rt!Surrender, Rp!Surrender, Rt!NextRound, Rp!NextRound, Rt!IoLoopStarts,
         Rp!IoLoopStarts, Rt!IoLoopResumes, Rp!IoLoopResumes, Rt!Selecting,
         Rp!Selecting, Rt!SelectReports, Rp!SelectReports, Rt!SelectTimesOut,
         Rp!SelectTimesOut, Rt!SelectFails, Rp!SelectFails, Rt!SlotStep,
         Rp!SlotStep, Rt!TaskStep, Rp!TaskStep, Rt!IoLoopStep, Rp!IoLoopStep,
         Rt!SusNext, Rp!SusNext, Rt!vars, Rp!vars, Rt!sched, Rp!sched, Rt!slots,
         Rp!slots, Rt!io, Rp!io, Rt!Rotated, Rp!Rotated, Rt!Switch, Rp!Switch,
         Rt!Leave, Rp!Leave,
         Rt!TypeOK, Rp!TypeOK
<1>2. Rt!HandoverSafe = Rp!HandoverSafe /\ Rt!HandoverSafe' = Rp!HandoverSafe'
  BY DEF Rt!HandoverSafe, Rp!HandoverSafe, Rt!LenderWaits, Rp!LenderWaits
<1>3. /\ Rt!ContractHolds = Rp!ContractHolds
      /\ Rt!WatchedHaveWaiters = Rp!WatchedHaveWaiters
      /\ Rt!ContractHolds' = Rp!ContractHolds'
      /\ Rt!WatchedHaveWaiters' = Rp!WatchedHaveWaiters'
  BY DEF Rt!ContractHolds, Rp!ContractHolds, Rt!WatchedHaveWaiters, Rp!WatchedHaveWaiters
<1> QED BY <1>1, <1>2, <1>3

\* What SusProofs shows of a step of the runtime.
Sound == Rt!TypeOK /\ Rt!HandoverSafe /\ Rt!ContractHolds /\ Rt!WatchedHaveWaiters

\* StepType, StepSafe, StepContract and StepWatched of SusProofs.
LEMMA StaysSound ==
  ASSUME Sound, [Rt!SusNext]_(Rt!vars)
  PROVE  Sound'
<1>0. Rp!TypeOK /\ Rp!HandoverSafe /\ Rp!ContractHolds /\ Rp!WatchedHaveWaiters
  BY SameRuntime, Zenon DEF Sound
<1>1. [Rp!SusNext]_(Rp!vars)
  <2>1. CASE Rt!SusNext
    BY <2>1, SameRuntime, Zenon
  <2>2. CASE UNCHANGED Rt!vars
    BY <2>2 DEF Rt!vars, Rp!vars, Rt!sched, Rp!sched, Rt!slots, Rp!slots, Rt!io, Rp!io
  <2> QED BY <2>1, <2>2
<1>2. Rp!TypeOK' /\ Rp!HandoverSafe'
  BY <1>0, <1>1, Wiring, Rp!StepType, Rp!StepSafe
<1>3. Rp!ContractHolds'
  BY <1>0, <1>1, Wiring, Rp!StepContract
<1>4. Rp!WatchedHaveWaiters'
  BY <1>0, <1>1, Wiring, Rp!StepWatched
<1>5. /\ Rt!TypeOK' /\ Rt!HandoverSafe'
      /\ Rt!ContractHolds' /\ Rt!WatchedHaveWaiters'
  BY <1>2, <1>3, <1>4, SameRuntime, Zenon
<1> QED BY <1>5 DEF Sound

-----------------------------------------------------------------------------
(* What a call of the runtime leaves behind, its scheduling apart *)

Inside(t, op, on) == wait[t].op = op /\ wait[t].on = on
Suspends(t, op, on) == wait' = [wait EXCEPT ![t] = [op |-> op, on |-> on]]
Returns(t) == wait' = [wait EXCEPT ![t] = [op |-> "run", on |-> NULL]]
Io == <<scheduled, active, surrended>>

\* The part of Sus's TypeOK that these proofs need.
LEMMA Typed ==
  ASSUME Rt!TypeOK
  PROVE  /\ wait \in [Task -> [op : Rt!Ops, on : {slot0, slot1} \cup Rt!Event \cup {NULL}]]
         /\ iow \in [{slot0, slot1} -> [data : 0..BufSize \cup {NULL},
                                        size : (0 - BufSize)..BufSize \cup {0},
                                        borrowed : BOOLEAN, disabled : BOOLEAN]]
         /\ held \in [{slot0, slot1} -> [data : 0..BufSize \cup {NULL},
                                         size : (0 - BufSize)..BufSize \cup {0}]]
BY DEF Rt!TypeOK

\* sus_lend, its asserts kept: the slot was free, the caller is inside.
LEMMA LendEffect ==
  ASSUME NEW t, NEW id, NEW size, NEW data,
         Rt!Lend(t, id, size, data), process' # "assert"
  PROVE  /\ wait[t].op = "run" /\ Suspends(t, "lend", id)
         /\ iow[id].data = NULL
         /\ iow' = [iow EXCEPT ![id] = [data |-> data, size |-> size,
                                        borrowed |-> FALSE, disabled |-> FALSE]]
         /\ UNCHANGED <<held, Io>>
BY Zenon DEF Rt!Lend, Rt!Calls, Rt!Lendable, Rt!Suspend, Rt!At, Rt!Cleared, Rt!Die, Suspends, Rt!io, Io

\* Woken up with the buffer still out: nothing but the turn passes.
LEMMA LendWaitsEffect ==
  ASSUME NEW t, NEW id, Rt!LendWaits(t, id)
  PROVE  /\ Inside(t, "lend", id) /\ Suspends(t, "lend", id)
         /\ UNCHANGED <<iow, held, Io>>
BY DEF Rt!LendWaits, Rt!Resumed, Rt!Suspend, Rt!At, Suspends, Inside, Rt!slots, Rt!io, Io

\* sus_lend returns when the buffer is back.
LEMMA LendReturnsEffect ==
  ASSUME NEW t, NEW id, Rt!LendReturns(t, id), process' # "assert"
  PROVE  /\ Inside(t, "lend", id) /\ Returns(t)
         /\ iow[id].data = NULL
         /\ UNCHANGED <<iow, held, Io>>
BY DEF Rt!LendReturns, Rt!Resumed, Rt!Proceed, Rt!Run, Rt!At, Rt!Die, Returns,
       Inside, Rt!slots, Rt!io, Io

\* sus_disable marks the slot.
LEMMA DisableEffect ==
  ASSUME NEW t, NEW id, Rt!Disable(t, id)
  PROVE  /\ wait[t].op = "run"
         /\ iow' = [iow EXCEPT ![id].disabled = TRUE]
         /\ UNCHANGED <<wait, held, Io>>
BY DEF Rt!Disable, Rt!Calls, Rt!sched, Rt!io, Io

\* sus_borrow fails on a disabled slot only.
LEMMA BorrowFailsEffect ==
  ASSUME NEW t, NEW id, Rt!BorrowFails(t, id)
  PROVE  /\ iow[id].disabled
         /\ wait[t].op = "run" \/ Inside(t, "borrow", id)
         /\ Returns(t)
         /\ UNCHANGED <<iow, held, Io>>
BY DEF Rt!BorrowFails, Rt!Borrows, Rt!Calls, Rt!Resumed, Rt!GiveUp, Rt!Run, Rt!At,
       Returns, Inside, Rt!slots, Rt!io, Io

\* sus_borrow waits for a buffer.
LEMMA BorrowWaitsEffect ==
  ASSUME NEW t, NEW id, Rt!BorrowWaits(t, id)
  PROVE  /\ wait[t].op = "run" \/ Inside(t, "borrow", id)
         /\ Suspends(t, "borrow", id)
         /\ UNCHANGED <<iow, held, Io>>
BY DEF Rt!BorrowWaits, Rt!Borrows, Rt!Calls, Rt!Resumed, Rt!Suspend, Rt!At,
       Suspends, Inside, Rt!slots, Rt!io, Io

\* sus_borrow hands over what is in the slot.
LEMMA BorrowTakesEffect ==
  ASSUME NEW t, NEW id, Rt!BorrowTakes(t, id), process' # "assert"
  PROVE  /\ wait[t].op = "run" \/ Inside(t, "borrow", id)
         /\ Returns(t)
         /\ iow[id].data # NULL
         /\ iow' = [iow EXCEPT ![id].borrowed = TRUE]
         /\ held' = [held EXCEPT ![id] = [data |-> iow[id].data, size |-> iow[id].size]]
         /\ UNCHANGED Io
BY DEF Rt!BorrowTakes, Rt!Borrows, Rt!Calls, Rt!Resumed, Rt!Proceed, Rt!Run, Rt!At,
       Rt!Die, Returns, Inside, Rt!io, Io

\* sus_return clears the slot.
LEMMA ReturnEffect ==
  ASSUME NEW t, NEW id, NEW data, NEW size,
         Rt!Return(t, id, data, size), process' # "assert"
  PROVE  /\ wait[t].op = "run" /\ Returns(t)
         /\ iow' = [iow EXCEPT ![id] = [data |-> NULL, size |-> 0,
                                        borrowed |-> FALSE, disabled |-> FALSE]]
         /\ held' = [held EXCEPT ![id] = [data |-> NULL, size |-> 0]]
         /\ UNCHANGED Io
BY DEF Rt!Return, Rt!Calls, Rt!Proceed, Rt!Run, Rt!At, Rt!Die, Rt!Cleared, Rt!Empty,
       Returns, Rt!io, Io

\* Where a task is that runs in sus_read or sus_write.
LEMMA AtIoIs ==
  ASSUME NEW t, NEW e, Rt!AtIo(t, e)
  PROVE  wait[t].op = "run" \/ Inside(t, "io", e) \/ Inside(t, "again", e)
BY DEF Rt!AtIo, Rt!Calls, Rt!Resumed, Inside

\* The event is asked for.
LEMMA IoWaitsEffect ==
  ASSUME NEW t, NEW e, Rt!IoWaits(t, e)
  PROVE  /\ wait[t].op = "run" \/ Inside(t, "io", e) \/ Inside(t, "again", e)
         /\ Suspends(t, "io", e)
         /\ UNCHANGED <<iow, held, active, surrended>>
BY AtIoIs DEF Rt!IoWaits, Rt!Suspend, Rt!At, Suspends, Rt!slots

\* A write that answers EAGAIN asks for nothing.
LEMMA IoAgainEffect ==
  ASSUME NEW t, NEW e, Rt!IoAgain(t, e)
  PROVE  /\ wait[t].op = "run" \/ Inside(t, "io", e) \/ Inside(t, "again", e)
         /\ Suspends(t, "again", e)
         /\ UNCHANGED <<iow, held, Io>>
BY AtIoIs DEF Rt!IoAgain, Rt!Suspend, Rt!At, Suspends, Rt!slots, Rt!io, Io

\* A read or write is done after its event, or after the surrender.
LEMMA IoDoneEffect ==
  ASSUME NEW t, NEW e, Rt!IoDone(t, e)
  PROVE  /\ wait[t].op = "run" \/ Inside(t, "io", e) \/ Inside(t, "again", e)
         /\ surrended \/ e \in active
         /\ Returns(t)
         /\ active' = IF e[1] = "read" THEN active \ {e} ELSE active
         /\ UNCHANGED <<iow, held, surrended>>
BY AtIoIs DEF Rt!IoDone, Rt!MayTry, Rt!Proceed, Rt!Run, Rt!At, Returns, Rt!slots

\* The entry point of a task returns.
LEMMA FinishEffect ==
  ASSUME NEW t, Rt!Finish(t)
  PROVE  /\ t # ioloop /\ wait[t].op = "run" /\ Suspends(t, "exit", NULL)
         /\ UNCHANGED <<iow, held, Io>>
BY DEF Rt!Finish, Rt!Calls, Rt!Exit, Rt!At, Suspends, Rt!slots, Rt!io, Io

\* The process ends in a task's own code.
LEMMA QuitEffect ==
  ASSUME NEW t, NEW how, Rt!Quit(t, how)
  PROVE  UNCHANGED <<wait, iow, held, Io>>
BY DEF Rt!Quit, Rt!Die, Rt!slots, Rt!io, Io

\* The top of sus_ioloop's loop: it surrenders, or starts a round.
LEMMA NextRoundEffect ==
  ASSUME NEW ready, Rt!NextRound(ready)
  PROVE  /\ UNCHANGED <<iow, held>>
         /\ \/ surrended' = TRUE /\ Suspends(ioloop, "exit", NULL)
            \/ surrended' = surrended /\ active' = ready /\ Suspends(ioloop, "iowait", NULL)
BY DEF Rt!NextRound, Rt!Surrender, Rt!Exit, Rt!Suspend, Rt!At, Suspends, Rt!slots

\* sus_ioloop surrenders once, and otherwise reports what select(2) saw.
LEMMA IoloopEffect ==
  ASSUME Ioloop
  PROVE  /\ wait[ioloop].op \in {"run", "iowait", "select"}
         /\ UNCHANGED <<iow, held>>
         /\ \/ surrended' = TRUE /\ Suspends(ioloop, "exit", NULL)
            \/ /\ surrended' = surrended
               /\ active' \in {{}, active, AllReady}
               /\ \/ Suspends(ioloop, "iowait", NULL) \/ Suspends(ioloop, "select", NULL)
                  \/ wait' = wait
<1>1. CASE Rt!IoLoopStarts
  BY <1>1, NextRoundEffect DEF Rt!IoLoopStarts, Rt!Calls
<1>2. CASE Rt!IoLoopResumes
  <2>1. CASE scheduled = {}
    BY <1>2, <2>1, NextRoundEffect DEF Rt!IoLoopResumes, Rt!Resumed
  <2>2. CASE scheduled # {}
    BY <1>2, <2>2 DEF Rt!IoLoopResumes, Rt!Resumed, Rt!At, Suspends, Rt!slots, Rt!io
  <2> QED BY <2>1, <2>2
<1>3. CASE Rt!SelectFails
  BY <1>3 DEF Rt!SelectFails, Rt!Selecting, Rt!Resumed, Rt!Die, Rt!slots, Rt!io
<1>4. CASE Rt!SelectReports(AllReady)
  BY <1>4, NextRoundEffect DEF Rt!SelectReports, Rt!Selecting, Rt!Resumed
<1>5. CASE Rt!SelectTimesOut
  BY <1>5 DEF Rt!SelectTimesOut, Rt!Selecting, Rt!Resumed, Rt!Surrender, Rt!Exit, Rt!At,
              Suspends, Rt!slots
<1> QED BY <1>1, <1>2, <1>3, <1>4, <1>5 DEF Ioloop, LoopSelects, LoopTimesOut

-----------------------------------------------------------------------------
(* What the program may call: steps of the runtime *)

\* fsm_wireformat and fsm_frontend_foreign on slot 0.
LEMMA Slot0Calls ==
  /\ \A size \in (0 - BufSize)..BufSize, data \in 0..BufSize :
       Rt!Lend(wireformat, slot0, size, data) => Rt!SusNext
  /\ Rt!LendWaits(wireformat, slot0) => Rt!SusNext
  /\ Rt!LendReturns(wireformat, slot0) => Rt!SusNext
  /\ Rt!Disable(wireformat, slot0) => Rt!SusNext
  /\ held[slot0].data = NULL =>
       /\ Rt!BorrowFails(frontend, slot0) => Rt!SusNext
       /\ Rt!BorrowWaits(frontend, slot0) => Rt!SusNext
       /\ Rt!BorrowTakes(frontend, slot0) => Rt!SusNext
  /\ held[slot0].data # NULL =>
       (Rt!Return(frontend, slot0, held[slot0].data, held[slot0].size) => Rt!SusNext)
BY DEF Rt!SusNext, Rt!SlotStep

\* fsm_frontend_foreign and autoresponder on slot 1.
LEMMA Slot1Calls ==
  /\ \A size \in (0 - BufSize)..BufSize, data \in 0..BufSize :
       Rt!Lend(frontend, slot1, size, data) => Rt!SusNext
  /\ Rt!LendWaits(frontend, slot1) => Rt!SusNext
  /\ Rt!LendReturns(frontend, slot1) => Rt!SusNext
  /\ Rt!Disable(frontend, slot1) => Rt!SusNext
  /\ held[slot1].data = NULL =>
       /\ Rt!BorrowFails(autoresponder, slot1) => Rt!SusNext
       /\ Rt!BorrowWaits(autoresponder, slot1) => Rt!SusNext
       /\ Rt!BorrowTakes(autoresponder, slot1) => Rt!SusNext
  /\ held[slot1].data # NULL =>
       (Rt!Return(autoresponder, slot1, held[slot1].data, held[slot1].size) => Rt!SusNext)
BY PointerAssumption DEF Rt!SusNext, Rt!SlotStep

\* The events the program waits for are events of its descriptors.
LEMMA Descriptors ==
  /\ {Input, AckOut, Output, Tick, Signal} \subseteq Rt!Event
  /\ \A e \in {Input, AckOut, Output, Tick, Signal} : e[2] \in Fds
BY OptionAssumption DEF Input, AckOut, Output, Tick, Signal, Rt!Event, Fds

\* What any task but sus_ioloop may call.
LEMMA TaskCalls ==
  /\ \A t \in Task \ {ioloop}, e \in Rt!Event :
       Rt!IoWaits(t, e) \/ Rt!IoAgain(t, e) \/ Rt!IoDone(t, e) => Rt!SusNext
  /\ \A t \in Task \ {ioloop}, how \in {"exit", "abort"} : Rt!Quit(t, how) => Rt!SusNext
  /\ \A t \in Task : Rt!Finish(t) => Rt!SusNext
<1>1. \A t \in Task : Rt!Finish(t) => t # ioloop
  BY DEF Rt!Finish
<1> QED BY <1>1 DEF Rt!SusNext, Rt!TaskStep

\* What sus_ioloop does.
LEMMA LoopCalls ==
  LoopSelects \/ LoopTimesOut => Rt!SusNext
<1>1. AllReady \in SUBSET scheduled
  BY DEF AllReady
<1> QED BY <1>1 DEF LoopSelects, LoopTimesOut, Rt!SusNext, Rt!IoLoopStep

-----------------------------------------------------------------------------
(* The parts of the inductive invariant *)

\* A task is in its own code, or suspended inside a call (Inside), or gone.
Own(t) == wait[t].op = "run"
Gone(t) == wait[t].op \in {"run", "exit"}

(***************************************************************************)
(* Where each task may be suspended: only inside the call its label names. *)
(***************************************************************************)
WirePlace ==
  /\ pc[wireformat] \in {"read", "exec", "lent", "disable", "end"}
  /\ pc[wireformat] = "read" => Own(wireformat) \/ Inside(wireformat, "io", Input)
  /\ pc[wireformat] = "lent" => Inside(wireformat, "lend", slot0)
  /\ pc[wireformat] \in {"exec", "disable"} => Own(wireformat)
  /\ pc[wireformat] = "end" => Gone(wireformat)

FrontPlace ==
  /\ pc[frontend] \in {"borrow", "exec", "process", "lent", "return", "disable", "end"}
  /\ pc[frontend] = "borrow" => Own(frontend) \/ Inside(frontend, "borrow", slot0)
  /\ pc[frontend] = "exec" =>
       \/ Own(frontend)
       \/ Inside(frontend, "io", AckOut) \/ Inside(frontend, "again", AckOut)
  /\ pc[frontend] = "lent" => Inside(frontend, "lend", slot1)
  /\ pc[frontend] \in {"process", "return", "disable"} => Own(frontend)
  /\ pc[frontend] = "end" => Gone(frontend)

RespPlace ==
  /\ pc[autoresponder] \in {"borrow", "answer", "write", "giveback", "end"}
  /\ pc[autoresponder] = "borrow" =>
       Own(autoresponder) \/ Inside(autoresponder, "borrow", slot1)
  /\ pc[autoresponder] = "write" =>
       \/ Own(autoresponder)
       \/ Inside(autoresponder, "io", Output) \/ Inside(autoresponder, "again", Output)
  /\ pc[autoresponder] \in {"answer", "giveback"} => Own(autoresponder)
  /\ pc[autoresponder] = "end" => Gone(autoresponder)

SidePlace ==
  /\ pc[timer] \in {"read", "end"} /\ pc[sighandler] \in {"read", "end"}
  /\ pc[timer] = "read" => Own(timer) \/ Inside(timer, "io", Tick)
  /\ pc[timer] = "end" => Gone(timer)
  /\ pc[sighandler] = "read" => Own(sighandler) \/ Inside(sighandler, "io", Signal)
  /\ pc[sighandler] = "end" => Gone(sighandler)
  /\ Gone("s6_notify") /\ Gone("controller")
  /\ pc["s6_notify"] = "end" /\ pc["controller"] = "end"
  /\ pc[ioloop] = "loop" /\ wait[ioloop].op \in {"run", "iowait", "select", "exit"}

Place ==
  /\ pc \in [Task -> Labels]
  /\ WirePlace /\ FrontPlace /\ RespPlace /\ SidePlace

\* What fsm_wireformat's machine points at, and what it puts into slot 0.
WireData ==
  /\ buf \in Seq(Bytes) /\ Len(buf) <= BufSize
  /\ wf \in [cs : {"idle", "first", "data", "lrc", "error"},
             p : 1..(BufSize + 1), start : 0..BufSize]
  /\ pc[wireformat] = "lent" => wf.p <= Len(buf)
  /\ iow[slot0].data \in {NULL, Literal, 1}
  /\ iow[slot0].data = Literal => iow[slot0].size = 1

\* fsm_frontend_foreign works between the ends of what it has borrowed.
InFrame == pc[frontend] \in {"exec", "process", "lent", "return"}
FrontData ==
  /\ fe \in [cs : {"main", "lf", "t1", "t2", "t3", "error"},
             p : 0..(BufSize + 1), pe : 0..(BufSize + 1)]
  /\ pc[frontend] = "borrow" => held[slot0].data = NULL
  /\ InFrame => /\ held[slot0].data # NULL
                /\ held[slot0].data <= fe.p
                /\ fe.pe = held[slot0].data + held[slot0].size
  /\ pc[frontend] \in {"process", "lent"} => fe.p < fe.pe /\ held[slot0].data # Literal

RespData ==
  /\ pc[autoresponder] = "borrow" => held[slot1].data = NULL
  /\ pc[autoresponder] \in {"answer", "write", "giveback"} => held[slot1].data # NULL
  /\ rsp \in {Answer[m] : m \in DOMAIN Answer} \cup {NULL}

\* The acknowledge is what the peer got last, from its sending to the answer.
Acked == sent # <<>> /\ sent[Len(sent)] = "ACK"
AckedData ==
  /\ sent \in Seq({"ACK", "NAK"} \cup Replies)
  /\ pc[frontend] = "process" => Acked
  /\ /\ iow[slot1].data # NULL
     /\ ~iow[slot1].borrowed \/ pc[autoresponder] \in {"answer", "write"}
     => Acked

\* What is open, what may be read, and what the peer has sent.
Files ==
  /\ inbox \in Seq(Bytes)
  /\ open = IF surrended THEN {} ELSE IF "fd7" \in open THEN Fds ELSE Fds \ {"fd7"}
  /\ surrended => wait[ioloop].op = "exit"
  /\ ~surrended /\ "fd7" \notin open => pc[wireformat] \in {"disable", "end"}
  /\ signals \in Nat /\ budget \in [sends : Nat, signals : Nat, again : Nat]
  /\ signals + budget.signals <= MaxSignals
  /\ ~surrended /\ Signal \in active => signals > 0
  /\ owed \in {"none", "ACK", "NAK"}

\* main.c's tasks are different.
LEMMA TasksApart ==
  /\ {wireformat, frontend, timer, autoresponder, sighandler} \subseteq Task \ {ioloop}
  /\ {"s6_notify", "controller"} \subseteq Task \ {ioloop} /\ ioloop \in Task
  /\ wireformat \notin {frontend, timer, autoresponder, sighandler, "s6_notify", "controller"}
  /\ frontend \notin {timer, autoresponder, sighandler, "s6_notify", "controller"}
  /\ timer \notin {autoresponder, sighandler, "s6_notify", "controller"}
  /\ autoresponder \notin {sighandler, "s6_notify", "controller"}
  /\ sighandler \notin {"s6_notify", "controller"}
BY TaskIs DEF wireformat, frontend, timer, autoresponder, sighandler, ioloop

\* The program never calls the runtime other than SusProofs assumes.
LEMMA ProgramCalls ==
  ASSUME Rt!TypeOK, WireData, FrontData, RespData, Program
  PROVE  [Rt!SusNext]_(Rt!vars)
<1> USE TasksApart, Descriptors
<1>0. rtVars' = rtVars => UNCHANGED Rt!vars
  BY DEF rtVars, Rt!vars, Rt!sched, Rt!slots, Rt!io
<1>1. CASE Wireformat
  <2>1. CASE WireReads \/ WireEnds
    BY <2>1, TaskCalls DEF WireReads, WireEnds
  <2>2. CASE WireDisables \/ WireGoesOn
    BY <2>2, Slot0Calls DEF WireDisables, WireGoesOn
  <2>3. CASE WireScans \/ WireStuck \/ WireExhausts
    BY <2>3, <1>0 DEF WireScans, WireStuck, WireExhausts
  <2>4. CASE WireLends
    <3>1. /\ wf.p - wf.start \in (0 - BufSize)..BufSize /\ 1 \in 0..BufSize
          /\ 1 \in (0 - BufSize)..BufSize /\ Literal \in 0..BufSize
      BY <2>4, OptionAssumption DEF WireLends, WireData, Literal
    <3> QED BY <2>4, <3>1, Slot0Calls DEF WireLends
  <2>5. CASE WireWaits
    BY <2>5, TaskCalls, Slot0Calls DEF WireWaits
  <2> QED BY <1>1, <2>1, <2>2, <2>3, <2>4, <2>5 DEF Wireformat
<1>2. CASE Frontend
  <2>1. CASE FrontTakes \/ FrontRefused
    BY <2>1, Slot0Calls DEF FrontTakes, FrontRefused, FrontData
  <2>2. CASE FrontScans \/ FrontStuck
    BY <2>2, <1>0 DEF FrontScans, FrontStuck
  <2>3. CASE FrontSends
    BY <2>3, TaskCalls DEF FrontSends
  <2>4. CASE FrontLends
    <3>1. fe.p \in 0..BufSize /\ fe.pe - fe.p \in (0 - BufSize)..BufSize
      <4>1. held[slot0].data \in 0..BufSize \cup {NULL}
        BY DEF Rt!TypeOK
      <4>2. held[slot0].data \in 1..BufSize /\ held[slot0].data <= fe.p /\ fe.p < fe.pe
        BY <2>4, <4>1, OptionAssumption DEF FrontLends, FrontData, InFrame, Literal
      <4>3. fe.p \in 0..(BufSize + 1) /\ fe.pe \in 0..(BufSize + 1) /\ BufSize \in Nat
        BY OptionAssumption DEF FrontData
      <4> QED BY <4>2, <4>3
    <3> QED BY <2>4, <3>1, Slot1Calls DEF FrontLends
  <2>5. CASE FrontGoesOn \/ FrontDisables
    BY <2>5, Slot1Calls DEF FrontGoesOn, FrontDisables
  <2>6. CASE FrontReturns
    BY <2>6, Slot0Calls DEF FrontReturns, FrontData, InFrame
  <2>7. CASE FrontWaits
    BY <2>7, TaskCalls, Slot0Calls, Slot1Calls DEF FrontWaits, FrontData
  <2> QED BY <1>2, <2>1, <2>2, <2>3, <2>4, <2>5, <2>6, <2>7 DEF Frontend
<1>3. CASE Autoresponder
  <2>1. CASE RespTakes \/ RespEnds
    BY <2>1, Slot1Calls DEF RespTakes, RespEnds, RespData
  <2>2. CASE RespAnswers
    BY <2>2, <1>0 DEF RespAnswers
  <2>3. CASE RespDies
    BY <2>3, TaskCalls DEF RespDies
  <2>4. CASE RespWrites
    BY <2>4, TaskCalls DEF RespWrites
  <2>5. CASE RespReturns
    BY <2>5, Slot1Calls DEF RespReturns, RespData, Lent
  <2>6. CASE RespWaits
    BY <2>6, TaskCalls, Slot1Calls DEF RespWaits, RespData
  <2> QED BY <1>3, <2>1, <2>2, <2>3, <2>4, <2>5, <2>6 DEF Autoresponder
<1>4. CASE Side
  BY <1>4, TaskCalls
     DEF Side, TimerEnds, SignalHandled, SideWaits, TaskEnds, WriteAgain
<1>5. CASE Ioloop
  BY <1>5, LoopCalls DEF Ioloop
<1> QED BY <1>1, <1>2, <1>3, <1>4, <1>5 DEF Program

-----------------------------------------------------------------------------
(* Every step keeps the tasks in their places *)

\* Only t moves.
Moves(t) ==
  /\ pc' \in [Task -> Labels]
  /\ \A u \in Task \ {t} : pc'[u] = pc[u] /\ wait'[u] = wait[u]

\* A task that does not move stays in its place.
LEMMA OthersStay ==
  ASSUME Place, NEW t, Moves(t)
  PROVE  /\ t # wireformat => WirePlace'
         /\ t # frontend => FrontPlace'
         /\ t # autoresponder => RespPlace'
         /\ t \in {wireformat, frontend, autoresponder} => SidePlace'
<1> USE TasksApart DEF Place, Moves, Own, Inside, Gone
<1>1. t # wireformat => WirePlace'
  BY DEF WirePlace
<1>2. t # frontend => FrontPlace'
  BY DEF FrontPlace
<1>3. t # autoresponder => RespPlace'
  BY DEF RespPlace
<1>4. t \in {wireformat, frontend, autoresponder} => SidePlace'
  BY DEF SidePlace
<1> QED BY <1>1, <1>2, <1>3, <1>4

\* fsm_wireformat goes from one of its places to another.
LEMMA WirePlaceStep ==
  ASSUME Rt!TypeOK, Place, Wireformat, process' # "assert"
  PROVE  Place'
<1> USE Typed, TasksApart DEF Goto, Place, Moves, Suspends, Returns, Own, Inside, Gone, WirePlace, Labels
<1>1. CASE WireReads \/ WireEnds
  <2>1. Returns(wireformat)
    BY <1>1, IoDoneEffect DEF WireReads, WireEnds
  <2>2. WirePlace' /\ Moves(wireformat)
    BY <1>1, <2>1 DEF WireReads, WireEnds
  <2> QED BY <2>2, OthersStay
<1>2. CASE WireDisables
  <2>1. wait' = wait /\ wait[wireformat].op = "run"
    BY <1>2, DisableEffect DEF WireDisables, Io
  <2>2. WirePlace' /\ Moves(wireformat)
    BY <1>2, <2>1 DEF WireDisables
  <2> QED BY <2>2, OthersStay
<1>3. CASE WireScans \/ WireStuck \/ WireExhausts
  <2>1. wait' = wait /\ wait[wireformat].op = "run"
    BY <1>3 DEF WireScans, WireStuck, WireExhausts, Rt!Calls, rtVars
  <2>2. WirePlace' /\ Moves(wireformat)
    BY <1>3, <2>1 DEF WireScans, WireStuck, WireExhausts
  <2> QED BY <2>2, OthersStay
<1>4. CASE WireLends
  <2>1. Suspends(wireformat, "lend", slot0)
    BY <1>4, LendEffect DEF WireLends
  <2>2. WirePlace' /\ Moves(wireformat)
    BY <1>4, <2>1 DEF WireLends
  <2> QED BY <2>2, OthersStay
<1>5. CASE WireGoesOn
  <2>1. Returns(wireformat)
    BY <1>5, LendReturnsEffect DEF WireGoesOn
  <2>2. WirePlace' /\ Moves(wireformat)
    BY <1>5, <2>1 DEF WireGoesOn
  <2> QED BY <2>2, OthersStay
<1>6. CASE WireWaits
  <2>1. \/ pc[wireformat] = "read" /\ Suspends(wireformat, "io", Input)
        \/ pc[wireformat] = "lent" /\ Suspends(wireformat, "lend", slot0)
    BY <1>6, IoWaitsEffect, LendWaitsEffect DEF WireWaits
  <2>2. WirePlace' /\ Moves(wireformat)
    BY <1>6, <2>1 DEF WireWaits
  <2> QED BY <2>2, OthersStay
<1> QED BY <1>1, <1>2, <1>3, <1>4, <1>5, <1>6 DEF Wireformat

\* So does fsm_frontend_foreign.
LEMMA FrontPlaceStep ==
  ASSUME Rt!TypeOK, Place, Frontend, process' # "assert"
  PROVE  Place'
<1> USE Typed, TasksApart DEF Goto, Place, Moves, Suspends, Returns, Own, Inside, Gone, FrontPlace, Labels
<1>1. CASE FrontTakes \/ FrontRefused
  <2>1. Returns(frontend)
    BY <1>1, BorrowTakesEffect, BorrowFailsEffect DEF FrontTakes, FrontRefused
  <2>2. FrontPlace' /\ Moves(frontend)
    BY <1>1, <2>1 DEF FrontTakes, FrontRefused
  <2> QED BY <2>2, OthersStay
<1>2. CASE FrontScans \/ FrontStuck
  <2>1. wait' = wait /\ wait[frontend].op = "run"
    BY <1>2 DEF FrontScans, FrontStuck, Rt!Calls, rtVars
  <2>2. FrontPlace' /\ Moves(frontend)
    BY <1>2, <2>1 DEF FrontScans, FrontStuck, InExec
  <2> QED BY <2>2, OthersStay
<1>3. CASE FrontSends
  <2>1. Returns(frontend)
    BY <1>3, IoDoneEffect DEF FrontSends
  <2>2. FrontPlace' /\ Moves(frontend)
    BY <1>3, <2>1 DEF FrontSends, Sends, InExec
  <2> QED BY <2>2, OthersStay
<1>4. CASE FrontLends
  <2>1. Suspends(frontend, "lend", slot1)
    BY <1>4, LendEffect DEF FrontLends
  <2>2. FrontPlace' /\ Moves(frontend)
    BY <1>4, <2>1 DEF FrontLends
  <2> QED BY <2>2, OthersStay
<1>5. CASE FrontGoesOn \/ FrontReturns
  <2>1. Returns(frontend)
    BY <1>5, LendReturnsEffect, ReturnEffect DEF FrontGoesOn, FrontReturns
  <2>2. FrontPlace' /\ Moves(frontend)
    BY <1>5, <2>1 DEF FrontGoesOn, FrontReturns
  <2> QED BY <2>2, OthersStay
<1>6. CASE FrontDisables
  <2>1. wait' = wait /\ wait[frontend].op = "run"
    BY <1>6, DisableEffect DEF FrontDisables
  <2>2. FrontPlace' /\ Moves(frontend)
    BY <1>6, <2>1 DEF FrontDisables
  <2> QED BY <2>2, OthersStay
<1>7. CASE FrontWaits
  <2>1. \/ pc[frontend] = "borrow" /\ Suspends(frontend, "borrow", slot0)
        \/ pc[frontend] = "lent" /\ Suspends(frontend, "lend", slot1)
        \/ pc[frontend] = "exec" /\ Suspends(frontend, "io", AckOut)
    BY <1>7, BorrowWaitsEffect, LendWaitsEffect, IoWaitsEffect DEF FrontWaits, Sends, InExec
  <2>2. FrontPlace' /\ Moves(frontend)
    BY <1>7, <2>1 DEF FrontWaits
  <2> QED BY <2>2, OthersStay
<1> QED BY <1>1, <1>2, <1>3, <1>4, <1>5, <1>6, <1>7 DEF Frontend

\* So does autoresponder.
LEMMA RespPlaceStep ==
  ASSUME Rt!TypeOK, Place, Autoresponder, process' # "assert"
  PROVE  Place'
<1> USE Typed, TasksApart DEF Goto, Place, Moves, Suspends, Returns, Own, Inside, Gone, RespPlace, Labels
<1>1. CASE RespTakes \/ RespEnds \/ RespWrites \/ RespReturns
  <2>1. Returns(autoresponder)
    BY <1>1, BorrowTakesEffect, BorrowFailsEffect, IoDoneEffect, ReturnEffect
       DEF RespTakes, RespEnds, RespWrites, RespReturns
  <2>2. RespPlace' /\ Moves(autoresponder)
    BY <1>1, <2>1 DEF RespTakes, RespEnds, RespWrites, RespReturns
  <2> QED BY <2>2, OthersStay
<1>2. CASE RespAnswers
  <2>1. wait' = wait /\ wait[autoresponder].op = "run"
    BY <1>2 DEF RespAnswers, Rt!Calls, rtVars
  <2>2. RespPlace' /\ Moves(autoresponder)
    BY <1>2, <2>1 DEF RespAnswers
  <2> QED BY <2>2, OthersStay
<1>3. CASE RespDies
  <2>1. wait' = wait
    BY <1>3, QuitEffect DEF RespDies
  <2>2. RespPlace' /\ Moves(autoresponder)
    BY <1>3, <2>1 DEF RespDies
  <2> QED BY <2>2, OthersStay
<1>4. CASE RespWaits
  <2>1. \/ pc[autoresponder] = "borrow" /\ Suspends(autoresponder, "borrow", slot1)
        \/ pc[autoresponder] = "write" /\ Suspends(autoresponder, "io", Output)
    BY <1>4, BorrowWaitsEffect, IoWaitsEffect DEF RespWaits
  <2>2. RespPlace' /\ Moves(autoresponder)
    BY <1>4, <2>1 DEF RespWaits
  <2> QED BY <2>2, OthersStay
<1> QED BY <1>1, <1>2, <1>3, <1>4 DEF Autoresponder

\* So do the other tasks and sus_ioloop.
LEMMA SidePlaceStep ==
  ASSUME Rt!TypeOK, Place, Side \/ Ioloop, process' # "assert"
  PROVE  Place'
<1> USE Typed, TasksApart DEF Goto, Place, Moves, Suspends, Returns, Own, Inside, Gone, Labels
<1>1. CASE TimerEnds \/ SideWaits \/ SignalHandled
  <2>1. PICK t \in {timer, sighandler} :
          /\ Moves(t)
          /\ \/ pc'[t] \in {pc[t], "end"} /\ wait'[t].op = "run"
             \/ pc'[t] = pc[t] /\ wait'[t].op = "io"
                /\ wait'[t].on = IF t = timer THEN Tick ELSE Signal
          /\ pc[t] = "read"
    <3>1. CASE TimerEnds
      BY <3>1, IoDoneEffect DEF TimerEnds
    <3>2. CASE SignalHandled
      BY <3>2, IoDoneEffect DEF SignalHandled
    <3>3. CASE SideWaits
      BY <3>3, IoWaitsEffect DEF SideWaits
    <3> QED BY <1>1, <3>1, <3>2, <3>3
  <2>2. SidePlace'
    BY <2>1 DEF SidePlace
  <2> QED BY <2>1, <2>2, OthersStay
<1>2. CASE TaskEnds
  <2>1. PICK t \in Task : pc[t] = "end" /\ Suspends(t, "exit", NULL) /\ pc' = pc
    BY <1>2, FinishEffect DEF TaskEnds
  <2>2. WirePlace'
    BY <2>1 DEF WirePlace
  <2>3. FrontPlace'
    BY <2>1 DEF FrontPlace
  <2>4. RespPlace'
    BY <2>1 DEF RespPlace
  <2>5. SidePlace'
    BY <2>1 DEF SidePlace
  <2> QED BY <2>1, <2>2, <2>3, <2>4, <2>5
<1>3. CASE WriteAgain
  <2>1. /\ pc' = pc
        /\ \/ pc[frontend] = "exec" /\ Suspends(frontend, "again", AckOut)
           \/ pc[autoresponder] = "write" /\ Suspends(autoresponder, "again", Output)
    BY <1>3, IoAgainEffect DEF WriteAgain, Sends, InExec
  <2>2. CASE pc[frontend] = "exec" /\ Suspends(frontend, "again", AckOut)
    <3>1. FrontPlace' /\ Moves(frontend)
      BY <2>1, <2>2 DEF FrontPlace
    <3> QED BY <3>1, OthersStay
  <2>3. CASE pc[autoresponder] = "write" /\ Suspends(autoresponder, "again", Output)
    <3>1. RespPlace' /\ Moves(autoresponder)
      BY <2>1, <2>3 DEF RespPlace
    <3> QED BY <3>1, OthersStay
  <2> QED BY <2>1, <2>2, <2>3
<1>4. CASE Ioloop
  <2>1. /\ pc' = pc /\ Moves(ioloop)
        /\ wait'[ioloop].op \in {"run", "iowait", "select", "exit"}
    <3>1. /\ pc' = pc /\ wait[ioloop].op \in {"run", "iowait", "select"}
          /\ \/ wait' = wait
             \/ \E op \in {"exit", "iowait", "select"} : Suspends(ioloop, op, NULL)
      BY <1>4, IoloopEffect DEF Ioloop
    <3> QED BY <3>1
  <2>2. SidePlace'
    BY <2>1 DEF SidePlace
  <2> QED BY <2>1, <2>2, OthersStay
<1> QED BY <1>1, <1>2, <1>3, <1>4 DEF Side

-----------------------------------------------------------------------------
(* What a step of one task leaves to the others *)

\* fsm_wireformat has no part in slot 1, nor in what is held of slot 0.
LEMMA WireTouches ==
  ASSUME Rt!TypeOK, Place, Wireformat, process' # "assert"
  PROVE  /\ iow'[slot1] = iow[slot1] /\ held' = held /\ surrended' = surrended
         /\ UNCHANGED <<fe, rsp, sent, hungup, expired, signals, budget>>
         /\ \A t \in Task \ {wireformat} : pc'[t] = pc[t]
<1> USE PointerAssumption, Typed, TasksApart DEF Goto, Io
<1>0. pc \in [Task -> Labels]
  BY DEF Place
<1>1. /\ UNCHANGED <<fe, rsp, sent, hungup, expired, signals, budget>>
      /\ \A t \in Task \ {wireformat} : pc'[t] = pc[t]
  BY <1>0 DEF Wireformat, WireReads, WireEnds, WireDisables, WireScans, WireStuck, WireExhausts,
       WireLends, WireGoesOn, WireWaits, world
<1>2. iow'[slot1] = iow[slot1] /\ held' = held /\ surrended' = surrended
  <2>1. CASE WireReads \/ WireEnds
    BY <2>1, IoDoneEffect DEF WireReads, WireEnds
  <2>2. CASE WireDisables
    BY <1>0, <2>2, DisableEffect DEF WireDisables
  <2>3. CASE WireScans \/ WireStuck \/ WireExhausts
    BY <2>3 DEF WireScans, WireStuck, WireExhausts, rtVars
  <2>4. CASE WireLends
    BY <1>0, <2>4, LendEffect DEF WireLends
  <2>5. CASE WireGoesOn \/ WireWaits
    BY <2>5, LendReturnsEffect, LendWaitsEffect, IoWaitsEffect DEF WireGoesOn, WireWaits
  <2> QED BY <2>1, <2>2, <2>3, <2>4, <2>5 DEF Wireformat
<1> QED BY <1>1, <1>2

\* fsm_frontend_foreign gives slot 0 back or leaves what is lent there.
LEMMA FrontTouches ==
  ASSUME Rt!TypeOK, Place, Frontend, process' # "assert"
  PROVE  /\ \/ iow'[slot0].data = NULL
            \/ iow'[slot0].data = iow[slot0].data /\ iow'[slot0].size = iow[slot0].size
         /\ iow'[slot0].disabled => iow[slot0].disabled
         /\ held'[slot1] = held[slot1] /\ surrended' = surrended
         /\ UNCHANGED <<buf, wf, rsp, inbox, open, hungup, expired, signals, budget>>
         /\ \A t \in Task \ {frontend} : pc'[t] = pc[t]
<1> USE PointerAssumption, Typed, TasksApart DEF Goto, Io
<1>0. pc \in [Task -> Labels]
  BY DEF Place
<1>1. /\ UNCHANGED <<buf, wf, rsp, inbox, open, hungup, expired, signals, budget>>
      /\ \A t \in Task \ {frontend} : pc'[t] = pc[t]
  BY <1>0 DEF Frontend, FrontTakes, FrontRefused, FrontScans, FrontStuck, FrontSends, FrontLends,
       FrontGoesOn, FrontReturns, FrontDisables, FrontWaits, wfVars, world
<1>2. /\ \/ iow'[slot0].data = NULL
         \/ iow'[slot0].data = iow[slot0].data /\ iow'[slot0].size = iow[slot0].size
      /\ iow'[slot0].disabled => iow[slot0].disabled
      /\ held'[slot1] = held[slot1] /\ surrended' = surrended
  <2>1. CASE FrontTakes
    BY <1>0, <2>1, BorrowTakesEffect DEF FrontTakes
  <2>2. CASE FrontScans \/ FrontStuck
    BY <2>2 DEF FrontScans, FrontStuck, rtVars
  <2>3. CASE FrontSends \/ FrontRefused \/ FrontGoesOn \/ FrontWaits
    BY <2>3, IoDoneEffect, BorrowFailsEffect, LendReturnsEffect, BorrowWaitsEffect,
       LendWaitsEffect, IoWaitsEffect DEF FrontSends, FrontRefused, FrontGoesOn, FrontWaits
  <2>4. CASE FrontLends
    BY <1>0, <2>4, LendEffect DEF FrontLends
  <2>5. CASE FrontReturns
    BY <1>0, <2>5, ReturnEffect DEF FrontReturns
  <2>6. CASE FrontDisables
    BY <1>0, <2>6, DisableEffect DEF FrontDisables
  <2> QED BY <2>1, <2>2, <2>3, <2>4, <2>5, <2>6 DEF Frontend
<1> QED BY <1>1, <1>2

\* autoresponder only gives slot 1 back.
LEMMA RespTouches ==
  ASSUME Rt!TypeOK, Place, Autoresponder, process' # "assert"
  PROVE  /\ \/ iow'[slot1].data = NULL /\ held'[slot1].data = NULL
            \/ iow'[slot1].data = iow[slot1].data /\ iow'[slot1].size = iow[slot1].size
         /\ iow'[slot0] = iow[slot0] /\ held'[slot0] = held[slot0]
         /\ surrended' = surrended
         /\ UNCHANGED <<buf, wf, fe, inbox, open, hungup, expired, signals, budget, owed>>
         /\ \A t \in Task \ {autoresponder} : pc'[t] = pc[t]
<1> USE PointerAssumption, Typed, TasksApart DEF Goto, Io
<1>0. pc \in [Task -> Labels]
  BY DEF Place
<1>1. /\ UNCHANGED <<buf, wf, fe, inbox, open, hungup, expired, signals, budget, owed>>
      /\ \A t \in Task \ {autoresponder} : pc'[t] = pc[t]
  BY <1>0 DEF Autoresponder, RespTakes, RespEnds, RespAnswers, RespDies, RespWrites, RespReturns,
       RespWaits, wfVars, world
<1>2. /\ \/ iow'[slot1].data = NULL /\ held'[slot1].data = NULL
         \/ iow'[slot1].data = iow[slot1].data /\ iow'[slot1].size = iow[slot1].size
      /\ iow'[slot0] = iow[slot0] /\ held'[slot0] = held[slot0]
      /\ surrended' = surrended
  <2>1. CASE RespTakes
    BY <1>0, <2>1, BorrowTakesEffect DEF RespTakes
  <2>2. CASE RespAnswers
    BY <2>2 DEF RespAnswers, rtVars
  <2>3. CASE RespEnds \/ RespWrites \/ RespWaits
    BY <2>3, IoDoneEffect, BorrowFailsEffect, BorrowWaitsEffect, IoWaitsEffect
       DEF RespEnds, RespWrites, RespWaits
  <2>4. CASE RespDies
    BY <2>4, QuitEffect DEF RespDies
  <2>5. CASE RespReturns
    BY <1>0, <2>5, ReturnEffect DEF RespReturns
  <2> QED BY <2>1, <2>2, <2>3, <2>4, <2>5 DEF Autoresponder
<1> QED BY <1>1, <1>2

\* The other tasks, sus_ioloop and the world have nothing to do with a frame.
LEMMA RestTouches ==
  ASSUME Rt!TypeOK, Place, Side \/ Ioloop \/ World
  PROVE  /\ UNCHANGED <<iow, held, buf, wf, fe, rsp, sent, owed>>
         /\ \A t \in Task \ {timer, sighandler} : pc'[t] = pc[t]
<1> USE TasksApart DEF Goto, Io
<1>0. pc \in [Task -> Labels]
  BY DEF Place
<1>1. /\ UNCHANGED <<buf, wf, fe, rsp, sent, owed>>
      /\ \A t \in Task \ {timer, sighandler} : pc'[t] = pc[t]
  BY <1>0 DEF Side, TimerEnds, SignalHandled, SideWaits, TaskEnds, WriteAgain, Ioloop,
              World, PeerSends, PeerHangsUp, SignalArrives, DeadlinePasses, wfVars, world
<1>2. UNCHANGED <<iow, held>>
  <2>1. CASE Side
    BY <2>1, IoDoneEffect, IoWaitsEffect, IoAgainEffect, FinishEffect
       DEF Side, TimerEnds, SignalHandled, SideWaits, TaskEnds, WriteAgain
  <2>2. CASE Ioloop
    BY <2>2, IoloopEffect
  <2>3. CASE World
    BY <2>3 DEF World, PeerSends, PeerHangsUp, SignalArrives, DeadlinePasses, rtVars
  <2> QED BY <2>1, <2>2, <2>3
<1> QED BY <1>1, <1>2

\* Nothing moves.
LEMMA StutterTouches ==
  ASSUME UNCHANGED vars
  PROVE  UNCHANGED <<rtVars, queue, visited, wait, iow, held, scheduled, active, surrended, process,
                     pc, buf, wf, fe, rsp, inbox, hungup, sent, open, expired, signals, budget, owed>>
BY DEF vars, rtVars, wfVars, world

-----------------------------------------------------------------------------
(* The frame in the buffer *)

\* A read takes no more than fits the buffer.
LEMMA WireReadsData ==
  ASSUME NEW S, inbox \in Seq(S), NEW n \in ReadLengths
  PROVE  /\ SubSeq(inbox, 1, n) \in Seq(S) /\ Len(SubSeq(inbox, 1, n)) <= BufSize
         /\ SubSeq(inbox, n + 1, Len(inbox)) \in Seq(S)
<1>1. n \in Nat /\ n <= Len(inbox) /\ n <= BufSize /\ Len(inbox) \in Nat
  BY OptionAssumption DEF ReadLengths
<1>2. Len(SubSeq(inbox, 1, n)) = n
  BY <1>1
<1> QED BY <1>1, <1>2, SubSeqProperties

\* fsm_wireformat's machine stays in its buffer, and lends it from the start.
LEMMA WireDataStep ==
  ASSUME Rt!TypeOK, Place, Files, WireData, [Next]_vars, process' # "assert"
  PROVE  WireData'
<1> USE PointerAssumption, OptionAssumption, TasksApart DEF Goto, Literal
<1>0. /\ iow \in [{slot0, slot1} -> [data : 0..BufSize \cup {NULL},
                                     size : (0 - BufSize)..BufSize \cup {0},
                                     borrowed : BOOLEAN, disabled : BOOLEAN]]
      /\ pc \in [Task -> Labels]
  BY Typed DEF Place
<1>1. CASE Wireformat
  <2>1. CASE WireReads
    <3>1. PICK n \in ReadLengths : buf' = SubSeq(inbox, 1, n)
      BY <2>1 DEF WireReads
    <3>2. buf' \in Seq(Bytes) /\ Len(buf') <= BufSize
      BY <3>1, WireReadsData DEF Files
    <3>3. iow' = iow /\ wf' = [wf EXCEPT !.p = 1] /\ pc'[wireformat] = "exec"
      BY <1>0, <2>1, IoDoneEffect DEF WireReads
    <3>4. wf' \in [cs : {"idle", "first", "data", "lrc", "error"},
                   p : 1..(BufSize + 1), start : 0..BufSize]
      BY <3>3 DEF WireData
    <3> QED BY <3>2, <3>3, <3>4 DEF WireData
  <2>2. CASE WireEnds
    BY <1>0, <2>2, IoDoneEffect DEF WireEnds, WireData, wfVars
  <2>3. CASE WireDisables
    BY <1>0, <2>3, DisableEffect DEF WireDisables, WireData, wfVars
  <2>4. CASE WireScans
    <3>1. iow' = iow /\ buf' = buf /\ pc'[wireformat] # "lent"
      BY <1>0, <2>4 DEF WireScans, rtVars
    <3>2. WireNext(wf.cs, buf[wf.p]) \in {"idle", "first", "data", "lrc", "error"}
      BY <2>4 DEF WireScans, WireNext
    <3>3. wf.p \in 1..BufSize
      BY <2>4 DEF WireScans, WireData
    <3>4. wf' \in [cs : {"idle", "first", "data", "lrc", "error"},
                   p : 1..(BufSize + 1), start : 0..BufSize]
      BY <2>4, <3>2, <3>3 DEF WireScans, WireData
    <3> QED BY <3>1, <3>4 DEF WireData
  <2>5. CASE WireStuck \/ WireExhausts
    BY <1>0, <2>5 DEF WireStuck, WireExhausts, WireData, rtVars, wfVars
  <2>6. CASE WireLends
    <3>1. UNCHANGED <<buf, wf>> /\ wf.p <= Len(buf)
      BY <2>6 DEF WireLends, wfVars
    <3>2. /\ iow'[slot0].data \in {Literal, 1}
          /\ iow'[slot0].data = Literal => iow'[slot0].size = 1
      BY <1>0, <2>6, LendEffect DEF WireLends
    <3> QED BY <3>1, <3>2 DEF WireData
  <2>7. CASE WireGoesOn
    <3>1. iow' = iow /\ buf' = buf /\ pc'[wireformat] = "exec"
      BY <1>0, <2>7, LendReturnsEffect DEF WireGoesOn
    <3>2. wf' = [wf EXCEPT !.cs = "idle", !.p = @ + 1] /\ wf.p <= Len(buf)
      BY <2>7 DEF WireGoesOn, WireData
    <3>3. wf.p + 1 \in 1..(BufSize + 1)
      BY <3>2 DEF WireData
    <3>4. wf' \in [cs : {"idle", "first", "data", "lrc", "error"},
                   p : 1..(BufSize + 1), start : 0..BufSize]
      BY <3>2, <3>3, Zenon DEF WireData
    <3> QED BY <3>1, <3>4 DEF WireData
  <2>8. CASE WireWaits
    BY <2>8, IoWaitsEffect, LendWaitsEffect DEF WireWaits, WireData, wfVars
  <2> QED BY <1>1, <2>1, <2>2, <2>3, <2>4, <2>5, <2>6, <2>7, <2>8 DEF Wireformat
<1>2. CASE Frontend
  BY <1>2, FrontTouches DEF WireData
<1>3. CASE Autoresponder
  BY <1>3, RespTouches DEF WireData
<1>4. CASE Side \/ Ioloop \/ World
  BY <1>4, RestTouches DEF WireData
<1>5. CASE UNCHANGED vars
  BY <1>5, StutterTouches DEF WireData
<1> QED BY <1>1, <1>2, <1>3, <1>4, <1>5 DEF Next, Program

\* The type of fsm_frontend_foreign's machine.
FrontShape(f) == f \in [cs : {"main", "lf", "t1", "t2", "t3", "error"},
                        p : 0..(BufSize + 1), pe : 0..(BufSize + 1)]

\* The literal fsm_wireformat lends for a damaged frame holds no byte that
\* is acknowledged, so fsm_frontend_foreign lends nothing of it on.
LEMMA SendsInside ==
  ASSUME Rt!TypeOK, Rt!HandoverSafe, WireData, FrontData, Sends
  PROVE  held[slot0].data # Literal
<1> USE PointerAssumption, OptionAssumption DEF Literal
<1>1. held[slot0].data \in 0..BufSize \cup {NULL}
  BY Typed
<1>2. SUFFICES ASSUME held[slot0].data = 0 PROVE FALSE
  OBVIOUS
<1>3. iow[slot0].data = 0 /\ iow[slot0].size = held[slot0].size
  BY <1>1, <1>2, Typed DEF Rt!HandoverSafe
<1>4. held[slot0].size = 1
  BY <1>3 DEF WireData
<1>5. fe.pe = 1 /\ fe.p < fe.pe /\ fe.p \in 0..(BufSize + 1)
  BY <1>2, <1>4 DEF Sends, InExec, InFrame, FrontData
<1>6. fe.p = 0
  BY <1>5
<1> QED BY <1>6 DEF Sends, ByteAt

\* fsm_frontend_foreign stays between the ends of what it has borrowed.
LEMMA FrontDataStep ==
  ASSUME Rt!TypeOK, Rt!HandoverSafe, Rt!HandoverSafe', Place, WireData, FrontData,
         [Next]_vars, process' # "assert"
  PROVE  FrontData'
<1> USE PointerAssumption, OptionAssumption, TasksApart DEF Goto, Literal
<1>0. /\ held \in [{slot0, slot1} -> [data : 0..BufSize \cup {NULL},
                                      size : (0 - BufSize)..BufSize \cup {0}]]
      /\ pc \in [Task -> Labels]
  BY Typed DEF Place
<1>1. CASE Frontend
  <2>1. CASE FrontTakes
    <3>1. /\ held' = [held EXCEPT ![slot0] = [data |-> iow[slot0].data, size |-> iow[slot0].size]]
          /\ iow[slot0].data # NULL
      BY <2>1, BorrowTakesEffect DEF FrontTakes
    <3>2. CASE held'[slot0].size < 0
      BY <1>0, <2>1, <3>2 DEF FrontTakes, FrontData, InFrame
    <3>3. CASE ~(held'[slot0].size < 0)
      <4>1. /\ fe' = [fe EXCEPT !.p = held'[slot0].data,
                                !.pe = held'[slot0].data + held'[slot0].size]
            /\ pc'[frontend] = "exec"
        BY <1>0, <2>1, <3>3 DEF FrontTakes
      <4>2. held'[slot0].data \in {0, 1} /\ held'[slot0].size \in 0..BufSize
        <5>1. iow[slot0].size \in (0 - BufSize)..BufSize \cup {0}
          BY Typed
        <5> QED BY <1>0, <3>1, <3>3, <5>1 DEF WireData
      <4>3. FrontShape(fe)
        BY DEF FrontData, FrontShape
      <4>4. fe'.p = held'[slot0].data /\ fe'.pe = held'[slot0].data + held'[slot0].size
        BY <4>1, <4>3 DEF FrontShape
      <4>5. held'[slot0].data \in 0..(BufSize + 1)
            /\ held'[slot0].data + held'[slot0].size \in 0..(BufSize + 1)
        BY <4>2
      <4>6. FrontShape(fe')
        BY <4>1, <4>3, <4>5 DEF FrontShape
      <4>7. held'[slot0].data <= fe'.p /\ held'[slot0].data # NULL
        BY <1>0, <3>1, <4>2, <4>4
      <4> QED BY <4>1, <4>4, <4>6, <4>7 DEF FrontData, FrontShape
    <3> QED BY <3>2, <3>3
  <2>2. CASE FrontRefused \/ FrontDisables
    <3>1. held' = held /\ fe' = fe /\ pc'[frontend] \in {"disable", "end"}
      BY <1>0, <2>2, BorrowFailsEffect, DisableEffect DEF FrontRefused, FrontDisables
    <3> QED BY <3>1 DEF FrontData, InFrame
  <2>3. CASE FrontScans \/ FrontStuck
    <3>1. held' = held /\ pc[frontend] = "exec" /\ pc'[frontend] \in {"exec", "return"}
      BY <1>0, <2>3 DEF FrontScans, FrontStuck, InExec, rtVars
    <3>2. /\ fe'.pe = fe.pe /\ fe'.p \in {fe.p, fe.p + 1} /\ fe.p < fe.pe
          /\ fe'.cs \in {"main", "lf", "t1", "t2", "t3", "error"}
          /\ fe' = [cs |-> fe'.cs, p |-> fe'.p, pe |-> fe'.pe]
      BY <2>3 DEF FrontScans, FrontStuck, InExec, FrontNext, FrontData
    <3> QED BY <3>1, <3>2, <1>0 DEF FrontData, InFrame
  <2>4. CASE FrontSends
    <3>1. held' = held /\ pc[frontend] = "exec" /\ fe.p < fe.pe
      BY <2>4, IoDoneEffect DEF FrontSends, Sends, InExec
    <3>2. \/ pc'[frontend] = "process" /\ fe' = fe
          \/ pc'[frontend] \in {"exec", "return"} /\ fe' = [fe EXCEPT !.p = @ + 1]
      BY <1>0, <2>4, <3>1 DEF FrontSends
    <3>3. held[slot0].data # Literal
      BY <2>4, SendsInside DEF FrontSends
    <3> QED BY <1>0, <3>1, <3>2, <3>3 DEF FrontData, InFrame
  <2>5. CASE FrontLends
    <3>1. held' = held /\ fe' = fe /\ pc[frontend] = "process" /\ pc'[frontend] = "lent"
      BY <1>0, <2>5, LendEffect DEF FrontLends
    <3> QED BY <3>1 DEF FrontData, InFrame
  <2>6. CASE FrontGoesOn
    <3>1. /\ held' = held /\ fe' = [fe EXCEPT !.p = @ + 1] /\ pc[frontend] = "lent"
          /\ pc'[frontend] = "exec"
      BY <1>0, <2>6, LendReturnsEffect DEF FrontGoesOn
    <3> QED BY <1>0, <3>1 DEF FrontData, InFrame
  <2>7. CASE FrontReturns
    <3>1. /\ held' = [held EXCEPT ![slot0] = [data |-> NULL, size |-> 0]]
          /\ fe' = fe /\ pc'[frontend] = "borrow"
      BY <1>0, <2>7, ReturnEffect DEF FrontReturns
    <3> QED BY <1>0, <3>1 DEF FrontData, InFrame
  <2>8. CASE FrontWaits
    BY <2>8, BorrowWaitsEffect, LendWaitsEffect, IoWaitsEffect
       DEF FrontWaits, FrontData, InFrame
  <2> QED BY <1>1, <2>1, <2>2, <2>3, <2>4, <2>5, <2>6, <2>7, <2>8 DEF Frontend
<1>2. CASE Wireformat
  BY <1>2, WireTouches DEF FrontData, InFrame
<1>3. CASE Autoresponder
  BY <1>3, RespTouches DEF FrontData, InFrame
<1>4. CASE Side \/ Ioloop \/ World
  BY <1>4, RestTouches DEF FrontData, InFrame
<1>5. CASE UNCHANGED vars
  BY <1>5, StutterTouches DEF FrontData, InFrame
<1> QED BY <1>1, <1>2, <1>3, <1>4, <1>5 DEF Next, Program

\* autoresponder holds slot 1 from sus_borrow to sus_return.
LEMMA RespDataStep ==
  ASSUME Rt!TypeOK, Place, RespData, [Next]_vars, process' # "assert"
  PROVE  RespData'
<1> USE PointerAssumption, OptionAssumption, TasksApart DEF Goto
<1>0. /\ held \in [{slot0, slot1} -> [data : 0..BufSize \cup {NULL},
                                      size : (0 - BufSize)..BufSize \cup {0}]]
      /\ pc \in [Task -> Labels]
  BY Typed DEF Place
<1>1. CASE Autoresponder
  <2>1. CASE RespTakes
    BY <1>0, <2>1, BorrowTakesEffect DEF RespTakes, RespData
  <2>2. CASE RespAnswers
    BY <1>0, <2>2 DEF RespAnswers, RespData, rtVars
  <2>3. CASE RespEnds
    BY <1>0, <2>3, BorrowFailsEffect DEF RespEnds, RespData
  <2>4. CASE RespDies
    BY <1>0, <2>4, QuitEffect DEF RespDies, RespData
  <2>5. CASE RespWrites
    BY <1>0, <2>5, IoDoneEffect DEF RespWrites, RespData
  <2>6. CASE RespReturns
    BY <1>0, <2>6, ReturnEffect DEF RespReturns, RespData
  <2>7. CASE RespWaits
    BY <1>0, <2>7, BorrowWaitsEffect, IoWaitsEffect DEF RespWaits, RespData
  <2> QED BY <1>1, <2>1, <2>2, <2>3, <2>4, <2>5, <2>6, <2>7 DEF Autoresponder
<1>2. CASE Wireformat
  BY <1>2, WireTouches DEF RespData
<1>3. CASE Frontend
  BY <1>3, FrontTouches DEF RespData
<1>4. CASE Side \/ Ioloop \/ World
  BY <1>4, RestTouches DEF RespData
<1>5. CASE UNCHANGED vars
  BY <1>5, StutterTouches DEF RespData
<1> QED BY <1>1, <1>2, <1>3, <1>4, <1>5 DEF Next, Program

\* A buffer is lent only from inside sus_lend.
LEMMA LentFrom ==
  ASSUME Rt!HandoverSafe, Place
  PROVE  /\ iow[slot0].data # NULL => pc[wireformat] = "lent" /\ Inside(wireformat, "lend", slot0)
         /\ iow[slot1].data # NULL => pc[frontend] = "lent" /\ Inside(frontend, "lend", slot1)
         /\ \A id \in {slot0, slot1} :
              held[id].data # NULL => /\ iow[id].data = held[id].data
                                      /\ iow[id].size = held[id].size
<1>1. /\ iow[slot0].data # NULL => Inside(wireformat, "lend", slot0)
      /\ iow[slot1].data # NULL => Inside(frontend, "lend", slot1)
      /\ \A id \in {slot0, slot1} :
           held[id].data # NULL => iow[id].data = held[id].data /\ iow[id].size = held[id].size
  BY PointerAssumption DEF Rt!HandoverSafe, Rt!LenderWaits, Inside
<1>2. Inside(wireformat, "lend", slot0) => pc[wireformat] = "lent"
  BY DEF Place, WirePlace, Own, Inside, Gone
<1>3. Inside(frontend, "lend", slot1) => pc[frontend] = "lent"
  BY DEF Place, FrontPlace, Own, Inside, Gone
<1> QED BY <1>1, <1>2, <1>3

\* fsm_frontend_foreign lends on what it holds, and keeps it until it is back.
LEMMA LoanChainStep ==
  ASSUME Rt!TypeOK, Rt!HandoverSafe, Place, FrontData, LoanChain,
         [Next]_vars, process' # "assert"
  PROVE  LoanChain'
<1> USE PointerAssumption, OptionAssumption, TasksApart DEF Goto, Literal
<1>0. /\ iow \in [{slot0, slot1} -> [data : 0..BufSize \cup {NULL},
                                     size : (0 - BufSize)..BufSize \cup {0},
                                     borrowed : BOOLEAN, disabled : BOOLEAN]]
      /\ held \in [{slot0, slot1} -> [data : 0..BufSize \cup {NULL},
                                      size : (0 - BufSize)..BufSize \cup {0}]]
      /\ pc \in [Task -> Labels]
  BY Typed DEF Place
<1>1. CASE Frontend
  <2>1. CASE FrontLends
    <3>1. /\ iow'[slot1].data = fe.p /\ iow'[slot1].size = fe.pe - fe.p /\ held' = held
          /\ pc[frontend] = "process"
      BY <1>0, <2>1, LendEffect DEF FrontLends
    <3> QED BY <1>0, <3>1 DEF LoanChain, FrontData, InFrame
  <2>2. CASE FrontGoesOn
    BY <2>2, LendReturnsEffect DEF FrontGoesOn, LoanChain
  <2>3. CASE pc[frontend] = "lent" /\ FrontWaits
    BY <2>3, LendWaitsEffect DEF FrontWaits, LoanChain, Sends, InExec
  <2>4. CASE pc[frontend] # "lent" /\ ~FrontLends
    <3>1. iow[slot1].data = NULL
      BY <2>4, LentFrom
    <3>2. iow'[slot1].data = iow[slot1].data
      <4>1. CASE FrontTakes
        BY <1>0, <4>1, BorrowTakesEffect DEF FrontTakes
      <4>2. CASE FrontScans \/ FrontStuck
        BY <4>2 DEF FrontScans, FrontStuck, rtVars
      <4>3. CASE FrontSends \/ FrontRefused \/ FrontWaits
        BY <2>4, <4>3, IoDoneEffect, BorrowFailsEffect, BorrowWaitsEffect, IoWaitsEffect
           DEF FrontSends, FrontRefused, FrontWaits
      <4>4. CASE FrontReturns
        BY <1>0, <4>4, ReturnEffect DEF FrontReturns
      <4>5. CASE FrontDisables
        BY <1>0, <4>5, DisableEffect DEF FrontDisables
      <4> QED BY <1>1, <2>4, <4>1, <4>2, <4>3, <4>4, <4>5 DEF Frontend, FrontGoesOn
    <3> QED BY <3>1, <3>2 DEF LoanChain
  <2> QED BY <1>1, <2>1, <2>2, <2>3, <2>4 DEF Frontend, FrontTakes, FrontRefused, FrontScans,
             FrontStuck, FrontSends, FrontReturns, FrontDisables, Sends, InExec
<1>2. CASE Wireformat
  BY <1>2, WireTouches DEF LoanChain
<1>3. CASE Autoresponder
  BY <1>3, RespTouches DEF LoanChain
<1>4. CASE Side \/ Ioloop \/ World
  BY <1>4, RestTouches DEF LoanChain
<1>5. CASE UNCHANGED vars
  BY <1>5, StutterTouches DEF LoanChain
<1> QED BY <1>1, <1>2, <1>3, <1>4, <1>5 DEF Next, Program

\* Only fsm_wireformat's read fills the buffer, when nothing of it is lent.
LEMMA BufferStep ==
  ASSUME Rt!TypeOK, Rt!HandoverSafe, Place, LoanChain, [Next]_vars, process' # "assert",
         buf' # buf
  PROVE  /\ \A id \in {slot0, slot1} : iow[id].data = NULL /\ held[id].data = NULL
         /\ Wireformat
<1> USE PointerAssumption, TasksApart
<1>1. WireReads
  <2>1. Wireformat
    BY FrontTouches, RespTouches, RestTouches, StutterTouches DEF Next, Program
  <2> QED BY <2>1 DEF Wireformat, WireReads, WireEnds, WireDisables, WireScans, WireStuck,
             WireExhausts, WireLends, WireGoesOn, WireWaits, wfVars
<1>2. pc[wireformat] = "read"
  BY <1>1 DEF WireReads
<1>3. iow[slot0].data = NULL /\ held[slot0].data = NULL
  BY <1>2, LentFrom
<1>4. iow[slot1].data = NULL
  BY <1>3 DEF LoanChain
<1> QED BY <1>1, <1>3, <1>4, LentFrom DEF Wireformat

\* The buffer, the loan and the answer stay as they are during the write.
LEMMA ReplyFitsStep ==
  ASSUME Rt!TypeOK, Rt!HandoverSafe, Place, RespData, LoanChain, ReplyFits,
         [Next]_vars, process' # "assert"
  PROVE  ReplyFits'
<1> USE PointerAssumption, TasksApart DEF Goto
<1>0. /\ held \in [{slot0, slot1} -> [data : 0..BufSize \cup {NULL},
                                      size : (0 - BufSize)..BufSize \cup {0}]]
      /\ pc \in [Task -> Labels]
  BY Typed DEF Place
<1>1. SUFFICES ASSUME pc'[autoresponder] = "write"
               PROVE  /\ Lent'.data # NULL /\ Message' \in DOMAIN Answer
                      /\ rsp' = Answer[Message']
  BY DEF ReplyFits
<1>2. CASE RespAnswers
  <2>1. held' = held /\ buf' = buf /\ held[slot1].data # NULL
    BY <1>2 DEF RespAnswers, RespData, rtVars, wfVars
  <2>2. Lent' = Lent /\ Message' = Message
    BY <2>1 DEF Lent, Message, Payload
  <2> QED BY <1>2, <2>1, <2>2 DEF RespAnswers, Lent
<1>3. CASE ~RespAnswers
  <2>1. pc[autoresponder] = "write" /\ held'[slot1] = held[slot1] /\ rsp' = rsp
    <3>1. CASE Autoresponder
      <4>1. RespWaits \/ RespDies
        BY <1>0, <1>1, <1>3, <3>1 DEF Autoresponder, RespTakes, RespEnds, RespWrites, RespReturns
      <4>2. UNCHANGED <<pc, rsp>>
        BY <4>1 DEF RespWaits, RespDies
      <4>3. held' = held
        BY <4>1, BorrowWaitsEffect, IoWaitsEffect, QuitEffect DEF RespWaits, RespDies
      <4> QED BY <1>1, <4>2, <4>3
    <3>2. CASE ~Autoresponder
      BY <1>1, <3>2, WireTouches, FrontTouches, RestTouches, StutterTouches DEF Next, Program
    <3> QED BY <3>1, <3>2
  <2>2. held[slot1].data # NULL
    BY <2>1 DEF RespData
  <2>3. buf' = buf
    BY <2>2, BufferStep
  <2>4. Lent' = Lent /\ Message' = Message
    BY <2>1, <2>3 DEF Lent, Message, Payload
  <2> QED BY <2>1, <2>4 DEF ReplyFits
<1> QED BY <1>2, <1>3

-----------------------------------------------------------------------------
(* What the peer gets *)

\* No answer looks like an acknowledge.
LEMMA AnswersApart ==
  /\ "ACK" \notin Replies /\ "NAK" \notin Replies
BY DEF Replies, Answer

\* What is written next.
LEMMA SentStep ==
  ASSUME [Next]_vars
  PROVE  \/ UNCHANGED sent
         \/ FrontSends /\ sent' = Append(sent, AckNak)
         \/ RespWrites /\ sent' = Append(sent, rsp)
<1>1. CASE FrontSends \/ RespWrites
  BY <1>1 DEF FrontSends, RespWrites
<1>2. CASE ~FrontSends /\ ~RespWrites
  <2>1. CASE Wireformat
    BY <2>1 DEF Wireformat, WireReads, WireEnds, WireDisables, WireScans, WireStuck,
               WireExhausts, WireLends, WireGoesOn, WireWaits, world
  <2>2. CASE Frontend
    BY <1>2, <2>2 DEF Frontend, FrontTakes, FrontRefused, FrontScans, FrontStuck, FrontLends,
               FrontGoesOn, FrontReturns, FrontDisables, FrontWaits, world
  <2>3. CASE Autoresponder
    BY <1>2, <2>3 DEF Autoresponder, RespTakes, RespEnds, RespAnswers, RespDies,
               RespReturns, RespWaits, world
  <2>4. CASE Side \/ Ioloop \/ World
    BY <2>4 DEF Side, TimerEnds, SignalHandled, SideWaits, TaskEnds, WriteAgain, Ioloop,
               World, PeerSends, PeerHangsUp, SignalArrives, DeadlinePasses, world
  <2>5. CASE UNCHANGED vars
    BY <2>5, StutterTouches
  <2> QED BY <2>1, <2>2, <2>3, <2>4, <2>5 DEF Next, Program
<1> QED BY <1>1, <1>2

\* At a write to the peer, by the place of the writer.
LEMMA SendPlace ==
  ASSUME Rt!HandoverSafe, Place, RespData, ReplyFits, AckedData
  PROVE  /\ FrontSends => iow[slot1].data = NULL /\ AckNak \in {"ACK", "NAK"}
         /\ RespWrites => /\ rsp \in Replies /\ Acked
                          /\ iow[slot1].data # NULL
                          /\ pc[frontend] = "lent"
<1>1. FrontSends => iow[slot1].data = NULL
  BY LentFrom DEF FrontSends, Sends, InExec
<1>2. ASSUME RespWrites PROVE rsp \in Replies /\ Acked /\ iow[slot1].data # NULL
                              /\ pc[frontend] = "lent"
  <2>1. held[slot1].data # NULL /\ rsp \in Replies
    BY <1>2 DEF RespWrites, ReplyFits, Lent, Replies
  <2>2. iow[slot1].data # NULL
    BY <2>1, LentFrom
  <2> QED BY <1>2, <2>1, <2>2, LentFrom DEF RespWrites, AckedData
<1> QED BY <1>1, <1>2 DEF AckNak

\* A write to the peer comes after an acknowledge, or is none of an answer.
LEMMA AckBeforeReplyStep ==
  ASSUME Rt!HandoverSafe, Place, RespData, ReplyFits, AckedData, AckBeforeReply, [Next]_vars
  PROVE  AckBeforeReply' /\ sent' \in Seq({"ACK", "NAK"} \cup Replies)
<1>0. sent \in Seq({"ACK", "NAK"} \cup Replies)
  BY DEF AckedData
<1>1. CASE UNCHANGED sent
  BY <1>0, <1>1 DEF AckBeforeReply
<1>2. ASSUME NEW w \in {"ACK", "NAK"} \cup Replies, sent' = Append(sent, w),
             w \in Replies => Acked
      PROVE  AckBeforeReply' /\ sent' \in Seq({"ACK", "NAK"} \cup Replies)
  <2>1. /\ sent' \in Seq({"ACK", "NAK"} \cup Replies) /\ Len(sent') = Len(sent) + 1
        /\ \A i \in 1..Len(sent) : sent'[i] = sent[i]
        /\ sent'[Len(sent) + 1] = w
    BY <1>0, <1>2, AppendProperties
  <2>2. DOMAIN sent = 1..Len(sent) /\ DOMAIN sent' = 1..(Len(sent) + 1) /\ Len(sent) \in Nat
    BY <1>0, <2>1
  <2>3. ASSUME NEW i \in 1..(Len(sent) + 1), sent'[i] \in Replies
        PROVE  i > 1 /\ sent'[i - 1] = "ACK"
    <3>1. CASE i \in 1..Len(sent)
      <4>1. i > 1 /\ sent[i - 1] = "ACK"
        BY <2>1, <2>2, <2>3, <3>1 DEF AckBeforeReply
      <4> QED BY <2>1, <2>2, <3>1, <4>1
    <3>2. CASE i = Len(sent) + 1
      <4>1. sent # <<>> /\ sent[Len(sent)] = "ACK"
        BY <1>2, <2>1, <2>3, <3>2 DEF Acked
      <4>2. Len(sent) >= 1
        BY <1>0, <4>1, EmptySeq
      <4> QED BY <2>1, <2>2, <3>2, <4>1, <4>2
    <3> QED BY <2>2, <2>3, <3>1, <3>2
  <2> QED BY <2>1, <2>2, <2>3 DEF AckBeforeReply
<1>3. CASE FrontSends /\ sent' = Append(sent, AckNak)
  BY <1>2, <1>3, SendPlace, AnswersApart
<1>4. CASE RespWrites /\ sent' = Append(sent, rsp)
  BY <1>2, <1>4, SendPlace
<1> QED BY <1>1, <1>3, <1>4, SentStep

\* The acknowledge stays the last thing written until autoresponder answers.
LEMMA AckedDataStep ==
  ASSUME Rt!TypeOK, Rt!HandoverSafe, Place, RespData, ReplyFits, AckedData, AckBeforeReply,
         [Next]_vars, process' # "assert"
  PROVE  AckedData'
<1> USE PointerAssumption, TasksApart DEF Goto
<1>0. /\ iow \in [{slot0, slot1} -> [data : 0..BufSize \cup {NULL},
                                     size : (0 - BufSize)..BufSize \cup {0},
                                     borrowed : BOOLEAN, disabled : BOOLEAN]]
      /\ pc \in [Task -> Labels] /\ sent \in Seq({"ACK", "NAK"} \cup Replies)
  BY Typed DEF Place, AckedData
<1>1. sent' \in Seq({"ACK", "NAK"} \cup Replies)
  BY AckBeforeReplyStep
<1>2. CASE FrontSends
  <2>1. iow' = iow /\ iow[slot1].data = NULL
    BY <1>2, IoDoneEffect, SendPlace DEF FrontSends
  <2>2. pc'[frontend] = "process" => sent' = Append(sent, "ACK")
    BY <1>0, <1>2 DEF FrontSends, Sends, InExec
  <2>3. sent' = Append(sent, "ACK") => Acked'
    BY <1>0, AppendProperties DEF Acked
  <2> QED BY <1>1, <2>1, <2>2, <2>3 DEF AckedData
<1>3. CASE RespWrites
  <2>1. iow' = iow /\ held[slot1].data # NULL
    BY <1>3, IoDoneEffect DEF RespWrites, RespData
  <2>2. iow[slot1].borrowed
    BY <2>1 DEF Rt!HandoverSafe
  <2>3. pc'[frontend] = "lent" /\ pc'[autoresponder] = "giveback"
    BY <1>0, <1>3, SendPlace DEF RespWrites
  <2> QED BY <1>1, <2>1, <2>2, <2>3 DEF AckedData
<1>4. CASE ~FrontSends /\ ~RespWrites
  <2>1. sent' = sent /\ Acked' = Acked
    BY <1>4, SentStep DEF Acked
  <2>2. CASE Frontend
    <3>1. CASE FrontLends
      BY <1>0, <1>1, <2>1, <3>1 DEF FrontLends, AckedData
    <3>2. CASE ~FrontLends
      <4>1. /\ iow'[slot1].data = iow[slot1].data
            /\ iow'[slot1].borrowed = iow[slot1].borrowed
        <5>1. CASE FrontTakes
          BY <1>0, <5>1, BorrowTakesEffect DEF FrontTakes
        <5>2. CASE FrontScans \/ FrontStuck
          BY <5>2 DEF FrontScans, FrontStuck, rtVars
        <5>3. CASE FrontRefused \/ FrontWaits \/ FrontGoesOn
          BY <5>3, BorrowFailsEffect, BorrowWaitsEffect, LendWaitsEffect, IoWaitsEffect,
             LendReturnsEffect DEF FrontRefused, FrontWaits, FrontGoesOn
        <5>4. CASE FrontReturns
          BY <1>0, <5>4, ReturnEffect DEF FrontReturns
        <5>5. CASE FrontDisables
          BY <1>0, <5>5, DisableEffect DEF FrontDisables
        <5> QED BY <1>4, <2>2, <3>2, <5>1, <5>2, <5>3, <5>4, <5>5 DEF Frontend
      <4>2. pc'[frontend] = "process" => pc[frontend] = "process"
        BY <1>0, <1>4, <2>2, <3>2 DEF Frontend, FrontTakes, FrontRefused, FrontScans, FrontStuck,
           FrontGoesOn, FrontReturns, FrontDisables, FrontWaits
      <4>3. pc'[autoresponder] = pc[autoresponder]
        BY <2>2, FrontTouches
      <4> QED BY <1>1, <2>1, <4>1, <4>2, <4>3 DEF AckedData
    <3> QED BY <3>1, <3>2
  <2>3. CASE Autoresponder
    <3>1. pc'[frontend] = pc[frontend]
      BY <2>3, RespTouches
    <3>2. CASE RespTakes
      <4>1. iow[slot1].data # NULL /\ held[slot1].data = NULL
        BY <3>2, BorrowTakesEffect DEF RespTakes, RespData
      <4>2. ~iow[slot1].borrowed
        BY <4>1 DEF Rt!HandoverSafe
      <4> QED BY <1>1, <2>1, <3>1, <4>1, <4>2 DEF AckedData
    <3>3. CASE RespReturns
      <4>1. iow'[slot1].data = NULL
        BY <1>0, <3>3, ReturnEffect DEF RespReturns
      <4> QED BY <1>1, <2>1, <3>1, <4>1 DEF AckedData
    <3>4. CASE RespEnds \/ RespAnswers \/ RespDies \/ RespWaits
      <4>1. iow' = iow
        BY <3>4, BorrowFailsEffect, QuitEffect, BorrowWaitsEffect, IoWaitsEffect
           DEF RespEnds, RespAnswers, RespDies, RespWaits, rtVars
      <4>2. pc'[autoresponder] \in {"answer", "write"} => pc[autoresponder] \in {"answer", "write"}
        BY <1>0, <3>4 DEF RespEnds, RespAnswers, RespDies, RespWaits
      <4> QED BY <1>1, <2>1, <3>1, <4>1, <4>2 DEF AckedData
    <3> QED BY <1>4, <2>3, <3>2, <3>3, <3>4 DEF Autoresponder
  <2>4. CASE Wireformat
    BY <1>1, <2>1, <2>4, WireTouches DEF AckedData
  <2>5. CASE Side \/ Ioloop \/ World
    BY <1>1, <2>1, <2>5, RestTouches DEF AckedData
  <2>6. CASE UNCHANGED vars
    BY <1>1, <2>1, <2>6, StutterTouches DEF AckedData
  <2> QED BY <2>2, <2>3, <2>4, <2>5, <2>6 DEF Next, Program
<1> QED BY <1>2, <1>3, <1>4

-----------------------------------------------------------------------------
(* Descriptors, and what is on its way through them *)

\* sus_ioloop alone surrenders, reports events, and moves itself.
Quiet ==
  surrended' = surrended /\ active' \subseteq active /\ wait'[ioloop] = wait[ioloop]

\* No call of a task moves sus_ioloop.
LEMMA QuietCalls ==
  ASSUME Rt!TypeOK, process' # "assert", NEW t \in Task \ {ioloop}
  PROVE  /\ \A id, size, data : Rt!Lend(t, id, size, data) => Quiet
         /\ \A id, size, data : Rt!Return(t, id, data, size) => Quiet
         /\ \A id : Rt!LendWaits(t, id) => Quiet
         /\ \A id : Rt!LendReturns(t, id) => Quiet
         /\ \A id : Rt!Disable(t, id) => Quiet
         /\ \A id : Rt!BorrowTakes(t, id) => Quiet
         /\ \A id : Rt!BorrowWaits(t, id) => Quiet
         /\ \A id : Rt!BorrowFails(t, id) => Quiet
         /\ \A e : Rt!IoWaits(t, e) => Quiet
         /\ \A e : Rt!IoAgain(t, e) => Quiet
         /\ \A e : Rt!IoDone(t, e) => Quiet
         /\ Rt!Finish(t) => Quiet
         /\ \A how : Rt!Quit(t, how) => Quiet
<1>1. ASSUME UNCHANGED <<active, surrended>>,
             Returns(t) \/ (\E op, on : Suspends(t, op, on)) \/ wait' = wait
      PROVE  Quiet
  BY <1>1, Typed, TasksApart DEF Returns, Suspends, Quiet
<1>2. ASSUME NEW e, Rt!IoDone(t, e) PROVE Quiet
  BY <1>2, IoDoneEffect, Typed, TasksApart DEF Returns, Quiet
<1>3. ASSUME NEW id, NEW size, NEW data, Rt!Lend(t, id, size, data) PROVE Quiet
  BY <1>3, <1>1, LendEffect DEF Io
<1>4. ASSUME NEW id, NEW size, NEW data, Rt!Return(t, id, data, size) PROVE Quiet
  BY <1>4, <1>1, ReturnEffect DEF Io
<1>5. ASSUME NEW id, Rt!LendWaits(t, id) \/ Rt!LendReturns(t, id) \/ Rt!Disable(t, id)
      PROVE Quiet
  BY <1>5, <1>1, LendWaitsEffect, LendReturnsEffect, DisableEffect DEF Io
<1>6. ASSUME NEW id, Rt!BorrowTakes(t, id) \/ Rt!BorrowWaits(t, id) \/ Rt!BorrowFails(t, id)
      PROVE Quiet
  BY <1>6, <1>1, BorrowTakesEffect, BorrowWaitsEffect, BorrowFailsEffect DEF Io
<1>7. ASSUME NEW e, Rt!IoWaits(t, e) \/ Rt!IoAgain(t, e) PROVE Quiet
  BY <1>7, <1>1, IoWaitsEffect, IoAgainEffect DEF Io
<1>8. Rt!Finish(t) => Quiet
  BY <1>1, FinishEffect DEF Io
<1>9. ASSUME NEW how, Rt!Quit(t, how) PROVE Quiet
  BY <1>9, <1>1, QuitEffect DEF Io
<1> QED BY <1>2, <1>3, <1>4, <1>5, <1>6, <1>7, <1>8, <1>9

\* No task but sus_ioloop does.
LEMMA LoopApart ==
  ASSUME Rt!TypeOK, [Next]_vars, process' # "assert", ~Ioloop
  PROVE  Quiet
<1> USE TasksApart, QuietCalls
<1>0. rtVars' = rtVars => Quiet
  BY DEF rtVars, Quiet
<1>1. CASE Wireformat
  BY <1>0, <1>1
     DEF Wireformat, WireReads, WireEnds, WireDisables, WireScans, WireStuck, WireExhausts,
         WireLends, WireGoesOn, WireWaits
<1>2. CASE Frontend
  BY <1>0, <1>2
     DEF Frontend, FrontTakes, FrontRefused, FrontScans, FrontStuck, FrontSends, FrontLends,
         FrontGoesOn, FrontReturns, FrontDisables, FrontWaits
<1>3. CASE Autoresponder
  BY <1>0, <1>3
     DEF Autoresponder, RespTakes, RespEnds, RespAnswers, RespDies, RespWrites, RespReturns,
         RespWaits
<1>4. CASE Side
  <2>1. CASE TaskEnds
    <3>1. PICK t \in Task : Rt!Finish(t)
      BY <2>1 DEF TaskEnds
    <3> QED BY <3>1, FinishEffect
  <2> QED BY <1>4, <2>1 DEF Side, TimerEnds, SignalHandled, SideWaits, WriteAgain
<1>5. CASE World \/ UNCHANGED vars
  BY <1>0, <1>5, StutterTouches
     DEF World, PeerSends, PeerHangsUp, SignalArrives, DeadlinePasses
<1> QED BY <1>1, <1>2, <1>3, <1>4, <1>5 DEF Next, Program

\* Descriptor 7 closes at the end of fsm_wireformat, the rest at the surrender.
LEMMA FilesStep ==
  ASSUME Rt!TypeOK, Place, Files, [Next]_vars, process' # "assert"
  PROVE  Files'
<1> USE OptionAssumption, TasksApart DEF Goto
<1>0. pc \in [Task -> Labels]
  BY DEF Place
<1>1. inbox' \in Seq(Bytes)
  <2>1. CASE WireReads
    BY <2>1, WireReadsData DEF WireReads, Files
  <2>2. CASE PeerSends
    <3>1. PICK bytes \in Traffic : inbox' = inbox \o bytes
      BY <2>2 DEF PeerSends
    <3> QED BY <3>1, TrafficAssumption, ConcatProperties DEF Files
  <2>3. CASE ~WireReads /\ ~PeerSends
    <3>1. inbox' = inbox
      <4>1. CASE Wireformat
        BY <2>3, <4>1 DEF Wireformat, WireEnds, WireDisables, WireScans, WireStuck,
               WireExhausts, WireLends, WireGoesOn, WireWaits, world
      <4>2. CASE Frontend \/ Autoresponder
        BY <4>2, FrontTouches, RespTouches
      <4>3. CASE Side \/ Ioloop \/ World
        BY <2>3, <4>3 DEF Side, TimerEnds, SignalHandled, SideWaits, TaskEnds, WriteAgain, Ioloop,
               World, PeerHangsUp, SignalArrives, DeadlinePasses, world
      <4> QED BY <4>1, <4>2, <4>3, StutterTouches DEF Next, Program
    <3> QED BY <3>1 DEF Files
  <2> QED BY <2>1, <2>2, <2>3
<1>2. owed' \in {"none", "ACK", "NAK"}
  <2>1. CASE Wireformat
    BY <2>1 DEF Wireformat, WireReads, WireEnds, WireDisables, WireScans, WireStuck,
               WireExhausts, WireLends, WireGoesOn, WireWaits, Files
  <2>2. CASE Frontend
    BY <2>2 DEF Frontend, FrontTakes, FrontRefused, FrontScans, FrontStuck, FrontSends, FrontLends,
               FrontGoesOn, FrontReturns, FrontDisables, FrontWaits, Files
  <2> QED BY <2>1, <2>2, RespTouches, RestTouches, StutterTouches DEF Next, Program, Files
\* what a step does to the descriptors, and where it leaves fsm_wireformat
<1>3. /\ open' = IF surrended' THEN {} ELSE IF "fd7" \in open' THEN Fds ELSE Fds \ {"fd7"}
      /\ surrended' => wait'[ioloop].op = "exit"
      /\ ~surrended' /\ "fd7" \notin open' => pc'[wireformat] \in {"disable", "end"}
  <2>1. CASE Ioloop
    <3>1. ~surrended /\ pc' = pc /\ open' = IF surrended' THEN {} ELSE open
      BY <2>1, IoloopEffect DEF Ioloop, Files
    <3>2. surrended' => wait'[ioloop].op = "exit"
      <4>1. surrended' => Suspends(ioloop, "exit", NULL)
        BY <2>1, <3>1, IoloopEffect, Zenon
      <4> QED BY <4>1, Typed DEF Suspends
    <3> QED BY <3>1, <3>2 DEF Files
  <2>2. CASE ~Ioloop
    <3>1. surrended' = surrended /\ wait'[ioloop] = wait[ioloop]
      BY <2>2, LoopApart DEF Quiet
    <3>2. CASE WireEnds
      BY <1>0, <3>1, <3>2 DEF WireEnds, Files
    <3>3. CASE ~WireEnds
      <4>1. open' = open
        <5>1. CASE Wireformat
          BY <3>3, <5>1 DEF Wireformat, WireReads, WireDisables, WireScans, WireStuck,
               WireExhausts, WireLends, WireGoesOn, WireWaits, world
        <5>2. CASE Frontend \/ Autoresponder
          BY <5>2, FrontTouches, RespTouches
        <5>3. CASE Side \/ World
          BY <5>3 DEF Side, TimerEnds, SignalHandled, SideWaits, TaskEnds, WriteAgain,
               World, PeerSends, PeerHangsUp, SignalArrives, DeadlinePasses, world
        <5> QED BY <2>2, <5>1, <5>2, <5>3, StutterTouches DEF Next, Program
      <4>2. pc[wireformat] \in {"disable", "end"} => pc'[wireformat] \in {"disable", "end"}
        <5>1. CASE Wireformat
          BY <1>0, <5>1 DEF Wireformat, WireReads, WireEnds, WireDisables, WireScans, WireStuck,
               WireExhausts, WireLends, WireGoesOn, WireWaits
        <5> QED BY <5>1, FrontTouches, RespTouches, RestTouches, StutterTouches DEF Next, Program
      <4> QED BY <3>1, <4>1, <4>2 DEF Files
    <3> QED BY <3>2, <3>3
  <2> QED BY <2>1, <2>2
\* the signals, read only when sus_ioloop saw one
<1>4. /\ signals' \in Nat /\ budget' \in [sends : Nat, signals : Nat, again : Nat]
      /\ signals' + budget'.signals <= MaxSignals
      /\ ~surrended' /\ Signal \in active' => signals' > 0
  <2>1. CASE SignalHandled
    <3>1. /\ IF "sigfd" \in open THEN signals' = signals - 1 ELSE signals' = signals
          /\ budget' = budget /\ surrended' = surrended
          /\ surrended \/ (Signal \in active /\ Signal \notin active')
      BY <2>1, IoDoneEffect DEF SignalHandled, Signal
    <3>2. surrended => "sigfd" \notin open
      BY DEF Files
    <3> QED BY <3>1, <3>2 DEF Files
  <2>2. CASE SignalArrives
    <3>1. active' = active /\ surrended' = surrended
      BY <2>2 DEF SignalArrives, rtVars
    <3>2. /\ budget.signals > 0 /\ signals' = signals + 1
          /\ budget' = [budget EXCEPT !.signals = @ - 1]
      BY <2>2 DEF SignalArrives
    <3>3. /\ budget \in [sends : Nat, signals : Nat, again : Nat] /\ signals \in Nat
          /\ signals + budget.signals <= MaxSignals
      BY DEF Files
    <3>4. budget.signals - 1 \in Nat
      BY <3>2, <3>3
    <3>5. /\ budget' \in [sends : Nat, signals : Nat, again : Nat]
          /\ budget'.signals = budget.signals - 1
      BY <3>2, <3>3, <3>4
    <3> QED BY <3>1, <3>2, <3>3, <3>4, <3>5
  <2>3. CASE ~SignalHandled /\ ~SignalArrives
    <3>1. /\ signals' = signals /\ budget'.signals = budget.signals
          /\ budget' \in [sends : Nat, signals : Nat, again : Nat]
      <4>1. CASE Wireformat \/ Frontend \/ Autoresponder
        BY <4>1, WireTouches, FrontTouches, RespTouches DEF Files
      <4>2. CASE Side
        BY <2>3, <4>2 DEF Side, TimerEnds, SideWaits, TaskEnds, WriteAgain, world, Files
      <4>3. CASE PeerSends
        <5>1. /\ budget \in [sends : Nat, signals : Nat, again : Nat]
              /\ budget.sends > 0 /\ budget' = [budget EXCEPT !.sends = @ - 1]
          BY <4>3 DEF PeerSends, Files
        <5>2. budget.sends - 1 \in Nat
          BY <5>1
        <5> QED BY <4>3, <5>1, <5>2 DEF PeerSends
      <4>4. CASE Ioloop \/ PeerHangsUp \/ DeadlinePasses
        BY <4>4 DEF Ioloop, PeerHangsUp, DeadlinePasses, Files
      <4> QED BY <2>3, <4>1, <4>2, <4>3, <4>4, StutterTouches DEF Next, Program, World, Files
    <3>2. ~surrended' => ~surrended /\ (Signal \in active' => Signal \in active \/ signals > 0)
      <4>1. CASE Ioloop
        <5>1. Signal \in AllReady => signals > 0
          BY DEF AllReady, Ready, Signal, Input
        <5> QED BY <4>1, <5>1, IoloopEffect DEF Files
      <4> QED BY <4>1, LoopApart DEF Quiet
    <3> QED BY <3>1, <3>2 DEF Files
  <2> QED BY <2>1, <2>2, <2>3
<1> QED BY <1>1, <1>2, <1>3, <1>4 DEF Files

(***************************************************************************)
(* No task waits for an event of a closed descriptor.  Descriptor 7 is the *)
(* one that is closed before the surrender: by then fsm_wireformat reads   *)
(* it no more, and autoresponder, which may write to it, can only do so    *)
(* while fsm_wireformat is inside sus_lend (LoanChain).                    *)
(***************************************************************************)
LEMMA WaitersOpen ==
  ASSUME Rt!TypeOK, Rt!HandoverSafe, Place, RespData, LoanChain, Files, ~surrended,
         NEW t \in Task \ {ioloop}, wait[t].op = "io"
  PROVE  wait[t].on[2] \in open
<1> USE TasksApart DEF Place, Own, Inside, Gone
<1>1. Fds \ {"fd7"} \subseteq open
  BY DEF Files
<1>2. pc[wireformat] \notin {"disable", "end"} => open = Fds
  BY DEF Files
<1>3. CASE t = wireformat
  <2>1. pc[t] = "read" /\ wait[t].on = Input
    BY <1>3 DEF WirePlace
  <2> QED BY <1>2, <1>3, <2>1, Descriptors
<1>4. CASE t = frontend
  <2>1. wait[t].on = AckOut
    BY <1>4 DEF FrontPlace
  <2> QED BY <1>1, <2>1 DEF AckOut, Fds
<1>5. CASE t = autoresponder
  <2>1. pc[t] = "write" /\ wait[t].on = Output
    BY <1>5 DEF RespPlace
  <2>2. iow[slot1].data # NULL
    BY <1>5, <2>1, LentFrom DEF RespData
  <2>3. iow[slot0].data # NULL
    BY <2>2, LentFrom DEF LoanChain
  <2>4. pc[wireformat] = "lent"
    BY <2>3, LentFrom
  <2> QED BY <1>2, <2>1, <2>4, Descriptors
<1>6. CASE t = timer
  <2>1. wait[t].on = Tick
    BY <1>6 DEF SidePlace
  <2> QED BY <1>1, <2>1 DEF Tick, Fds
<1>7. CASE t = sighandler
  <2>1. wait[t].on = Signal
    BY <1>7 DEF SidePlace
  <2> QED BY <1>1, <2>1 DEF Signal, Fds
<1>8. t \notin {"s6_notify", "controller"}
  BY DEF SidePlace
<1> QED BY <1>3, <1>4, <1>5, <1>6, <1>7, <1>8, TaskIs

\* So what select(2) is given is open.
LEMMA NeverBad ==
  ASSUME Rt!TypeOK, Rt!HandoverSafe, Rt!WatchedHaveWaiters, Place, RespData, LoanChain, Files
  PROVE  SelectOnlyOpen
<1> SUFFICES ASSUME Rt!Selecting, NEW e \in scheduled, e[2] \notin open
             PROVE  FALSE
  BY DEF SelectOnlyOpen, BadDescriptor
<1>1. ~surrended
  BY DEF Files, Rt!Selecting, Rt!Resumed
<1>2. PICK t \in Task \ {ioloop} : wait[t].op = "io" /\ wait[t].on = e
  BY <1>1 DEF Rt!WatchedHaveWaiters
<1> QED BY <1>1, <1>2, WaitersOpen

-----------------------------------------------------------------------------
(* The inductive invariant *)

Inv ==
  /\ Sound
  /\ Place
  /\ WireData /\ FrontData /\ RespData
  /\ LoanChain /\ ReplyFits
  /\ AckedData /\ AckBeforeReply
  /\ Files

\* main.c's array, inserted one by one, is one of the orders of Sus.
LEMMA InitRuntime == Init => Rt!SusInit
<1> SUFFICES ASSUME Init PROVE Rt!SusInit
  OBVIOUS
<1> DEFINE rest == SubSeq(tasks, 1, Len(tasks) - 1)
           first == <<ioloop>>
<1>1. /\ tasks \in [1..8 -> Task] /\ tasks \in Seq(Task) /\ Len(tasks) = 8
      /\ \A i, j \in 1..8 : tasks[i] = tasks[j] => i = j
  BY TasksCounted
<1>2. tasks[8] = ioloop
  BY DEF tasks
<1>3. /\ rest \in Seq(Task) /\ Len(rest) = 7
      /\ \A i \in 1..7 : rest[i] = tasks[i]
  <2> HIDE DEF tasks
  <2>1. \A i \in 1..7 : tasks[i] \in Task
    BY <1>1
  <2> QED BY <1>1, <2>1, SubSeqProperties
<1>4. first \in Seq(Task) /\ Len(first) = 1 /\ first[1] = ioloop
  BY TasksApart
<1> HIDE DEF rest, first
<1>5. /\ queue = first \o rest
      /\ queue \in Seq(Task) /\ Len(queue) = 8
      /\ queue[1] = tasks[8] /\ \A i \in 2..8 : queue[i] = tasks[i - 1]
  <2>1. queue = first \o rest
    BY DEF Init, rest, first
  <2>2. /\ queue \in Seq(Task) /\ Len(queue) = 8
        /\ \A i \in 1..8 : queue[i] = IF i <= 1 THEN first[i] ELSE rest[i - 1]
    <3>1. /\ first \o rest \in Seq(Task) /\ Len(first \o rest) = Len(first) + Len(rest)
          /\ \A i \in 1..Len(first) + Len(rest) :
               (first \o rest)[i] = IF i <= Len(first) THEN first[i] ELSE rest[i - Len(first)]
      BY <1>3, <1>4, ConcatProperties, Zenon
    <3> HIDE DEF first, rest
    <3> DEFINE q == first \o rest
    <3>2. q \in Seq(Task) /\ Len(q) = 1 + 7
          /\ \A i \in 1..1 + 7 : q[i] = IF i <= 1 THEN first[i] ELSE rest[i - 1]
      BY <1>3, <1>4, <3>1, Zenon
    <3> HIDE DEF q
    <3>3. 1 + 7 = 8
      OBVIOUS
    <3> QED BY <2>1, <3>2, <3>3 DEF q
  <2>3. queue[1] = tasks[8]
    BY <1>2, <1>4, <2>2
  <2>4. ASSUME NEW i \in 2..8 PROVE queue[i] = tasks[i - 1]
    <3>1. i \in 1..8 /\ ~(i <= 1) /\ i - 1 \in 1..7
      OBVIOUS
    <3> QED BY <1>3, <2>2, <3>1
  <2> QED BY <2>1, <2>2, <2>3, <2>4
<1>6. queue \in [1..8 -> Task] /\ DOMAIN queue = 1..8
  BY <1>5, LenProperties
<1>7. \A i, j \in 1..8 : queue[i] = queue[j] => i = j
  <2> HIDE DEF tasks
  <2> DEFINE back(i) == IF i = 1 THEN 8 ELSE i - 1
  <2>1. ASSUME NEW i \in 1..8 PROVE queue[i] = tasks[back(i)] /\ back(i) \in 1..8
    <3>1. CASE i = 1
      BY <1>5, <3>1
    <3>2. CASE i # 1
      <4>1. i \in 2..8 /\ back(i) = i - 1 /\ i - 1 \in 1..8
        BY <3>2
      <4> QED BY <1>5, <4>1
    <3> QED BY <3>1, <3>2
  <2>2. \A i, j \in 1..8 : back(i) = back(j) => i = j
    OBVIOUS
  <2> QED BY <1>1, <2>1, <2>2
<1>8. Rt!Cardinality(Task) = 8
  BY TasksCounted DEF Cardinality, Rt!Cardinality
<1>9. queue \in Rt!Orders
  BY <1>6, <1>7, <1>8 DEF Rt!Orders
<1> QED BY <1>9 DEF Init, Rt!SusInit

\* The invariant holds at the start,
LEMMA InvInit == Init => Inv
<1> SUFFICES ASSUME Init PROVE Inv
  OBVIOUS
<1> USE OptionAssumption, PointerAssumption, TasksApart
<1>1. Rt!SusInit
  BY InitRuntime
<1>2. Sound
  <2>1. Rt!TypeOK
    <3>1. Rt!Cardinality(Task) \in Nat
      BY TasksCounted DEF Cardinality, Rt!Cardinality
    <3>2. queue \in Seq(Task)
      <4>1. queue \in [1..Rt!Cardinality(Task) -> Task]
        BY <1>1 DEF Rt!SusInit, Rt!Orders
      <4> QED BY <3>1, <4>1, SeqDef
    <3> QED BY <1>1, <3>2 DEF Rt!SusInit, Rt!TypeOK, Rt!Run, Rt!At, Rt!Ops, Rt!Cleared, Rt!Empty
  <2>2. Rt!HandoverSafe /\ Rt!ContractHolds /\ Rt!WatchedHaveWaiters
    BY <1>1 DEF Rt!SusInit, Rt!HandoverSafe, Rt!ContractHolds, Rt!WatchedHaveWaiters,
                Rt!Cleared, Rt!Empty
  <2> QED BY <2>1, <2>2 DEF Sound
<1>3. /\ wait = [t \in Task |-> [op |-> "run", on |-> NULL]]
      /\ iow[slot0].data = NULL /\ iow[slot1].data = NULL
      /\ held[slot0].data = NULL /\ held[slot1].data = NULL
  BY DEF Init, Rt!Run, Rt!At, Rt!Cleared, Rt!Empty
<1>4. /\ pc \in [Task -> Labels]
      /\ pc[wireformat] = "read" /\ pc[timer] = "read" /\ pc[sighandler] = "read"
      /\ pc[frontend] = "borrow" /\ pc[autoresponder] = "borrow"
      /\ pc["s6_notify"] = "end" /\ pc["controller"] = "end" /\ pc[ioloop] = "loop"
  BY DEF Init, Labels
<1>5. Place
  BY <1>3, <1>4 DEF Place, WirePlace, FrontPlace, RespPlace, SidePlace, Own, Inside, Gone
<1>6. WireData
  BY <1>3, <1>4 DEF Init, WireData, Literal
<1>7. FrontData
  BY <1>3, <1>4 DEF Init, FrontData, InFrame
<1>8. RespData /\ LoanChain /\ ReplyFits
  BY <1>3, <1>4 DEF Init, RespData, LoanChain, ReplyFits
<1>9. AckedData /\ AckBeforeReply
  BY <1>3, <1>4 DEF Init, AckedData, AckBeforeReply
<1>10. Files
  BY <1>4 DEF Init, Files, Fds
<1> QED BY <1>2, <1>5, <1>6, <1>7, <1>8, <1>9, <1>10 DEF Inv

\* every step of the program is one of the runtime,
LEMMA StepRuntime == Inv /\ [Next]_vars => [Rt!SusNext]_(Rt!vars)
<1> SUFFICES ASSUME Inv, [Next]_vars PROVE [Rt!SusNext]_(Rt!vars)
  OBVIOUS
<1>1. CASE Program
  BY <1>1, ProgramCalls DEF Inv, Sound
<1>2. CASE World \/ UNCHANGED vars
  <2>1. rtVars' = rtVars
    BY <1>2, StutterTouches
       DEF World, PeerSends, PeerHangsUp, SignalArrives, DeadlinePasses
  <2> QED BY <2>1 DEF rtVars, Rt!vars, Rt!sched, Rt!slots, Rt!io
<1> QED BY <1>1, <1>2 DEF Next

\* and keeps the invariant.
LEMMA InvStep == Inv /\ [Next]_vars => Inv'
<1> SUFFICES ASSUME Inv, [Next]_vars PROVE Inv'
  OBVIOUS
<1>1. Sound'
  BY StepRuntime, StaysSound DEF Inv
<1>2. process' # "assert"
  BY <1>1 DEF Sound, Rt!ContractHolds
<1>3. Rt!TypeOK /\ Rt!HandoverSafe /\ Rt!HandoverSafe'
  BY <1>1 DEF Inv, Sound
<1>4. Place /\ WireData /\ FrontData /\ RespData /\ LoanChain /\ ReplyFits /\ AckedData
      /\ AckBeforeReply /\ Files
  BY DEF Inv
<1>5. Place'
  <2>1. CASE World \/ UNCHANGED vars
    <3>1. UNCHANGED <<pc, wait>>
      BY <2>1, StutterTouches
         DEF World, PeerSends, PeerHangsUp, SignalArrives, DeadlinePasses, rtVars
    <3> QED BY <1>4, <3>1 DEF Place, WirePlace, FrontPlace, RespPlace, SidePlace, Own, Inside, Gone
  <2> QED BY <1>2, <1>3, <1>4, <2>1, WirePlaceStep, FrontPlaceStep, RespPlaceStep, SidePlaceStep
          DEF Next, Program
<1>6. WireData' /\ FrontData' /\ RespData' /\ LoanChain' /\ ReplyFits'
  BY <1>2, <1>3, <1>4, WireDataStep, FrontDataStep, RespDataStep, LoanChainStep, ReplyFitsStep
<1>7. AckedData' /\ AckBeforeReply' /\ Files'
  BY <1>2, <1>3, <1>4, AckedDataStep, AckBeforeReplyStep, FilesStep
<1> QED BY <1>1, <1>5, <1>6, <1>7 DEF Inv

\* So the invariant always holds.
LEMMA Invariant == Spec => []Inv
BY InvInit, InvStep, PTL DEF Spec

-----------------------------------------------------------------------------
(* The theorems *)

(***************************************************************************)
(* The eight tasks use sus_lend, sus_borrow, sus_return, sus_read and      *)
(* sus_write only as the runtime asks them to: whatever the peer sends,    *)
(* the program is a behaviour of Sus, with main.c's wiring of the slots.   *)
(***************************************************************************)
THEOREM ProgramUsesRuntime == Spec => Runtime
<1>1. Init => Rt!SusInit
  BY InitRuntime
<1>2. Inv /\ [Next]_vars => [Rt!SusNext]_(Rt!vars)
  BY StepRuntime
<1> QED BY <1>1, <1>2, Invariant, PTL DEF Spec, Runtime, Rt!SusSpec

(***************************************************************************)
(* So no assert of sus_lend, sus_borrow or sus_return fails in frob, and   *)
(* what a task holds is lent by one that is inside sus_lend.               *)
(***************************************************************************)
THEOREM ProgramKeepsContract == Spec => [](Rt!HandoverSafe /\ Rt!ContractHolds)
<1>1. Inv => Rt!HandoverSafe /\ Rt!ContractHolds
  BY DEF Inv, Sound
<1> QED BY <1>1, Invariant, PTL

(***************************************************************************)
(* Types and ranges: fsm_wireformat's p stays within one past its buffer,  *)
(* fsm_frontend_foreign's p and pe within what it has borrowed, and a      *)
(* signal is read only when there is one.                                  *)
(***************************************************************************)
THEOREM TypesCorrect == Spec => []FrobdTypeOK
<1>1. Inv => FrobdTypeOK
  <2> SUFFICES ASSUME Inv PROVE FrobdTypeOK
    OBVIOUS
  <2>1. open \subseteq Fds /\ signals \in 0..MaxSignals
    BY OptionAssumption DEF Inv, Files
  <2> QED BY <2>1 DEF Inv, Sound, Place, WireData, FrontData, RespData, Files, FrobdTypeOK
<1> QED BY <1>1, Invariant, PTL

(***************************************************************************)
(* A loan of a loan ends first: what fsm_frontend_foreign lends on lies in *)
(* what it has borrowed, and it gives nothing back while that is out.      *)
(***************************************************************************)
THEOREM LoansChained == Spec => []LoanChain
<1>1. Inv => LoanChain
  BY DEF Inv
<1> QED BY <1>1, Invariant, PTL

(***************************************************************************)
(* fsm_wireformat's read never overwrites a frame that is being worked on: *)
(* every pointer into buf has been given back when buf changes.            *)
(***************************************************************************)
THEOREM BufferIsStable == Spec => BufferStable
<1>1. Inv /\ Inv' /\ [Next]_vars =>
  [buf' # buf => \A id \in {slot0, slot1} :
                     iow[id].data \in {NULL, Literal} /\ held[id].data \in {NULL, Literal}]_vars
  <2> SUFFICES ASSUME Inv, Inv', [Next]_vars, buf' # buf, NEW id \in {slot0, slot1}
               PROVE  iow[id].data \in {NULL, Literal} /\ held[id].data \in {NULL, Literal}
    OBVIOUS
  <2>1. process' # "assert"
    BY DEF Inv, Sound, Rt!ContractHolds
  <2> QED BY <2>1, BufferStep DEF Inv, Sound
<1> QED BY <1>1, Invariant, PTL DEF Spec, BufferStable

(***************************************************************************)
(* select(2) is never given a descriptor fsm_wireformat has closed, though *)
(* in a UCSPI client autoresponder writes to that one.                     *)
(***************************************************************************)
THEOREM SelectsOnlyOpen == Spec => []SelectOnlyOpen
<1>1. Inv => SelectOnlyOpen
  BY NeverBad DEF Inv, Sound
<1> QED BY <1>1, Invariant, PTL

(***************************************************************************)
(* The response autoresponder writes is the one to the message that is in  *)
(* the buffer, for as long as its write is suspended.                      *)
(***************************************************************************)
THEOREM RepliesFit == Spec => []ReplyFits
<1>1. Inv => ReplyFits
  BY DEF Inv
<1> QED BY <1>1, Invariant, PTL

(***************************************************************************)
(* No response without an acknowledge right before it: whatever the order  *)
(* of the peer's frames, and however often either write is suspended.      *)
(***************************************************************************)
THEOREM AcknowledgedFirst == Spec => []AckBeforeReply
<1>1. Inv => AckBeforeReply
  BY DEF Inv
<1> QED BY <1>1, Invariant, PTL

-----------------------------------------------------------------------------
(* Frames that arrive in one read *)

\* No frame is begun that is not ended, LRC included.
Whole(s) ==
  \A i \in 1..Len(s) : s[i] = "stx" => \E j \in (i + 1)..(Len(s) - 1) : s[j] = "etx"

(***************************************************************************)
(* The peer sends whole frames only, and a read takes all there is: it is  *)
(* not cut, and what may be on its way fits the buffer.                    *)
(***************************************************************************)
UncutFrames ==
  /\ ~Split
  /\ \A bytes \in Traffic : Whole(bytes)
  /\ \/ Patient /\ \A bytes \in Traffic : Len(bytes) <= BufSize
     \/ \E n \in 0..BufSize : /\ n * MaxSends <= BufSize
                              /\ \A bytes \in Traffic : Len(bytes) <= n

\* Whole frames after whole frames are whole frames.
LEMMA WholeConcat ==
  ASSUME NEW S, NEW s \in Seq(S), NEW t \in Seq(S), Whole(s), Whole(t)
  PROVE  Whole(s \o t)
<1>1. /\ Len(s \o t) = Len(s) + Len(t) /\ Len(s) \in Nat /\ Len(t) \in Nat
      /\ \A i \in 1..Len(s) + Len(t) :
           (s \o t)[i] = IF i <= Len(s) THEN s[i] ELSE t[i - Len(s)]
  BY ConcatProperties, LenProperties
<1> SUFFICES ASSUME NEW i \in 1..(Len(s) + Len(t)), (s \o t)[i] = "stx"
             PROVE  \E j \in (i + 1)..(Len(s) + Len(t) - 1) : (s \o t)[j] = "etx"
  BY <1>1 DEF Whole
<1> DEFINE q == s \o t
<1> HIDE DEF q
<1>2. CASE i <= Len(s)
  <2>1. i \in 1..Len(s) /\ s[i] = "stx"
    BY <1>1, <1>2
  <2>2. PICK j \in (i + 1)..(Len(s) - 1) : s[j] = "etx"
    BY <2>1 DEF Whole
  <2>3. j \in (i + 1)..(Len(s) + Len(t) - 1) /\ j \in 1..(Len(s) + Len(t)) /\ j <= Len(s)
    BY <1>1, <2>2
  <2>4. (s \o t)[j] = "etx"
    BY <1>1, <2>2, <2>3
  <2> QED BY <2>3, <2>4
<1>3. CASE ~(i <= Len(s))
  <2>1. i - Len(s) \in 1..Len(t) /\ t[i - Len(s)] = "stx"
    BY <1>1, <1>3
  <2>2. PICK k \in (i - Len(s) + 1)..(Len(t) - 1) : t[k] = "etx"
    BY <2>1 DEF Whole
  <2>3. /\ k + Len(s) \in (i + 1)..(Len(s) + Len(t) - 1) /\ k + Len(s) \in 1..(Len(s) + Len(t))
        /\ ~(k + Len(s) <= Len(s)) /\ k + Len(s) - Len(s) = k
    BY <1>1, <1>3, <2>2
  <2>4. (s \o t)[k + Len(s)] = "etx"
    BY <1>1, <2>2, <2>3
  <2> QED BY <2>3, <2>4
<1> QED BY <1>2, <1>3

\* A read of everything leaves nothing behind.
LEMMA ReadsAll ==
  ASSUME ~Split, NEW S, inbox \in Seq(S), Len(inbox) <= BufSize, NEW n \in ReadLengths
  PROVE  n = Len(inbox) /\ SubSeq(inbox, 1, n) = inbox /\ Len(SubSeq(inbox, n + 1, Len(inbox))) = 0
<1>1. n = Len(inbox) /\ Len(inbox) \in Nat
  BY OptionAssumption DEF ReadLengths
<1>2. /\ SubSeq(inbox, 1, n) \in Seq(S) /\ Len(SubSeq(inbox, 1, n)) = Len(inbox)
      /\ \A i \in 1..Len(inbox) : SubSeq(inbox, 1, n)[i] = inbox[i]
  <2>1. \A i \in 1..n : inbox[i] \in S
    BY <1>1
  <2>2. /\ SubSeq(inbox, 1, n) \in Seq(S)
        /\ Len(SubSeq(inbox, 1, n)) = IF 1 <= n THEN n - 1 + 1 ELSE 0
        /\ \A i \in 1..n - 1 + 1 : SubSeq(inbox, 1, n)[i] = inbox[1 + i - 1]
    BY <1>1, <2>1, SubSeqProperties
  <2> QED BY <1>1, <2>2
<1>3. SubSeq(inbox, 1, n) = inbox
  BY <1>2, SeqEqual
<1>4. SubSeq(inbox, n + 1, Len(inbox)) = <<>>
  BY <1>1, SubSeqEmpty
<1> QED BY <1>1, <1>3, <1>4

\* What is on its way: whole frames that one read takes.
Uncut ==
  /\ Whole(inbox) /\ Len(inbox) <= BufSize
  /\ Patient \/ \E n \in 0..BufSize : /\ Len(inbox) + n * budget.sends <= BufSize
                                      /\ \A bytes \in Traffic : Len(bytes) <= n

\* What is on its way stays whole and within the size of the buffer.
LEMMA UncutStep ==
  ASSUME UncutFrames, Rt!TypeOK, Place, Files, Uncut, [Next]_vars, process' # "assert"
  PROVE  Uncut'
<1> USE OptionAssumption DEF Goto
<1>0. /\ inbox \in Seq(Bytes) /\ Len(inbox) \in Nat
      /\ budget \in [sends : Nat, signals : Nat, again : Nat]
  BY LenProperties DEF Files
<1>1. CASE WireReads
  <2>1. PICK count \in ReadLengths : inbox' = SubSeq(inbox, count + 1, Len(inbox))
    BY <1>1 DEF WireReads
  <2>2. Len(inbox') = 0
    BY <1>0, <2>1, ReadsAll DEF Uncut, UncutFrames
  <2>3. Whole(inbox')
    BY <2>2 DEF Whole
  <2>4. budget' = budget
    BY <1>1 DEF WireReads
  <2>5. ASSUME NEW n \in 0..BufSize, Len(inbox) + n * budget.sends <= BufSize
        PROVE  Len(inbox') + n * budget'.sends <= BufSize
    <3>1. n * budget.sends \in Nat
      BY <1>0
    <3> HIDE DEF Uncut
    <3> QED BY <1>0, <2>2, <2>4, <2>5, <3>1
  <2> QED BY <2>2, <2>3, <2>5 DEF Uncut
<1>2. CASE PeerSends
  <2>1. PICK bytes \in Traffic : inbox' = inbox \o bytes
    BY <1>2 DEF PeerSends
  <2>2. /\ bytes \in Seq(Bytes) /\ Len(bytes) \in Nat /\ Len(inbox') = Len(inbox) + Len(bytes)
    BY <1>0, <2>1, TrafficAssumption, ConcatProperties, LenProperties
  <2>3. Whole(inbox')
    BY <1>0, <2>1, <2>2, WholeConcat DEF Uncut, UncutFrames
  <2>4. budget.sends > 0 /\ budget'.sends = budget.sends - 1
    BY <1>0, <1>2 DEF PeerSends
  <2>5. ASSUME NEW n \in 0..BufSize, Len(inbox) + n * budget.sends <= BufSize, Len(bytes) <= n
        PROVE  Len(inbox') + n * budget'.sends <= BufSize /\ Len(inbox') <= BufSize
    <3>1. /\ n * budget.sends \in Nat /\ n * (budget.sends - 1) \in Nat
          /\ n * (budget.sends - 1) = n * budget.sends - n
      BY <1>0, <2>4
    <3> DEFINE x == n * budget.sends
               y == n * budget'.sends
    <3>2. x \in Nat /\ y \in Nat /\ y = x - n /\ Len(inbox) + x <= BufSize
      BY <2>4, <2>5, <3>1
    <3> HIDE DEF x, y
    <3>3. Len(inbox') + y <= BufSize /\ Len(inbox') <= BufSize
      BY <1>0, <2>2, <2>5, <3>2
    <3> QED BY <3>3 DEF y
  <2>6. Patient => Len(inbox) = 0
    BY <1>2, EmptySeq DEF PeerSends
  <2>7. Patient => Len(inbox') <= BufSize
    BY <2>2, <2>6 DEF UncutFrames
  <2> QED BY <2>3, <2>5, <2>7 DEF Uncut
<1>3. CASE ~WireReads /\ ~PeerSends
  <2>1. inbox' = inbox /\ budget'.sends = budget.sends
    <3>1. CASE Wireformat
      BY <1>3, <3>1 DEF Wireformat, WireEnds, WireDisables, WireScans, WireStuck,
               WireExhausts, WireLends, WireGoesOn, WireWaits, world
    <3>2. CASE Frontend \/ Autoresponder
      BY <3>2, FrontTouches, RespTouches
    <3>3. CASE Side \/ Ioloop
      BY <1>0, <3>3 DEF Side, TimerEnds, SignalHandled, SideWaits, TaskEnds, WriteAgain, Ioloop, world
    <3>4. CASE World
      BY <1>0, <1>3, <3>4 DEF World, PeerHangsUp, SignalArrives, DeadlinePasses
    <3> QED BY <3>1, <3>2, <3>3, <3>4, StutterTouches DEF Next, Program
  <2> QED BY <2>1 DEF Uncut
<1> QED BY <1>1, <1>2, <1>3

(***************************************************************************)
(* fsm_wireformat's machine is between two frames at every read, so that   *)
(* start points into the buffer that is lent, before p.                    *)
(***************************************************************************)
Aligned ==
  /\ Whole(buf)
  /\ pc[wireformat] = "read" => wf.cs \in {"idle", "error"}
  /\ pc[wireformat] = "exec" =>
       /\ wf.cs \in {"first", "data"} => \E j \in wf.p..(Len(buf) - 1) : buf[j] = "etx"
       /\ wf.cs = "lrc" => wf.p <= Len(buf)
       /\ wf.cs \in {"data", "lrc"} => wf.start < wf.p

\* What a slot is lent with is then the size of a frame.
Positive == iow[slot0].data # NULL => iow[slot0].size >= 0

\* The machine comes back to "idle", or to "error", before the next read.
LEMMA AlignedStep ==
  ASSUME UncutFrames, Rt!TypeOK, Place, WireData, Files, Uncut, Aligned,
         [Next]_vars, process' # "assert"
  PROVE  Aligned'
<1> USE OptionAssumption, TasksApart DEF Goto
<1>0. /\ pc \in [Task -> Labels]
      /\ wf \in [cs : {"idle", "first", "data", "lrc", "error"},
                 p : 1..(BufSize + 1), start : 0..BufSize]
      /\ Len(buf) \in Nat
  BY LenProperties DEF Place, WireData
<1>1. CASE WireReads
  <2>1. PICK n \in ReadLengths : buf' = SubSeq(inbox, 1, n)
    BY <1>1 DEF WireReads
  <2>2. buf' = inbox
    BY <2>1, ReadsAll DEF Uncut, UncutFrames, Files
  <2>3. pc'[wireformat] = "exec" /\ wf'.cs = wf.cs /\ wf.cs \in {"idle", "error"}
    BY <1>0, <1>1 DEF WireReads, Aligned
  <2> QED BY <2>2, <2>3 DEF Aligned, Uncut
<1>2. CASE WireScans
  <2>1. buf' = buf /\ Whole(buf) /\ wf.p \in 1..Len(buf) /\ wf.cs \in {"idle", "first", "data"}
    BY <1>0, <1>2 DEF WireScans, Aligned
  <2>2. pc[wireformat] = "exec"
    BY <1>2 DEF WireScans
  <2>3. CASE WireNext(wf.cs, buf[wf.p]) = "error"
    BY <1>0, <1>2, <2>1, <2>3 DEF WireScans, Aligned
  <2>4. CASE WireNext(wf.cs, buf[wf.p]) # "error"
    <3>1. /\ pc' = pc /\ wf'.p = wf.p + 1 /\ wf'.cs = WireNext(wf.cs, buf[wf.p])
          /\ wf'.start = IF wf.cs = "first" /\ wf'.cs = "data" THEN wf.p ELSE wf.start
      BY <1>2, <2>4 DEF WireScans
    <3>2. CASE wf.cs = "idle"
      <4>1. wf'.cs = "idle" \/ (wf'.cs = "first" /\ buf[wf.p] = "stx")
        BY <3>1, <3>2 DEF WireNext
      <4>2. buf[wf.p] = "stx" => \E j \in wf'.p..(Len(buf) - 1) : buf[j] = "etx"
        BY <2>1, <3>1 DEF Whole
      <4> QED BY <2>1, <2>2, <3>1, <4>1, <4>2 DEF Aligned
    <3>3. CASE wf.cs \in {"first", "data"}
      <4>1. PICK j \in wf.p..(Len(buf) - 1) : buf[j] = "etx"
        BY <2>2, <3>3 DEF Aligned
      <4>2. \/ wf'.cs = "data" /\ buf[wf.p] # "etx"
            \/ wf.cs = "data" /\ wf'.cs = "lrc"
        BY <2>4, <3>1, <3>3 DEF WireNext
      <4>3. wf'.cs = "data" => j \in wf'.p..(Len(buf) - 1)
        BY <1>0, <3>1, <4>1, <4>2
      <4>4. wf'.cs = "lrc" => wf'.p <= Len(buf)
        BY <1>0, <3>1, <4>1
      <4>5. wf'.start < wf'.p
        <5>1. wf.cs = "data" => wf.start < wf.p
          BY <2>2 DEF Aligned
        <5> QED BY <1>0, <3>1, <3>3, <4>2, <5>1
      <4> QED BY <2>1, <2>2, <3>1, <4>1, <4>2, <4>3, <4>4, <4>5 DEF Aligned
    <3> QED BY <2>1, <3>2, <3>3
  <2> QED BY <2>3, <2>4
<1>3. CASE WireStuck
  BY <1>0, <1>3 DEF WireStuck, Aligned
<1>4. CASE WireExhausts
  <2>1. wf.cs \in {"idle"}
    BY <1>0, <1>4 DEF WireExhausts, Aligned
  <2> QED BY <1>0, <1>4, <2>1 DEF WireExhausts, Aligned, wfVars
<1>5. CASE WireEnds \/ WireDisables \/ WireLends
  <2>1. UNCHANGED <<buf, wf>> /\ pc'[wireformat] \in {"disable", "end", "lent"}
    BY <1>0, <1>5 DEF WireEnds, WireDisables, WireLends, wfVars
  <2> QED BY <2>1 DEF Aligned
<1>6. CASE WireGoesOn
  BY <1>0, <1>6 DEF WireGoesOn, Aligned
<1>7. CASE WireWaits
  BY <1>0, <1>7 DEF WireWaits, Aligned, wfVars
<1>8. CASE Frontend \/ Autoresponder
  BY <1>8, FrontTouches, RespTouches DEF Aligned
<1>9. CASE Side \/ Ioloop \/ World
  BY <1>9, RestTouches DEF Aligned
<1>10. CASE UNCHANGED vars
  BY <1>10, StutterTouches DEF Aligned
<1> QED BY <1>1, <1>2, <1>3, <1>4, <1>5, <1>6, <1>7, <1>8, <1>9, <1>10
        DEF Next, Program, Wireformat

\* The size lent is p - start of one frame, or that of the literal.
LEMMA PositiveStep ==
  ASSUME Rt!TypeOK, Place, WireData, Aligned, Positive, [Next]_vars, process' # "assert"
  PROVE  Positive'
<1> USE PointerAssumption, OptionAssumption, TasksApart DEF Goto
<1>0. iow \in [{slot0, slot1} -> [data : 0..BufSize \cup {NULL},
                                  size : (0 - BufSize)..BufSize \cup {0},
                                  borrowed : BOOLEAN, disabled : BOOLEAN]]
  BY Typed
<1>1. CASE WireLends
  <2>1. /\ iow'[slot0].size \in {wf.p - wf.start, 1}
        /\ wf.start < wf.p
    BY <1>0, <1>1, LendEffect DEF WireLends, Aligned
  <2>2. wf.p \in Int /\ wf.start \in Int
    BY DEF WireData
  <2> QED BY <2>1, <2>2 DEF Positive
<1>2. CASE WireDisables
  BY <1>0, <1>2, DisableEffect DEF WireDisables, Positive
<1>3. CASE Wireformat /\ ~WireLends /\ ~WireDisables
  BY <1>3, IoDoneEffect, LendReturnsEffect, LendWaitsEffect, IoWaitsEffect
     DEF Wireformat, WireReads, WireEnds, WireScans, WireStuck, WireExhausts, WireGoesOn,
         WireWaits, rtVars, Positive
<1>4. CASE Frontend
  BY <1>4, FrontTouches DEF Positive
<1>5. CASE Autoresponder
  BY <1>5, RespTouches DEF Positive
<1>6. CASE Side \/ Ioloop \/ World
  BY <1>6, RestTouches DEF Positive
<1>7. CASE UNCHANGED vars
  BY <1>7, StutterTouches DEF Positive
<1> QED BY <1>1, <1>2, <1>3, <1>4, <1>5, <1>6, <1>7 DEF Next, Program

\* Slot 0 is disabled, and fsm_frontend_foreign out of its loop, only at the end.
Ending ==
  /\ iow[slot0].disabled => pc[wireformat] = "end"
  /\ FrontendOutlivesWire

\* Neither sus_disable nor a size below zero sends fsm_frontend_foreign away early.
LEMMA EndingStep ==
  ASSUME Rt!TypeOK, Place, Positive, Ending, [Next]_vars, process' # "assert"
  PROVE  Ending'
<1> USE PointerAssumption, OptionAssumption, TasksApart DEF Goto
<1>0. /\ iow \in [{slot0, slot1} -> [data : 0..BufSize \cup {NULL},
                                     size : (0 - BufSize)..BufSize \cup {0},
                                     borrowed : BOOLEAN, disabled : BOOLEAN]]
      /\ held \in [{slot0, slot1} -> [data : 0..BufSize \cup {NULL},
                                      size : (0 - BufSize)..BufSize \cup {0}]]
      /\ pc \in [Task -> Labels]
  BY Typed DEF Place
<1>1. CASE Wireformat
  <2>1. pc[wireformat] # "end"
    BY <1>1 DEF Wireformat, WireReads, WireEnds, WireDisables, WireScans, WireStuck,
               WireExhausts, WireLends, WireGoesOn, WireWaits
  <2>2. pc[frontend] \notin {"disable", "end"} /\ ~iow[slot0].disabled
    BY <2>1 DEF Ending, FrontendOutlivesWire
  <2>3. pc'[frontend] = pc[frontend]
    BY <1>1, WireTouches
  <2>4. CASE WireDisables
    BY <1>0, <2>2, <2>3, <2>4 DEF WireDisables, Ending, FrontendOutlivesWire
  <2>5. CASE WireLends
    <3>1. ~iow'[slot0].disabled
      BY <1>0, <2>5, LendEffect DEF WireLends
    <3> QED BY <2>2, <2>3, <3>1 DEF Ending, FrontendOutlivesWire
  <2>6. CASE ~WireDisables /\ ~WireLends
    <3>1. iow' = iow
      BY <1>1, <2>6, IoDoneEffect, LendReturnsEffect, LendWaitsEffect, IoWaitsEffect
         DEF Wireformat, WireReads, WireEnds, WireScans, WireStuck, WireExhausts, WireGoesOn,
             WireWaits, rtVars
    <3> QED BY <2>2, <2>3, <3>1 DEF Ending, FrontendOutlivesWire
  <2> QED BY <2>4, <2>5, <2>6
<1>2. CASE Frontend
  <2>1. pc'[wireformat] = pc[wireformat] /\ (iow'[slot0].disabled => iow[slot0].disabled)
    BY <1>2, FrontTouches
  <2>2. pc'[frontend] \in {"disable", "end"} =>
          pc[frontend] \in {"disable", "end"} \/ iow[slot0].disabled
    <3>1. CASE FrontTakes
      <4>1. held'[slot0].size = iow[slot0].size /\ iow[slot0].data # NULL
        BY <1>0, <3>1, BorrowTakesEffect DEF FrontTakes
      <4>2. ~(held'[slot0].size < 0)
        BY <1>0, <4>1 DEF Positive
      <4> QED BY <1>0, <3>1, <4>2 DEF FrontTakes
    <3>2. CASE FrontRefused
      BY <3>2, BorrowFailsEffect DEF FrontRefused
    <3>3. CASE FrontDisables
      BY <3>3 DEF FrontDisables
    <3>4. CASE ~FrontTakes /\ ~FrontRefused /\ ~FrontDisables
      BY <1>0, <1>2, <3>4 DEF Frontend, FrontScans, FrontStuck, FrontSends, FrontLends,
               FrontGoesOn, FrontReturns, FrontWaits
    <3> QED BY <3>1, <3>2, <3>3, <3>4
  <2> QED BY <2>1, <2>2 DEF Ending, FrontendOutlivesWire
<1>3. CASE Autoresponder
  BY <1>3, RespTouches DEF Ending, FrontendOutlivesWire
<1>4. CASE Side \/ Ioloop \/ World
  BY <1>4, RestTouches DEF Ending, FrontendOutlivesWire
<1>5. CASE UNCHANGED vars
  BY <1>5, StutterTouches DEF Ending, FrontendOutlivesWire
<1> QED BY <1>1, <1>2, <1>3, <1>4, <1>5 DEF Next, Program

(***************************************************************************)
(* As long as the peer sends whole frames and each read takes all there    *)
(* is, fsm_frontend_foreign never takes the size of a frame for the error  *)
(* of sus_borrow: it leaves its loop after fsm_wireformat has left its own. *)
(***************************************************************************)
THEOREM FrontendEndsLast ==
  ASSUME UncutFrames
  PROVE  Spec => []FrontendOutlivesWire
<1> DEFINE UInv == Inv /\ Uncut /\ Aligned /\ Positive /\ Ending
<1>1. Init => UInv
  <2> SUFFICES ASSUME Init PROVE UInv
    OBVIOUS
  <2>1. Inv
    BY InvInit
  <2>2. Len(<<>>) = 0 /\ Whole(<<>>)
    BY DEF Whole
  <2>3. Uncut
    <3>1. budget.sends = MaxSends /\ inbox = <<>> /\ BufSize \in Nat /\ MaxSends \in Nat
      BY OptionAssumption DEF Init
    <3>2. ASSUME NEW n \in 0..BufSize, n * MaxSends <= BufSize
          PROVE  0 + n * budget.sends <= BufSize
      <4>1. n * MaxSends \in Nat
        BY <3>1
      <4> QED BY <3>1, <3>2, <4>1
    <3> QED BY <2>2, <3>1, <3>2 DEF Uncut, UncutFrames
  <2>4. Aligned /\ Positive /\ Ending
    BY <2>2, TasksApart DEF Init, Aligned, Positive, Ending, FrontendOutlivesWire, Rt!Cleared
  <2> QED BY <2>1, <2>3, <2>4
<1>2. UInv /\ [Next]_vars => UInv'
  <2> SUFFICES ASSUME UInv, [Next]_vars PROVE UInv'
    OBVIOUS
  <2>1. Inv'
    BY InvStep
  <2>2. /\ process' # "assert"
        /\ Rt!TypeOK /\ Place /\ WireData /\ Files
    BY <2>1 DEF Inv, Sound, Rt!ContractHolds
  <2> QED BY <2>1, <2>2, UncutStep, AlignedStep, PositiveStep, EndingStep
<1>3. UInv => FrontendOutlivesWire
  BY DEF Ending
<1> QED BY <1>1, <1>2, <1>3, PTL DEF Spec

=============================================================================
