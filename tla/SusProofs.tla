----------------------------- MODULE SusProofs -----------------------------
(***************************************************************************)
(* What holds of the runtime of Sus for every set of tasks, every wiring   *)
(* of slots and every visit limit the assumptions allow.                   *)
(***************************************************************************)
EXTENDS Sus, FiniteSetTheorems, SequenceTheorems, TLAPS

\* Where a task may be, and what the turns touch.
Place == [op : Ops, on : Slot \cup Event \cup {NULL}]

SchedType ==
  /\ queue \in Seq(Task)
  /\ visited \in [Task -> Nat]
  /\ wait \in [Task -> Place]
  /\ process \in {"up", "EDEADLK", "assert", "abort", "exit"}

Work == [data : Pointer \cup {NULL}, size : Size \cup {0},
         borrowed : BOOLEAN, disabled : BOOLEAN]
Hold == [data : Pointer \cup {NULL}, size : Size \cup {0}]

SlotsType == iow \in [Slot -> Work] /\ held \in [Slot -> Hold]

IoType ==
  /\ scheduled \subseteq Event
  /\ active \subseteq Event
  /\ surrended \in BOOLEAN

\* The three concerns of the type invariant.
LEMMA TypeParts == TypeOK <=> SchedType /\ SlotsType /\ IoType
BY DEF TypeOK, SchedType, SlotsType, IoType, Place, Work, Hold

-----------------------------------------------------------------------------
(* Turns *)

\* The queue read from its second task on is a queue of the same tasks.
LEMMA RotatedType ==
  ASSUME NEW q \in Seq(Task), q # <<>>
  PROVE  Rotated(q) \in Seq(Task)
<1>1. Tail(q) \in Seq(Task) /\ Head(q) \in Task
  BY HeadTailProperties
<1> QED BY <1>1, AppendProperties DEF Rotated

\* Leaving keeps the queue a queue of tasks.
LEMMA LeaveType ==
  ASSUME queue \in Seq(Task), Leave
  PROVE  queue' \in Seq(Task)
<1>1. CASE Len(queue) = 1
  <2>1. queue' = <<>>
    BY <1>1 DEF Leave
  <2> QED BY <2>1, EmptySeq
<1>2. CASE Len(queue) # 1
  <2>1. queue' = Rotated(Tail(queue)) /\ queue # <<>>
    BY <1>2 DEF Leave
  <2>2. Tail(queue) \in Seq(Task) /\ Len(Tail(queue)) = Len(queue) - 1
    BY <2>1, HeadTailProperties
  <2>3. Len(queue) \in Nat /\ Len(Tail(queue)) # 0
    BY <1>2, <2>2, LenProperties
  <2>4. Tail(queue) # <<>>
    BY <2>3, EmptySeq
  <2> QED BY <2>1, <2>2, <2>4, RotatedType
<1> QED BY <1>1, <1>2

\* suspend() keeps the types, whether the turn passes or the process ends.
LEMMA SuspendType ==
  ASSUME SchedType, NEW t \in Task, NEW op \in Ops,
         NEW on \in Slot \cup Event \cup {NULL}, Suspend(t, op, on)
  PROVE  SchedType'
<1>1. At(op, on) \in Place
  BY DEF At, Place
<1>2. wait' \in [Task -> Place]
  BY <1>1 DEF Suspend, SchedType
<1>3. CASE visited[t] < VisitLimit
  <2>1. visited' \in [Task -> Nat] /\ process' = process
    BY <1>3 DEF Suspend, SchedType
  <2>2. queue' \in Seq(Task)
    BY <1>3, RotatedType DEF Suspend, SchedType, Switch
  <2> QED BY <1>2, <2>1, <2>2 DEF SchedType
<1>4. CASE ~(visited[t] < VisitLimit)
  BY <1>2, <1>4 DEF Suspend, SchedType
<1> QED BY <1>3, <1>4

\* So does the return of a call.
LEMMA ReturnType ==
  ASSUME SchedType, NEW t \in Task, Proceed(t) \/ GiveUp(t)
  PROVE  SchedType'
<1>1. Run \in Place
  BY DEF Run, At, Place, Ops
<1>2. wait' \in [Task -> Place] /\ queue' = queue /\ process' = process
  BY <1>1 DEF SchedType, Proceed, GiveUp
<1>3. visited' \in [Task -> Nat]
  BY DEF SchedType, Proceed, GiveUp
<1> QED BY <1>2, <1>3 DEF SchedType

\* So does the end of a task.
LEMMA ExitType ==
  ASSUME SchedType, NEW t \in Task, Exit(t)
  PROVE  SchedType'
<1>1. At("exit", NULL) \in Place
  BY DEF At, Place, Ops
<1> QED BY <1>1, LeaveType DEF SchedType, Exit

\* And so does the end of the process.
LEMMA DieType ==
  ASSUME SchedType, NEW how \in {"assert", "abort", "exit"}, Die(how)
  PROVE  SchedType'
BY DEF SchedType, Die

-----------------------------------------------------------------------------
(* The type invariant *)

\* The initial queue, any order of the tasks, is a sequence of tasks.
LEMMA InitType == SusInit => TypeOK
<1> SUFFICES ASSUME SusInit PROVE TypeOK
  OBVIOUS
<1>1. queue \in Seq(Task)
  <2>1. Cardinality(Task) \in Nat
    BY TaskAssumption, FS_CardinalityType
  <2>2. queue \in [1..Cardinality(Task) -> Task]
    BY DEF SusInit, Orders
  <2> QED BY <2>1, <2>2, SeqDef
<1>2. Run \in Place
  BY DEF Run, At, Place, Ops
<1>3. SchedType
  BY <1>1, <1>2 DEF SusInit, SchedType
<1>4. SlotsType
  BY DEF SusInit, SlotsType, Cleared, Empty, Work, Hold
<1>5. IoType
  BY DEF SusInit, IoType
<1> QED BY <1>3, <1>4, <1>5, TypeParts

\* What a task does to a slot keeps the types.
LEMMA SlotStepType ==
  ASSUME TypeOK, NEW id \in Slot, SlotStep(id)
  PROVE  TypeOK'
<1> DEFINE lender == Lender[id]
           borrower == Borrower[id]
<1>1. lender \in Task /\ borrower \in Task
  BY SlotAssumption
<1>2. SchedType /\ SlotsType /\ IoType
  BY TypeParts
<1>3. SchedType' /\ SlotsType' /\ IoType' => TypeOK'
  BY DEF TypeOK, SchedType, SlotsType, IoType, Place, Work, Hold
<1>4. {"lend", "borrow"} \subseteq Ops /\ id \in Slot \cup Event \cup {NULL}
  BY DEF Ops
<1> HIDE DEF lender, borrower
<1>5. ASSUME NEW size \in Size, NEW data \in Pointer, Lend(lender, id, size, data)
      PROVE  TypeOK'
  <2>1. Suspend(lender, "lend", id) \/ Die("assert")
    BY <1>5 DEF Lend
  <2>2. SchedType'
    <3>1. CASE Suspend(lender, "lend", id)
      BY <1>1, <1>2, <1>4, <3>1, SuspendType
    <3> QED BY <1>2, <2>1, <3>1, DieType
  <2>3. SlotsType'
    <3>1. [Cleared EXCEPT !.data = data, !.size = size] \in Work
      BY DEF Cleared, Work
    <3> QED BY <1>2, <1>5, <3>1 DEF SlotsType, Lend
  <2>4. IoType'
    BY <1>2, <1>5 DEF IoType, Lend, io
  <2> QED BY <1>3, <2>2, <2>3, <2>4
<1>6. CASE LendWaits(lender, id) \/ BorrowWaits(borrower, id)
  <2>1. SchedType'
    BY <1>1, <1>2, <1>4, <1>6, SuspendType DEF LendWaits, BorrowWaits
  <2>2. SlotsType' /\ IoType'
    BY <1>2, <1>6 DEF SlotsType, IoType, LendWaits, BorrowWaits, slots, io
  <2> QED BY <1>3, <2>1, <2>2
<1>7. CASE LendReturns(lender, id) \/ BorrowFails(borrower, id)
  <2>1. SchedType'
    BY <1>1, <1>2, <1>7, ReturnType, DieType DEF LendReturns, BorrowFails
  <2>2. SlotsType' /\ IoType'
    BY <1>2, <1>7 DEF SlotsType, IoType, LendReturns, BorrowFails, slots, io
  <2> QED BY <1>3, <2>1, <2>2
<1>8. CASE Disable(lender, id)
  <2>1. SchedType' /\ IoType'
    BY <1>2, <1>8 DEF SchedType, IoType, Disable, sched, io
  <2>2. SlotsType'
    BY <1>2, <1>8 DEF SlotsType, Disable, Work
  <2> QED BY <1>3, <2>1, <2>2
<1>9. CASE BorrowTakes(borrower, id)
  <2>1. Proceed(borrower) \/ Die("assert")
    BY <1>9 DEF BorrowTakes
  <2>2. SchedType'
    <3>1. CASE Proceed(borrower)
      BY <1>1, <1>2, <3>1, ReturnType
    <3> QED BY <1>2, <2>1, <3>1, DieType
  <2>3. SlotsType'
    <3>1. iow[id] \in Work
      BY <1>2 DEF SlotsType
    <3>2. /\ [iow[id] EXCEPT !.borrowed = TRUE] \in Work
          /\ [data |-> iow[id].data, size |-> iow[id].size] \in Hold
      BY <3>1 DEF Work, Hold
    <3> QED BY <1>2, <1>9, <3>2 DEF SlotsType, BorrowTakes, slots
  <2>4. IoType'
    BY <1>2, <1>9 DEF IoType, BorrowTakes, io
  <2> QED BY <1>3, <2>2, <2>3, <2>4
<1>10. CASE Return(borrower, id, held[id].data, held[id].size)
  <2>1. Proceed(borrower) \/ Die("assert")
    BY <1>10 DEF Return
  <2>2. SchedType'
    <3>1. CASE Proceed(borrower)
      BY <1>1, <1>2, <3>1, ReturnType
    <3> QED BY <1>2, <2>1, <3>1, DieType
  <2>3. SlotsType'
    <3>1. Cleared \in Work /\ Empty \in Hold
      BY DEF Cleared, Empty, Work, Hold
    <3> QED BY <1>2, <1>10, <3>1 DEF SlotsType, Return, slots
  <2>4. IoType'
    BY <1>2, <1>10 DEF IoType, Return, io
  <2> QED BY <1>3, <2>2, <2>3, <2>4
<1> QED BY <1>5, <1>6, <1>7, <1>8, <1>9, <1>10 DEF SlotStep, lender, borrower

\* What a task asks of a descriptor, and its end, keep the types.
LEMMA TaskStepType ==
  ASSUME TypeOK, NEW t \in Task, TaskStep(t)
  PROVE  TypeOK'
<1>1. SchedType /\ SlotsType /\ IoType
  BY TypeParts
<1>2. SchedType' /\ SlotsType' /\ IoType' => TypeOK'
  BY DEF TypeOK, SchedType, SlotsType, IoType, Place, Work, Hold
<1>3. ASSUME NEW e \in Event, IoWaits(t, e) \/ IoAgain(t, e)
      PROVE  TypeOK'
  <2>1. PICK op \in {"io", "again"} : Suspend(t, op, e)
    BY <1>3 DEF IoWaits, IoAgain
  <2>2. SchedType'
    BY <1>1, <2>1, SuspendType DEF Ops
  <2>3. SlotsType' /\ IoType'
    BY <1>1, <1>3 DEF SlotsType, IoType, IoWaits, IoAgain, slots, io
  <2> QED BY <1>2, <2>2, <2>3
<1>4. ASSUME NEW e \in Event, IoDone(t, e)
      PROVE  TypeOK'
  <2>1. SchedType'
    BY <1>1, <1>4, ReturnType DEF IoDone
  <2>2. SlotsType' /\ IoType'
    BY <1>1, <1>4 DEF SlotsType, IoType, IoDone, slots
  <2> QED BY <1>2, <2>1, <2>2
<1>5. CASE Finish(t) \/ \E how \in {"exit", "abort"} : Quit(t, how)
  <2>1. SchedType'
    BY <1>1, <1>5, ExitType, DieType DEF Finish, Quit
  <2>2. SlotsType' /\ IoType'
    BY <1>1, <1>5 DEF SlotsType, IoType, Finish, Quit, slots, io
  <2> QED BY <1>2, <2>1, <2>2
<1> QED BY <1>3, <1>4, <1>5 DEF TaskStep

\* The top of sus_ioloop's loop keeps the types, given events it asked for.
LEMMA NextRoundType ==
  ASSUME TypeOK, NEW ready \in SUBSET Event, NextRound(ready)
  PROVE  TypeOK'
<1>1. SchedType /\ SlotsType /\ IoType
  BY TypeParts
<1>2. SchedType' /\ SlotsType' /\ IoType' => TypeOK'
  BY DEF TypeOK, SchedType, SlotsType, IoType, Place, Work, Hold
<1>3. CASE Len(queue) = 1
  <2>1. Exit(IoLoop) /\ SlotsType' /\ IoType'
    BY <1>1, <1>3 DEF NextRound, Surrender, SlotsType, IoType, slots
  <2> QED BY <1>1, <1>2, <2>1, ExitType, TaskAssumption
<1>4. CASE Len(queue) # 1
  <2>1. Suspend(IoLoop, "iowait", NULL) /\ SlotsType' /\ IoType'
    BY <1>1, <1>4 DEF NextRound, SlotsType, IoType, slots
  <2>2. SchedType'
    BY <1>1, <2>1, SuspendType, TaskAssumption DEF Ops
  <2> QED BY <1>2, <2>1, <2>2
<1> QED BY <1>3, <1>4

\* sus_ioloop keeps the types.
LEMMA IoLoopStepType ==
  ASSUME TypeOK, IoLoopStep
  PROVE  TypeOK'
<1>1. SchedType /\ SlotsType /\ IoType
  BY TypeParts
<1>2. SchedType' /\ SlotsType' /\ IoType' => TypeOK'
  BY DEF TypeOK, SchedType, SlotsType, IoType, Place, Work, Hold
<1>3. ASSUME NEW ready \in SUBSET scheduled, NextRound(ready)
      PROVE  TypeOK'
  BY <1>1, <1>3, NextRoundType DEF IoType
<1>4. CASE IoLoopStarts
  BY <1>3, <1>4 DEF IoLoopStarts
<1>5. CASE IoLoopResumes
  <2>1. CASE scheduled = {}
    BY <1>3, <1>5, <2>1 DEF IoLoopResumes
  <2>2. CASE scheduled # {}
    <3>1. At("select", NULL) \in Place
      BY DEF At, Place, Ops
    <3>2. SchedType' /\ SlotsType' /\ IoType'
      BY <1>1, <1>5, <2>2, <3>1
         DEF IoLoopResumes, SchedType, SlotsType, IoType, slots, io
    <3> QED BY <1>2, <3>2
  <2> QED BY <2>1, <2>2
<1>6. CASE \E ready \in SUBSET scheduled : SelectReports(ready)
  BY <1>3, <1>6 DEF SelectReports
<1>7. CASE SelectTimesOut
  <2>1. Exit(IoLoop) /\ SlotsType' /\ IoType'
    BY <1>1, <1>7 DEF SelectTimesOut, Surrender, SlotsType, IoType, slots
  <2> QED BY <1>1, <1>2, <2>1, ExitType, TaskAssumption
<1>8. CASE SelectFails
  <2>1. Die("exit") /\ SlotsType' /\ IoType'
    BY <1>1, <1>8 DEF SelectFails, SlotsType, IoType, slots, io
  <2> QED BY <1>1, <1>2, <2>1, DieType
<1> QED BY <1>4, <1>5, <1>6, <1>7, <1>8 DEF IoLoopStep

\* Every step of the runtime, or none, keeps the types.
LEMMA StepType == TypeOK /\ [SusNext]_vars => TypeOK'
<1> SUFFICES ASSUME TypeOK, [SusNext]_vars PROVE TypeOK'
  OBVIOUS
<1>1. CASE SusNext
  BY <1>1, SlotStepType, TaskStepType, IoLoopStepType DEF SusNext
<1>2. CASE UNCHANGED vars
  BY <1>2 DEF TypeOK, vars, sched, slots, io
<1> QED BY <1>1, <1>2

(***************************************************************************)
(* The runtime's state keeps its types: the queue holds tasks only, every  *)
(* task is inside one of the sus_ calls, and every slot holds a buffer the *)
(* tasks passed to sus_lend or none.                                       *)
(***************************************************************************)
THEOREM TypeCorrect == SusSpec => []TypeOK
<1>1. SusInit => TypeOK
  BY InitType
<1>2. TypeOK /\ [SusNext]_vars => TypeOK'
  BY StepType
<1> QED BY <1>1, <1>2, PTL DEF SusSpec

-----------------------------------------------------------------------------
(* The handover of buffers *)

\* HandoverSafe for one slot.
Safe(id) ==
  /\ iow[id].data # NULL => LenderWaits(id)
  /\ iow[id].data = NULL => iow[id].size = 0 /\ ~iow[id].borrowed
  /\ iow[id].borrowed <=> held[id].data # NULL
  /\ iow[id].borrowed => /\ held[id].data = iow[id].data
                         /\ held[id].size = iow[id].size

\* HandoverSafe is what holds of every slot by itself.
LEMMA SafeSlots == HandoverSafe <=> \A id \in Slot : Safe(id)
BY DEF HandoverSafe, Safe

\* No task but t moves.
Only(t) == \A u \in Task \ {t} : wait'[u] = wait[u]

\* A step inside one call moves the task that is in it.
LEMMA OnlyCaller ==
  ASSUME TypeOK, NEW t \in Task,
         \/ \E op, on : Suspend(t, op, on)
         \/ Proceed(t) \/ GiveUp(t) \/ Exit(t)
         \/ \E how : Die(how)
  PROVE  Only(t)
<1>1. wait \in [Task -> Place]
  BY TypeParts DEF SchedType
<1>2. CASE \E op, on : Suspend(t, op, on)
  BY <1>1, <1>2 DEF Suspend, Only
<1>3. CASE Proceed(t) \/ GiveUp(t) \/ Exit(t)
  BY <1>1, <1>3 DEF Proceed, GiveUp, Exit, Only
<1>4. CASE \E how : Die(how)
  BY <1>4 DEF Die, Only
<1> QED BY <1>2, <1>3, <1>4

\* What t does disturbs no slot t has not lent.
LEMMA Undisturbed ==
  ASSUME TypeOK, NEW t \in Task, Only(t), NEW id \in Slot, Safe(id),
         iow'[id] = iow[id], held'[id] = held[id],
         Lender[id] = t => iow[id].data = NULL
  PROVE  Safe(id)'
<1>1. Lender[id] \in Task
  BY SlotAssumption
<1>2. iow[id].data # NULL => LenderWaits(id)'
  BY <1>1 DEF Safe, LenderWaits, Only
<1> QED BY <1>2 DEF Safe

\* A task in its own code, or in another call, has no buffer out.
LEMMA NothingLent ==
  ASSUME NEW id \in Slot, Safe(id), wait[Lender[id]].op # "lend"
  PROVE  iow[id].data = NULL
BY DEF Safe, LenderWaits

\* So its steps that leave the slots alone keep every handover safe.
LEMMA OutsideLend ==
  ASSUME TypeOK, HandoverSafe, NEW t \in Task, Only(t), wait[t].op # "lend",
         UNCHANGED slots
  PROVE  HandoverSafe'
<1> SUFFICES ASSUME NEW id \in Slot PROVE Safe(id)'
  BY SafeSlots DEF HandoverSafe, Safe
<1>1. Safe(id)
  BY SafeSlots
<1> QED BY <1>1, NothingLent, Undisturbed DEF slots

\* The steps of a slot's lender and borrower keep its own handover safe, and
\* that of every other slot.
LEMMA SlotStepSafe ==
  ASSUME TypeOK, HandoverSafe, NEW id \in Slot, SlotStep(id)
  PROVE  HandoverSafe'
<1> DEFINE lender == Lender[id]
           borrower == Borrower[id]
<1>1. lender \in Task /\ borrower \in Task
  BY SlotAssumption
<1>2. /\ wait \in [Task -> Place]
      /\ iow \in [Slot -> Work] /\ held \in [Slot -> Hold]
  BY TypeParts DEF SchedType, SlotsType
<1>3. \A i \in Slot : Safe(i)
  BY SafeSlots
<1>4. (\A i \in Slot : Safe(i)') => HandoverSafe'
  BY DEF HandoverSafe, Safe
<1> HIDE DEF lender, borrower
<1>5. ASSUME NEW size \in Size, NEW data \in Pointer, Lend(lender, id, size, data)
      PROVE  HandoverSafe'
  <2>1. Only(lender) /\ wait[lender].op = "run"
    BY <1>1, <1>5, OnlyCaller DEF Lend, Calls
  <2>2. CASE ~Lendable(id)
    BY <1>1, <1>5, <2>1, <2>2, OutsideLend DEF Lend, slots
  <2>3. CASE Lendable(id)
    <3>1. /\ iow'[id] = [Cleared EXCEPT !.data = data, !.size = size]
          /\ \A i \in Slot \ {id} : iow'[i] = iow[i]
          /\ held' = held
          /\ wait'[lender] = At("lend", id)
      BY <1>1, <1>2, <1>5, <2>3 DEF Lend, Suspend
    <3>2. Safe(id)'
      <4>1. ~iow[id].borrowed /\ held[id].data = NULL
        BY <1>3, <2>3 DEF Lendable, Safe
      <4>2. iow'[id].data # NULL /\ ~iow'[id].borrowed
        BY <3>1, DataAssumption DEF Cleared
      <4> QED BY <3>1, <4>1, <4>2 DEF Safe, LenderWaits, At, lender
    <3>3. ASSUME NEW i \in Slot \ {id} PROVE Safe(i)'
      BY <1>1, <1>3, <2>1, <3>1, NothingLent, Undisturbed
    <3> QED BY <1>4, <3>2, <3>3
  <2> QED BY <2>2, <2>3
<1>6. CASE LendWaits(lender, id)
  <2>1. Only(lender) /\ wait[lender].op = "lend" /\ wait[lender].on = id
    BY <1>1, <1>6, OnlyCaller DEF LendWaits, Resumed
  <2>2. iow' = iow /\ held' = held /\ wait'[lender] = At("lend", id)
    BY <1>1, <1>2, <1>6 DEF LendWaits, Suspend, slots
  <2>3. Safe(id)'
    BY <1>3, <2>2 DEF Safe, LenderWaits, At, lender
  <2>4. ASSUME NEW i \in Slot \ {id} PROVE Safe(i)'
    <3>1. Lender[i] = lender => iow[i].data = NULL
      BY <1>3, <2>1 DEF Safe, LenderWaits
    <3> QED BY <1>1, <1>3, <2>1, <2>2, <3>1, Undisturbed
  <2> QED BY <1>4, <2>3, <2>4
<1>7. CASE LendReturns(lender, id)
  <2>1. Only(lender) /\ wait[lender].op = "lend" /\ wait[lender].on = id
    BY <1>1, <1>7, OnlyCaller DEF LendReturns, Resumed
  <2>2. iow' = iow /\ held' = held /\ iow[id].data = NULL
    BY <1>7 DEF LendReturns, slots
  <2>3. ASSUME NEW i \in Slot PROVE Safe(i)'
    <3>1. Lender[i] = lender => iow[i].data = NULL
      BY <1>3, <2>1, <2>2 DEF Safe, LenderWaits
    <3> QED BY <1>1, <1>3, <2>1, <2>2, <3>1, Undisturbed
  <2> QED BY <1>4, <2>3
<1>8. CASE Disable(lender, id)
  <2>1. Only(lender) /\ wait[lender].op = "run"
    BY <1>8 DEF Disable, sched, Only, Calls
  <2>2. /\ iow'[id] = [iow[id] EXCEPT !.disabled = TRUE]
        /\ \A i \in Slot \ {id} : iow'[i] = iow[i]
        /\ held' = held
    BY <1>2, <1>8 DEF Disable
  <2>3. Safe(id)'
    <3>1. iow'[id].data = iow[id].data /\ iow'[id].size = iow[id].size
          /\ iow'[id].borrowed = iow[id].borrowed
      BY <1>2, <2>2 DEF Work
    <3>2. iow[id].data = NULL
      BY <1>3, <2>1, NothingLent DEF lender
    <3> QED BY <1>3, <2>2, <3>1, <3>2 DEF Safe
  <2>4. ASSUME NEW i \in Slot \ {id} PROVE Safe(i)'
    BY <1>1, <1>3, <2>1, <2>2, NothingLent, Undisturbed
  <2> QED BY <1>4, <2>3, <2>4
<1>9. CASE BorrowFails(borrower, id) \/ BorrowWaits(borrower, id)
  <2>1. Only(borrower) /\ wait[borrower].op # "lend" /\ UNCHANGED slots
    BY <1>1, <1>9, OnlyCaller
       DEF BorrowFails, BorrowWaits, Borrows, Calls, Resumed
  <2> QED BY <1>1, <2>1, OutsideLend
<1>10. CASE BorrowTakes(borrower, id)
  <2>1. Only(borrower) /\ wait[borrower].op # "lend"
    BY <1>1, <1>10, OnlyCaller DEF BorrowTakes, Borrows, Calls, Resumed
  <2>2. CASE UNCHANGED slots
    BY <1>1, <2>1, <2>2, OutsideLend
  <2>3. CASE /\ iow[id].data # NULL
             /\ iow' = [iow EXCEPT ![id].borrowed = TRUE]
             /\ held' = [held EXCEPT ![id] = [data |-> iow[id].data,
                                             size |-> iow[id].size]]
    <3>1. /\ iow'[id].data = iow[id].data /\ iow'[id].size = iow[id].size
          /\ iow'[id].borrowed
          /\ held'[id].data = iow[id].data /\ held'[id].size = iow[id].size
          /\ \A i \in Slot \ {id} : iow'[i] = iow[i] /\ held'[i] = held[i]
      BY <1>2, <2>3 DEF Work, Hold
    <3>2. LenderWaits(id)'
      <4>1. LenderWaits(id)
        BY <1>3, <2>3 DEF Safe
      <4>2. lender # borrower
        BY <2>1, <4>1 DEF LenderWaits, lender
      <4> QED BY <1>1, <2>1, <4>1, <4>2 DEF LenderWaits, Only, lender
    <3>3. Safe(id)'
      BY <2>3, <3>1, <3>2 DEF Safe
    <3>4. ASSUME NEW i \in Slot \ {id} PROVE Safe(i)'
      BY <1>1, <1>3, <2>1, <3>1, NothingLent, Undisturbed
    <3> QED BY <1>4, <3>3, <3>4
  <2> QED BY <1>10, <2>2, <2>3 DEF BorrowTakes
<1>11. CASE Return(borrower, id, held[id].data, held[id].size)
  <2>1. Only(borrower) /\ wait[borrower].op # "lend"
    BY <1>1, <1>11, OnlyCaller DEF Return, Calls
  <2>2. CASE UNCHANGED slots
    BY <1>1, <2>1, <2>2, OutsideLend
  <2>3. CASE iow' = [iow EXCEPT ![id] = Cleared] /\ held' = [held EXCEPT ![id] = Empty]
    <3>1. /\ iow'[id] = Cleared /\ held'[id] = Empty
          /\ \A i \in Slot \ {id} : iow'[i] = iow[i] /\ held'[i] = held[i]
      BY <1>2, <2>3
    <3>2. Safe(id)'
      BY <3>1 DEF Safe, Cleared, Empty
    <3>3. ASSUME NEW i \in Slot \ {id} PROVE Safe(i)'
      BY <1>1, <1>3, <2>1, <3>1, NothingLent, Undisturbed
    <3> QED BY <1>4, <3>2, <3>3
  <2> QED BY <1>11, <2>2, <2>3 DEF Return
<1> QED BY <1>5, <1>6, <1>7, <1>8, <1>9, <1>10, <1>11 DEF SlotStep, lender, borrower

\* I/O and the end of a task are outside sus_lend.
LEMMA TaskStepSafe ==
  ASSUME TypeOK, HandoverSafe, NEW t \in Task, TaskStep(t)
  PROVE  HandoverSafe'
<1>1. UNCHANGED slots
  BY DEF TaskStep, IoWaits, IoAgain, IoDone, Finish, Quit
<1>2. wait[t].op # "lend"
  BY DEF TaskStep, IoWaits, IoAgain, IoDone, AtIo, Finish, Quit, Calls, Resumed
<1>3. Only(t)
  BY OnlyCaller DEF TaskStep, IoWaits, IoAgain, IoDone, Finish, Quit
<1> QED BY <1>1, <1>2, <1>3, OutsideLend

\* So is the event loop, in every one of its steps.
LEMMA IoLoopStepSafe ==
  ASSUME TypeOK, HandoverSafe, IoLoopStep
  PROVE  HandoverSafe'
<1>1. IoLoop \in Task
  BY TaskAssumption
<1>2. UNCHANGED slots
  BY DEF IoLoopStep, IoLoopStarts, IoLoopResumes, SelectReports, SelectTimesOut,
         SelectFails, NextRound, Surrender
<1>3. wait[IoLoop].op # "lend"
  BY DEF IoLoopStep, IoLoopStarts, IoLoopResumes, SelectReports, SelectTimesOut,
         SelectFails, Selecting, Calls, Resumed
<1>4. Only(IoLoop)
  <2>1. ASSUME NEW ready, NextRound(ready) PROVE Only(IoLoop)
    BY <1>1, <2>1, OnlyCaller DEF NextRound, Surrender
  <2>2. CASE SelectTimesOut \/ SelectFails
    BY <1>1, <2>2, OnlyCaller DEF SelectTimesOut, SelectFails, Surrender
  <2>3. CASE IoLoopResumes /\ scheduled # {}
    <3>1. wait \in [Task -> Place]
      BY TypeParts DEF SchedType
    <3> QED BY <2>3, <3>1 DEF IoLoopResumes, Only
  <2> QED BY <2>1, <2>2, <2>3
          DEF IoLoopStep, IoLoopStarts, IoLoopResumes, SelectReports
<1> QED BY <1>1, <1>2, <1>3, <1>4, OutsideLend

\* Every step, or none, keeps the handovers safe.
LEMMA StepSafe == TypeOK /\ HandoverSafe /\ [SusNext]_vars => HandoverSafe'
<1> SUFFICES ASSUME TypeOK, HandoverSafe, [SusNext]_vars PROVE HandoverSafe'
  OBVIOUS
<1>1. CASE SusNext
  BY <1>1, SlotStepSafe, TaskStepSafe, IoLoopStepSafe DEF SusNext
<1>2. CASE UNCHANGED vars
  BY <1>2 DEF HandoverSafe, LenderWaits, vars, sched, slots
<1> QED BY <1>1, <1>2

\* No slot is in use at the start.
LEMMA InitSafe == SusInit => HandoverSafe
BY DEF SusInit, HandoverSafe, Cleared, Empty

(***************************************************************************)
(* For any tasks, wiring and schedule, a borrower holds exactly what is    *)
(* lent and the lender stays inside sus_lend until it is given back.       *)
(* Together with TypeOK the property is inductive as it stands.            *)
(***************************************************************************)
THEOREM HandoverCorrect == SusSpec => []HandoverSafe
<1>1. SusInit => TypeOK /\ HandoverSafe
  BY InitType, InitSafe
<1>2. TypeOK /\ HandoverSafe /\ [SusNext]_vars => (TypeOK /\ HandoverSafe)'
  BY StepType, StepSafe
<1> QED BY <1>1, <1>2, PTL DEF SusSpec

-----------------------------------------------------------------------------
(* The asserts of sus_lend, sus_borrow and sus_return *)

\* Where handovers are safe, the tasks' next calls meet every assert.
LEMMA StepContract ==
  ASSUME TypeOK, HandoverSafe, ContractHolds, [SusNext]_vars
  PROVE  ContractHolds'
<1>1. \A id \in Slot : Safe(id)
  BY SafeSlots
<1>2. ASSUME NEW id \in Slot, SlotStep(id) PROVE ContractHolds'
  <2>1. ASSUME NEW size \in Size, NEW data \in Pointer,
               Lend(Lender[id], id, size, data)
        PROVE  ContractHolds'
    <3>1. iow[id].data = NULL
      BY <1>1, <2>1, NothingLent DEF Lend, Calls
    <3>2. Lendable(id)
      BY <1>1, <3>1 DEF Lendable, Safe
    <3> QED BY <2>1, <3>2 DEF Lend, Suspend, ContractHolds
  <2>2. CASE LendWaits(Lender[id], id)
    BY <2>2 DEF LendWaits, Suspend, ContractHolds
  <2>3. CASE LendReturns(Lender[id], id)
    BY <1>1, <2>3 DEF LendReturns, Proceed, ContractHolds, Safe
  <2>4. CASE Disable(Lender[id], id)
    BY <2>4 DEF Disable, sched, ContractHolds
  <2>5. CASE /\ held[id].data = NULL
             /\ \/ BorrowFails(Borrower[id], id)
                \/ BorrowWaits(Borrower[id], id)
                \/ BorrowTakes(Borrower[id], id)
    <3>1. ~iow[id].borrowed
      BY <1>1, <2>5 DEF Safe
    <3> QED BY <2>5, <3>1 DEF BorrowFails, BorrowWaits, BorrowTakes, GiveUp,
                              Suspend, Proceed, ContractHolds
  <2>6. CASE /\ held[id].data # NULL
             /\ Return(Borrower[id], id, held[id].data, held[id].size)
    <3>1. Returnable(id, held[id].data, held[id].size)
      BY <1>1, <2>6 DEF Returnable, Safe
    <3> QED BY <2>6, <3>1 DEF Return, Proceed, ContractHolds
  <2> QED BY <1>2, <2>1, <2>2, <2>3, <2>4, <2>5, <2>6 DEF SlotStep
<1>3. ASSUME NEW t \in Task, TaskStep(t) PROVE ContractHolds'
  BY <1>3 DEF TaskStep, IoWaits, IoAgain, IoDone, Finish, Quit, Suspend,
              Proceed, Exit, Die, ContractHolds
<1>4. CASE IoLoopStep
  BY <1>4 DEF IoLoopStep, IoLoopStarts, IoLoopResumes, SelectReports,
              SelectTimesOut, SelectFails, NextRound, Surrender, Suspend, Exit,
              Die, ContractHolds
<1>5. CASE UNCHANGED vars
  BY <1>5 DEF ContractHolds, vars, sched
<1> QED BY <1>2, <1>3, <1>4, <1>5 DEF SusNext

(***************************************************************************)
(* Tasks that lend and borrow their own slots only, and return what they   *)
(* borrowed, never fail an assert of the runtime, in any schedule.         *)
(***************************************************************************)
THEOREM ContractCorrect == SusSpec => []ContractHolds
<1> DEFINE IInv == TypeOK /\ HandoverSafe /\ ContractHolds
<1>1. SusInit => IInv
  BY InitType, InitSafe DEF SusInit, ContractHolds
<1>2. IInv /\ [SusNext]_vars => IInv'
  BY StepType, StepSafe, StepContract
<1>3. IInv => ContractHolds
  OBVIOUS
<1> QED BY <1>1, <1>2, <1>3, PTL DEF SusSpec

-----------------------------------------------------------------------------
(* The events asked for *)

Watches(t, e) == wait[t].op = "io" /\ wait[t].on = e

\* A step of a task that waits for no event takes no watcher away.
LEMMA OutsideIo ==
  ASSUME TypeOK, WatchedHaveWaiters, NEW t \in Task, Only(t),
         wait[t].op # "io" \/ t = IoLoop, UNCHANGED io
  PROVE  WatchedHaveWaiters'
BY DEF WatchedHaveWaiters, Only, io

\* sus_read and sus_write: who asks for an event waits for it, and who stops
\* waiting does so for an event that is no longer asked for.
LEMMA TaskStepWatched ==
  ASSUME TypeOK, WatchedHaveWaiters, NEW t \in Task \ {IoLoop}, TaskStep(t)
  PROVE  WatchedHaveWaiters'
<1>1. wait \in [Task -> Place]
  BY TypeParts DEF SchedType
<1>2. Only(t)
  BY OnlyCaller DEF TaskStep, IoWaits, IoAgain, IoDone, Finish, Quit
<1>3. ASSUME NEW e \in Event, IoWaits(t, e)
      PROVE  WatchedHaveWaiters'
  <2>1. /\ scheduled' = scheduled \cup {e} /\ active' = active
        /\ surrended' = surrended /\ ~surrended /\ e \notin active
        /\ wait'[t] = At("io", e)
    BY <1>1, <1>3 DEF IoWaits, MayTry, Suspend
  <2>2. Watches(t, e)'
    BY <2>1 DEF Watches, At
  <2>3. ASSUME NEW f \in scheduled, f # e
        PROVE  \E u \in Task \ {IoLoop} : Watches(u, f)'
    <3>1. PICK u \in Task \ {IoLoop} : Watches(u, f)
      BY <2>1 DEF WatchedHaveWaiters, Watches
    <3>2. u # t
      BY <1>3, <2>3, <3>1 DEF Watches, IoWaits, AtIo, Calls, Resumed
    <3> QED BY <1>2, <3>1, <3>2 DEF Only, Watches
  <2> QED BY <2>1, <2>2, <2>3 DEF WatchedHaveWaiters, Watches
<1>4. ASSUME NEW e \in Event, IoAgain(t, e) \/ IoDone(t, e)
      PROVE  WatchedHaveWaiters'
  <2>1. /\ scheduled' = scheduled /\ active' \subseteq active
        /\ surrended' = surrended
        /\ ~surrended => e \in active
    BY <1>4 DEF IoAgain, IoDone, MayTry, io
  <2>2. ASSUME ~surrended, NEW f \in scheduled
        PROVE  \E u \in Task \ {IoLoop} : Watches(u, f)'
    <3>1. PICK u \in Task \ {IoLoop} : Watches(u, f)
      BY <2>2 DEF WatchedHaveWaiters, Watches
    <3>2. f # e
      BY <2>1, <2>2 DEF WatchedHaveWaiters
    <3>3. u # t
      BY <1>4, <3>1, <3>2 DEF Watches, IoAgain, IoDone, AtIo, Calls, Resumed
    <3> QED BY <1>2, <3>1, <3>3 DEF Only, Watches
  <2> QED BY <2>1, <2>2 DEF WatchedHaveWaiters, Watches
<1>5. CASE Finish(t) \/ \E how \in {"exit", "abort"} : Quit(t, how)
  <2>1. wait[t].op = "run" /\ UNCHANGED io
    BY <1>5 DEF Finish, Quit, Calls
  <2> QED BY <1>2, <2>1, OutsideIo
<1> QED BY <1>3, <1>4, <1>5 DEF TaskStep

\* A slot's tasks are not inside sus_read or sus_write.
LEMMA SlotStepWatched ==
  ASSUME TypeOK, WatchedHaveWaiters, NEW id \in Slot, SlotStep(id)
  PROVE  WatchedHaveWaiters'
<1>1. Lender[id] \in Task /\ Borrower[id] \in Task
  BY SlotAssumption
<1>2. UNCHANGED io
  BY DEF SlotStep, Lend, LendWaits, LendReturns, Disable, BorrowFails,
         BorrowWaits, BorrowTakes, Return
<1>3. PICK t \in {Lender[id], Borrower[id]} : Only(t) /\ wait[t].op # "io"
  <2>1. CASE \/ \E size \in Size, data \in Pointer : Lend(Lender[id], id, size, data)
             \/ LendWaits(Lender[id], id) \/ LendReturns(Lender[id], id)
    BY <1>1, <2>1, OnlyCaller DEF Lend, LendWaits, LendReturns, Calls, Resumed
  <2>2. CASE Disable(Lender[id], id)
    BY <2>2 DEF Disable, sched, Only, Calls
  <2>3. CASE \/ BorrowFails(Borrower[id], id) \/ BorrowWaits(Borrower[id], id)
             \/ BorrowTakes(Borrower[id], id)
             \/ Return(Borrower[id], id, held[id].data, held[id].size)
    BY <1>1, <2>3, OnlyCaller
       DEF BorrowFails, BorrowWaits, BorrowTakes, Return, Borrows, Calls, Resumed
  <2> QED BY <2>1, <2>2, <2>3 DEF SlotStep
<1> QED BY <1>1, <1>2, <1>3, OutsideIo

\* Each round of the event loop starts with no event asked for.
LEMMA IoLoopStepWatched ==
  ASSUME TypeOK, WatchedHaveWaiters, IoLoopStep
  PROVE  WatchedHaveWaiters'
<1>1. ASSUME NEW ready, NextRound(ready) PROVE WatchedHaveWaiters'
  BY <1>1 DEF NextRound, Surrender, WatchedHaveWaiters
<1>2. CASE IoLoopResumes /\ scheduled # {}
  <2>1. Only(IoLoop)
    BY <1>2, TypeParts DEF IoLoopResumes, Only, SchedType
  <2> QED BY <1>2, <2>1, OutsideIo, TaskAssumption DEF IoLoopResumes
<1>3. CASE SelectTimesOut
  BY <1>3 DEF SelectTimesOut, Surrender, WatchedHaveWaiters
<1>4. CASE SelectFails
  BY <1>4 DEF SelectFails, Die, WatchedHaveWaiters, io
<1> QED BY <1>1, <1>2, <1>3, <1>4
        DEF IoLoopStep, IoLoopStarts, IoLoopResumes, SelectReports

\* Every step, or none, keeps a waiter for each event asked for.
LEMMA StepWatched ==
  ASSUME TypeOK, WatchedHaveWaiters, [SusNext]_vars
  PROVE  WatchedHaveWaiters'
<1>1. CASE SusNext
  BY <1>1, SlotStepWatched, TaskStepWatched, IoLoopStepWatched DEF SusNext
<1>2. CASE UNCHANGED vars
  BY <1>2 DEF WatchedHaveWaiters, vars, sched, io
<1> QED BY <1>1, <1>2

(***************************************************************************)
(* Every event sus_ioloop gives to select(2) has a task suspended in       *)
(* sus_read or sus_write for it, however many tasks read and write.        *)
(***************************************************************************)
THEOREM WatchedCorrect == SusSpec => []WatchedHaveWaiters
<1>1. SusInit => TypeOK /\ WatchedHaveWaiters
  BY InitType DEF SusInit, WatchedHaveWaiters
<1>2. TypeOK /\ WatchedHaveWaiters /\ [SusNext]_vars
        => (TypeOK /\ WatchedHaveWaiters)'
  BY StepType, StepWatched
<1> QED BY <1>1, <1>2, PTL DEF SusSpec

-----------------------------------------------------------------------------
(* The runtime implements Handover *)

\* OpenWhileLent is part of it: a return would reopen a closed slot without.
RefInv == TypeOK /\ HandoverSafe /\ ContractHolds /\ OpenWhileLent

\* Lending opens a slot, and disabling comes only between two loans.
LEMMA StepOpen ==
  ASSUME TypeOK, HandoverSafe, OpenWhileLent, [SusNext]_vars
  PROVE  OpenWhileLent'
<1>1. /\ iow \in [Slot -> Work]
      /\ \A id \in Slot : Safe(id)
  BY TypeParts, SafeSlots DEF SlotsType
<1>2. CASE iow' = iow
  BY <1>2 DEF OpenWhileLent
<1>3. ASSUME NEW id \in Slot, SlotStep(id), iow' # iow PROVE OpenWhileLent'
  <2>1. \/ \E size \in Size, data \in Pointer :
             iow' = [iow EXCEPT ![id] = [Cleared EXCEPT !.data = data, !.size = size]]
        \/ iow' = [iow EXCEPT ![id].disabled = TRUE] /\ wait[Lender[id]].op = "run"
        \/ iow' = [iow EXCEPT ![id].borrowed = TRUE]
        \/ iow' = [iow EXCEPT ![id] = Cleared]
    BY <1>3 DEF SlotStep, Lend, LendWaits, LendReturns, Disable, BorrowFails,
                BorrowWaits, BorrowTakes, Return, slots, Calls
  <2>2. wait[Lender[id]].op = "run" => iow[id].data = NULL
    BY <1>1, NothingLent
  <2>3. ASSUME NEW i \in Slot, iow'[i].data # NULL PROVE ~iow'[i].disabled
    <3>1. CASE i # id
      <4>1. iow'[i] = iow[i]
        BY <1>1, <2>1, <3>1
      <4> QED BY <2>3, <4>1 DEF OpenWhileLent
    <3>2. CASE i = id
      <4>1. iow[id] \in Work
        BY <1>1
      <4>2. \/ ~iow'[id].disabled
            \/ iow'[id].data = iow[id].data /\ iow[id].data = NULL
            \/ iow'[id].data = iow[id].data /\ iow'[id].disabled = iow[id].disabled
        <5>1. CASE iow' = [iow EXCEPT ![id].disabled = TRUE] /\ iow[id].data = NULL
          BY <1>1, <4>1, <5>1 DEF Work
        <5>2. CASE iow' = [iow EXCEPT ![id].borrowed = TRUE]
          BY <1>1, <4>1, <5>2 DEF Work
        <5>3. ASSUME NEW size, NEW data,
                     iow' = [iow EXCEPT ![id] = [Cleared EXCEPT !.data = data,
                                                              !.size = size]]
              PROVE  ~iow'[id].disabled
          BY <1>1, <5>3 DEF Cleared
        <5>4. CASE iow' = [iow EXCEPT ![id] = Cleared]
          BY <1>1, <5>4 DEF Cleared
        <5> QED BY <2>1, <2>2, <5>1, <5>2, <5>3, <5>4
      <4> QED BY <2>3, <3>2, <4>2 DEF OpenWhileLent
    <3> QED BY <3>1, <3>2
  <2> QED BY <2>3 DEF OpenWhileLent
<1>4. iow' = iow \/ \E id \in Slot : SlotStep(id)
  BY DEF SusNext, TaskStep, IoWaits, IoAgain, IoDone, Finish, Quit, IoLoopStep,
         IoLoopStarts, IoLoopResumes, SelectReports, SelectTimesOut,
         SelectFails, NextRound, Surrender, vars, slots
<1> QED BY <1>2, <1>3, <1>4

(***************************************************************************)
(* No buffer is refused to its borrower because the slot is disabled: the  *)
(* lender, who alone disables the slot, is inside sus_lend.                *)
(***************************************************************************)
THEOREM LoansNotRefused == SusSpec => []OpenWhileLent
<1> DEFINE IInv == TypeOK /\ HandoverSafe /\ OpenWhileLent
<1>1. SusInit => IInv
  BY InitType, InitSafe DEF SusInit, OpenWhileLent, Cleared
<1>2. IInv /\ [SusNext]_vars => IInv'
  BY StepType, StepSafe, StepOpen
<1>3. IInv => OpenWhileLent
  OBVIOUS
<1> QED BY <1>1, <1>2, <1>3, PTL DEF SusSpec

\* The lender's call tells nothing else apart than the buffer does.
LEMMA SamePhase ==
  ASSUME NEW id \in Slot, iow'[id] = iow[id], LenderWaits(id)' <=> LenderWaits(id)
  PROVE  PhaseOf(id)' = PhaseOf(id)
BY DEF PhaseOf

\* Outside sus_lend before and after, a task moves no slot's phase.
LEMMA PhasesKept ==
  ASSUME NEW t \in Task, Only(t), NEW id \in Slot, iow'[id] = iow[id],
         Lender[id] = t => ~LenderWaits(id) /\ ~LenderWaits(id)'
  PROVE  PhaseOf(id)' = PhaseOf(id)
<1>1. Lender[id] \in Task
  BY SlotAssumption
<1>2. LenderWaits(id)' <=> LenderWaits(id)
  BY <1>1 DEF LenderWaits, Only
<1> QED BY <1>2, SamePhase

\* Such a step that leaves the slots alone is none of Handover's.
LEMMA NoHandover ==
  ASSUME TypeOK, UNCHANGED slots, \A id \in Slot : PhaseOf(id)' = PhaseOf(id)
  PROVE  UNCHANGED H!vars
BY DEF slots, H!vars

\* The steps of one slot's tasks: each is one step of its handover, or none.
LEMMA SlotStepRefines ==
  ASSUME RefInv, ContractHolds', NEW id \in Slot, SlotStep(id)
  PROVE  [H!Next]_(H!vars)
<1> DEFINE lender == Lender[id]
           borrower == Borrower[id]
<1>1. lender \in Task /\ borrower \in Task /\ lender # borrower
  BY SlotAssumption
<1>2. /\ wait \in [Task -> Place]
      /\ iow \in [Slot -> Work] /\ held \in [Slot -> Hold]
      /\ TypeOK
  BY TypeParts DEF SchedType, SlotsType, RefInv
<1>3. \A i \in Slot : Safe(i)
  BY SafeSlots DEF RefInv
<1> HIDE DEF lender, borrower
<1>4. ASSUME NEW size \in Size, NEW data \in Pointer, Lend(lender, id, size, data)
      PROVE  [H!Next]_(H!vars)
  <2>1. iow' = [iow EXCEPT ![id] = [Cleared EXCEPT !.data = data, !.size = size]]
        /\ Suspend(lender, "lend", id) /\ held' = held /\ wait[lender].op = "run"
    BY <1>4 DEF Lend, Die, ContractHolds, Calls
  <2>2. Only(lender) /\ wait'[lender] = At("lend", id)
    BY <1>1, <1>2, <2>1, OnlyCaller DEF Suspend
  <2>3. \A i \in Slot \ {id} : iow'[i] = iow[i] /\ PhaseOf(i)' = PhaseOf(i)
    BY <1>1, <1>2, <2>1, <2>2, PhasesKept DEF LenderWaits, At
  <2>4. PhaseOf(id) = "idle"
    BY <1>3, <2>1, NothingLent DEF PhaseOf, LenderWaits, Safe, lender
  <2>5. /\ iow'[id].data = data /\ iow'[id].size = size
        /\ ~iow'[id].borrowed /\ ~iow'[id].disabled
    BY <1>2, <2>1 DEF Cleared
  <2>6. PhaseOf(id)' = "offered"
    BY <2>5, DataAssumption DEF PhaseOf
  <2>7. H!Offer(id, [data |-> data, size |-> size])
    BY <1>2, <2>1, <2>3, <2>4, <2>5, <2>6 DEF H!Offer, Work, Cleared
  <2> QED BY <2>7 DEF H!Next, H!Buffer
<1>5. CASE LendWaits(lender, id)
  <2>1. Only(lender) /\ UNCHANGED slots
        /\ wait[lender].op = "lend" /\ wait[lender].on = id
        /\ wait'[lender] = At("lend", id)
    BY <1>1, <1>2, <1>5, OnlyCaller DEF LendWaits, Resumed, Suspend
  <2>2. \A i \in Slot : LenderWaits(i)' <=> LenderWaits(i)
    BY <1>1, <2>1, SlotAssumption DEF LenderWaits, Only, At
  <2> QED BY <1>2, <2>1, <2>2, SamePhase, NoHandover DEF slots
<1>6. CASE LendReturns(lender, id)
  <2>1. Proceed(lender) /\ UNCHANGED slots /\ iow[id].data = NULL
        /\ wait[lender].op = "lend" /\ wait[lender].on = id
    BY <1>6 DEF LendReturns, Die, ContractHolds, Resumed
  <2>2. Only(lender) /\ wait'[lender] = Run
    BY <1>1, <1>2, <2>1, OnlyCaller DEF Proceed
  <2>3. \A i \in Slot \ {id} : PhaseOf(i)' = PhaseOf(i)
    BY <1>1, <2>1, <2>2, PhasesKept DEF LenderWaits, Run, At, slots
  <2>4. PhaseOf(id) = "returned" /\ PhaseOf(id)' = "idle"
    BY <1>3, <2>1, <2>2 DEF PhaseOf, LenderWaits, Safe, lender, Run, At, slots
  <2>5. H!Regain(id)
    BY <2>1, <2>3, <2>4 DEF H!Regain, slots
  <2> QED BY <2>5 DEF H!Next
<1>7. CASE Disable(lender, id)
  <2>1. /\ iow' = [iow EXCEPT ![id].disabled = TRUE] /\ wait' = wait
        /\ held' = held /\ wait[lender].op = "run"
    BY <1>7 DEF Disable, Calls, sched
  <2>2. iow[id].data = NULL /\ ~iow[id].borrowed
    BY <1>3, <2>1, NothingLent DEF Safe, lender
  <2>3. /\ iow'[id].data = iow[id].data /\ iow'[id].size = iow[id].size
        /\ iow'[id].borrowed = iow[id].borrowed /\ iow'[id].disabled
        /\ \A i \in Slot \ {id} : iow'[i] = iow[i]
    BY <1>2, <2>1 DEF Work
  <2>4. \A i \in Slot : LenderWaits(i)' <=> LenderWaits(i)
    BY <2>1 DEF LenderWaits
  <2>5. PhaseOf(id) = "idle" /\ PhaseOf(id)' = "idle"
    BY <2>1, <2>2, <2>3 DEF PhaseOf, LenderWaits, lender
  <2>6. \A i \in Slot : PhaseOf(i)' = PhaseOf(i)
    BY <2>3, <2>4, <2>5, SamePhase
  <2>7. H!Close(id)
    BY <1>2, <2>1, <2>3, <2>5, <2>6 DEF H!Close
  <2> QED BY <2>7 DEF H!Next
<1>8. CASE BorrowFails(borrower, id) \/ BorrowWaits(borrower, id)
  <2>1. UNCHANGED slots /\ Only(borrower)
        /\ wait[borrower].op # "lend" /\ wait'[borrower].op # "lend"
    BY <1>1, <1>2, <1>8, OnlyCaller
       DEF BorrowFails, BorrowWaits, Borrows, Calls, Resumed, Suspend, GiveUp, Run, At
  <2>2. \A i \in Slot : PhaseOf(i)' = PhaseOf(i)
    BY <1>1, <2>1, PhasesKept DEF LenderWaits, slots
  <2> QED BY <1>2, <2>1, <2>2, NoHandover
<1>9. CASE held[id].data = NULL /\ BorrowTakes(borrower, id)
  <2>1. ~iow[id].borrowed
    BY <1>3, <1>9 DEF Safe
  <2>2. /\ iow[id].data # NULL
        /\ iow' = [iow EXCEPT ![id].borrowed = TRUE]
        /\ held' = [held EXCEPT ![id] = [data |-> iow[id].data, size |-> iow[id].size]]
        /\ Proceed(borrower) /\ wait[borrower].op # "lend"
    BY <1>9, <2>1 DEF BorrowTakes, Borrows, Calls, Resumed
  <2>3. Only(borrower) /\ wait'[borrower] = Run
    BY <1>1, <1>2, <2>2, OnlyCaller DEF Proceed
  <2>4. /\ iow'[id].data = iow[id].data /\ iow'[id].size = iow[id].size
        /\ iow'[id].borrowed /\ iow'[id].disabled = iow[id].disabled
        /\ \A i \in Slot \ {id} : iow'[i] = iow[i]
    BY <1>2, <2>2 DEF Work
  <2>5. \A i \in Slot \ {id} : PhaseOf(i)' = PhaseOf(i)
    BY <1>1, <2>2, <2>3, <2>4, PhasesKept DEF LenderWaits, Run, At
  <2>6. PhaseOf(id) = "offered" /\ PhaseOf(id)' = "taken"
    BY <2>1, <2>2, <2>4 DEF PhaseOf
  <2>7. H!Take(id)
    BY <1>2, <2>2, <2>4, <2>5, <2>6 DEF H!Take
  <2> QED BY <2>7 DEF H!Next
<1>10. CASE held[id].data # NULL /\ Return(borrower, id, held[id].data, held[id].size)
  <2>1. iow[id].borrowed /\ iow[id].data # NULL /\ LenderWaits(id) /\ ~iow[id].disabled
    BY <1>3, <1>10 DEF Safe, RefInv, OpenWhileLent
  <2>2. /\ iow' = [iow EXCEPT ![id] = Cleared]
        /\ held' = [held EXCEPT ![id] = Empty]
        /\ Proceed(borrower) /\ wait[borrower].op # "lend"
    BY <1>10 DEF Return, Die, ContractHolds, Calls
  <2>3. Only(borrower) /\ wait'[borrower] = Run
    BY <1>1, <1>2, <2>2, OnlyCaller DEF Proceed
  <2>4. iow'[id] = Cleared /\ \A i \in Slot \ {id} : iow'[i] = iow[i]
    BY <1>2, <2>2
  <2>5. \A i \in Slot \ {id} : PhaseOf(i)' = PhaseOf(i)
    BY <1>1, <2>2, <2>3, <2>4, PhasesKept DEF LenderWaits, Run, At
  <2>6. LenderWaits(id)'
    BY <1>1, <2>1, <2>3 DEF LenderWaits, Only, lender
  <2>7. PhaseOf(id) = "taken" /\ PhaseOf(id)' = "returned"
    BY <2>1, <2>4, <2>6 DEF PhaseOf, Cleared
  <2>8. H!GiveBack(id)
    BY <1>2, <2>1, <2>2, <2>4, <2>5, <2>7 DEF H!GiveBack, H!NoBuffer, Cleared, Empty, Work
  <2> QED BY <2>8 DEF H!Next
<1> QED BY <1>4, <1>5, <1>6, <1>7, <1>8, <1>9, <1>10
        DEF SlotStep, lender, borrower

\* I/O, an ending and the event loop are no steps of a handover.
LEMMA OtherStepRefines ==
  ASSUME RefInv, (\E t \in Task : TaskStep(t)) \/ IoLoopStep
  PROVE  UNCHANGED H!vars
<1>1. wait \in [Task -> Place] /\ TypeOK
  BY TypeParts DEF SchedType, RefInv
<1>2. ASSUME NEW t \in Task, UNCHANGED slots, wait[t].op # "lend",
             \/ \E op \in Ops \ {"lend"} : \E on : Suspend(t, op, on)
             \/ Proceed(t) \/ Exit(t) \/ \E how : Die(how)
      PROVE  UNCHANGED H!vars
  <2>1. Only(t) /\ wait'[t].op # "lend"
    BY <1>1, <1>2, OnlyCaller DEF Suspend, Proceed, Exit, Die, At, Run
  <2>2. \A id \in Slot : PhaseOf(id)' = PhaseOf(id)
    BY <1>2, <2>1, PhasesKept DEF LenderWaits, slots
  <2> QED BY <1>1, <1>2, <2>2, NoHandover
<1>3. ASSUME NEW t \in Task, TaskStep(t) PROVE UNCHANGED H!vars
  BY <1>2, <1>3 DEF TaskStep, IoWaits, IoAgain, IoDone, AtIo, Finish, Quit,
                    Calls, Resumed, Ops
<1>4. ASSUME NEW ready, NextRound(ready), wait[IoLoop].op # "lend"
      PROVE  UNCHANGED H!vars
  BY <1>2, <1>4, TaskAssumption DEF NextRound, Surrender, Ops
<1>5. CASE IoLoopStarts \/ \E ready \in SUBSET scheduled : SelectReports(ready)
  BY <1>4, <1>5 DEF IoLoopStarts, SelectReports, Selecting, Calls, Resumed
<1>6. CASE SelectTimesOut \/ SelectFails
  BY <1>2, <1>6, TaskAssumption
     DEF SelectTimesOut, SelectFails, Surrender, Selecting, Resumed
<1>7. CASE IoLoopResumes
  <2>1. CASE scheduled = {}
    BY <1>4, <1>7, <2>1 DEF IoLoopResumes, Resumed
  <2>2. CASE scheduled # {}
    <3>1. /\ Only(IoLoop) /\ UNCHANGED slots
          /\ wait[IoLoop].op # "lend" /\ wait'[IoLoop].op # "lend"
      BY <1>1, <1>7, <2>2, TaskAssumption DEF IoLoopResumes, Resumed, Only, At
    <3>2. \A id \in Slot : PhaseOf(id)' = PhaseOf(id)
      BY <3>1, PhasesKept, TaskAssumption DEF LenderWaits, slots
    <3> QED BY <1>1, <3>1, <3>2, NoHandover
  <2> QED BY <2>1, <2>2
<1> QED BY <1>3, <1>5, <1>6, <1>7 DEF IoLoopStep

\* Nothing is offered at the start.
LEMMA InitRefines == SusInit => H!Init /\ RefInv
<1> SUFFICES ASSUME SusInit PROVE H!Init /\ RefInv
  OBVIOUS
<1>1. RefInv
  BY InitType, InitSafe DEF SusInit, RefInv, ContractHolds, OpenWhileLent, Cleared
<1>2. \A id \in Slot : PhaseOf(id) = "idle"
  BY SlotAssumption DEF SusInit, PhaseOf, LenderWaits, Cleared, Run, At
<1>3. H!Init
  BY <1>2 DEF SusInit, H!Init, H!NoBuffer, Cleared, Empty
<1> QED BY <1>1, <1>3

\* Every step of the runtime is one of Handover or changes nothing of it.
LEMMA StepRefines == RefInv /\ RefInv' /\ [SusNext]_vars => [H!Next]_(H!vars)
<1> SUFFICES ASSUME RefInv, RefInv', [SusNext]_vars PROVE [H!Next]_(H!vars)
  OBVIOUS
<1>1. CASE SusNext
  BY <1>1, SlotStepRefines, OtherStepRefines DEF SusNext, RefInv
<1>2. CASE UNCHANGED vars
  <2>1. UNCHANGED slots /\ wait' = wait
    BY <1>2 DEF vars, sched
  <2>2. \A id \in Slot : PhaseOf(id)' = PhaseOf(id)
    BY <2>1, SamePhase DEF LenderWaits, slots
  <2> QED BY <2>1, <2>2, NoHandover DEF RefInv
<1> QED BY <1>1, <1>2

(***************************************************************************)
(* The runtime implements Handover: sus_lend, sus_borrow, sus_return and   *)
(* sus_disable, whatever other tasks do between them, are the offer, the   *)
(* taking, the return and the closing of one buffer at a time, and sus_lend *)
(* returns only after the return.                                          *)
(***************************************************************************)
THEOREM ImplementsHandover == SusSpec => HandoverSpec
<1>1. SusInit => H!Init /\ RefInv
  BY InitRefines
<1>2. RefInv /\ [SusNext]_vars => RefInv'
  BY StepType, StepSafe, StepContract, StepOpen DEF RefInv
<1>3. RefInv /\ RefInv' /\ [SusNext]_vars => [H!Next]_(H!vars)
  BY StepRefines
<1> QED BY <1>1, <1>2, <1>3, PTL DEF SusSpec, HandoverSpec, H!Spec

=============================================================================
