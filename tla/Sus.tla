-------------------------------- MODULE Sus --------------------------------
(***************************************************************************)
(* The cooperative runtime of multitasking/suspendables.c, for any set of  *)
(* tasks.  Only the task at the head of `queue' runs; it keeps the         *)
(* processor until a sus_ call suspends it, so a step is what one task     *)
(* does inside one sus_ call up to its suspension or its return.  What the *)
(* tasks do between calls is left to the module that composes them         *)
(* (Frobd); here every call their side of the contract allows may come     *)
(* next.                                                                   *)
(*                                                                         *)
(* A slot is lent by one task and borrowed by one other, as main.c wires   *)
(* them.                                                                   *)
(***************************************************************************)
EXTENDS RunQueue, Integers, FiniteSets

CONSTANTS
  IoLoop,             \* the task that runs sus_ioloop
  Slot,               \* the indices of s_iow[] in use
  Lender, Borrower,   \* [Slot -> Task]: who lends and who borrows a slot
  Pointer, NULL,      \* addresses of lent buffers, and the null pointer
  Size,               \* lengths passed to sus_lend (size_t read as ssize_t)
  Fd,                 \* file descriptors
  VisitLimit          \* suspensions in a row before suspend() aborts (100)

ASSUME TaskAssumption == IsFiniteSet(Task) /\ IoLoop \in Task
ASSUME SlotAssumption ==
  /\ Lender \in [Slot -> Task \ {IoLoop}]
  /\ Borrower \in [Slot -> Task \ {IoLoop}]
  /\ \A id \in Slot : Lender[id] # Borrower[id]
ASSUME DataAssumption == NULL \notin Pointer /\ Size \subseteq Int
ASSUME LimitAssumption == VisitLimit \in Nat

VARIABLES
  visited,     \* s_current->visited, per task
  wait,        \* where each task is: in its own code, or inside which call
  iow,         \* s_iow[]: data, size, borrowed, disabled
  held,        \* what sus_borrow last gave the borrower and is not returned
  scheduled,   \* s_iop.scheduled: the events asked for in this round
  active,      \* s_iop.active: the events select reported for this round
  surrended,   \* s_io_surrended
  process      \* "up", or how it ended: "EDEADLK" and "assert" are aborts in
               \* the runtime's asserts, "abort" and "exit" are the tasks'

sched == <<queue, visited, wait, process>>
slots == <<iow, held>>
io    == <<scheduled, active, surrended>>
vars  == <<sched, slots, io>>

Event == {"read", "write"} \X Fd

Empty == [data |-> NULL, size |-> 0]                    \* no buffer
Cleared == [data |-> NULL, size |-> 0, borrowed |-> FALSE, disabled |-> FALSE]

At(op, on) == [op |-> op, on |-> on]
Run == At("run", NULL)                                  \* in its own code

Ops == {"run", "lend", "borrow", "io", "again", "iowait", "select", "exit"}

TypeOK ==
  /\ queue \in Seq(Task)
  /\ visited \in [Task -> Nat]
  /\ wait \in [Task -> [op : Ops, on : Slot \cup Event \cup {NULL}]]
  /\ iow \in [Slot -> [data : Pointer \cup {NULL}, size : Size \cup {0},
                       borrowed : BOOLEAN, disabled : BOOLEAN]]
  /\ held \in [Slot -> [data : Pointer \cup {NULL}, size : Size \cup {0}]]
  /\ scheduled \subseteq Event
  /\ active \subseteq Event
  /\ surrended \in BOOLEAN
  /\ process \in {"up", "EDEADLK", "assert", "abort", "exit"}

\* main.c's array in any order: the scheduler promises not to depend on it.
Orders == {q \in [1..Cardinality(Task) -> Task] :
             \A i, j \in DOMAIN q : q[i] = q[j] => i = j}

SusInit ==
  /\ queue \in Orders
  /\ visited = [t \in Task |-> 0]
  /\ wait = [t \in Task |-> Run]
  /\ iow = [id \in Slot |-> Cleared]
  /\ held = [id \in Slot |-> Empty]
  /\ scheduled = {}
  /\ active = {}
  /\ surrended = FALSE
  /\ process = "up"

-----------------------------------------------------------------------------
(* Turns *)

Running(t) == process = "up" /\ queue # <<>> /\ Head(queue) = t
Calls(t) == Running(t) /\ wait[t].op = "run"
Resumed(t, op, on) == Running(t) /\ wait[t].op = op /\ wait[t].on = on

\* suspend(): the turn passes, unless the task came here too often in a row.
Suspend(t, op, on) ==
  /\ wait' = [wait EXCEPT ![t] = At(op, on)]
  /\ IF visited[t] < VisitLimit
       THEN /\ visited' = [visited EXCEPT ![t] = @ + 1]
            /\ Switch
            /\ UNCHANGED process
       ELSE /\ process' = "EDEADLK"
            /\ UNCHANGED <<visited, queue>>

\* A call returns to its task, which is not in a deadlock.
Proceed(t) ==
  /\ wait' = [wait EXCEPT ![t] = Run]
  /\ visited' = [visited EXCEPT ![t] = 0]
  /\ UNCHANGED <<queue, process>>

\* A call gives up: it returns -1 and leaves `visited' as it is.
GiveUp(t) ==
  /\ wait' = [wait EXCEPT ![t] = Run]
  /\ UNCHANGED <<visited, queue, process>>

\* The process ends here.
Die(how) ==
  /\ process' = how
  /\ UNCHANGED <<queue, visited, wait>>

\* sus_exit(): the task's entry point returned.
Exit(t) ==
  /\ wait' = [wait EXCEPT ![t] = At("exit", NULL)]
  /\ Leave
  /\ UNCHANGED <<visited, process>>

Finish(t) == Calls(t) /\ t # IoLoop /\ Exit(t) /\ UNCHANGED <<slots, io>>

\* The process ends in a task's own code: exit(3), or an assert of its own.
Quit(t, how) == Calls(t) /\ Die(how) /\ UNCHANGED <<slots, io>>

-----------------------------------------------------------------------------
(* Slots *)

\* The asserts sus_lend starts with.
Lendable(id) == ~iow[id].borrowed /\ iow[id].data = NULL /\ iow[id].size = 0

\* Slips: the address and the length swapped; the old flags kept.
LendSwapped(t, id, size, data) ==
  /\ Calls(t)
  /\ IF Lendable(id)
       THEN /\ iow' = [iow EXCEPT ![id] = [Cleared EXCEPT !.data = size,
                                                          !.size = data]]
            /\ Suspend(t, "lend", id)
       ELSE Die("assert") /\ UNCHANGED iow
  /\ UNCHANGED <<held, io>>

LendKeepsFlags(t, id, size, data) ==
  /\ Calls(t)
  /\ IF Lendable(id)
       THEN /\ iow' = [iow EXCEPT ![id].data = data, ![id].size = size]
            /\ Suspend(t, "lend", id)
       ELSE Die("assert") /\ UNCHANGED iow
  /\ UNCHANGED <<held, io>>

\* sus_lend: the whole struct is written, `disabled' and `borrowed' included.
Lend(t, id, size, data) ==
  /\ Calls(t)
  /\ IF Lendable(id)
       THEN /\ iow' = [iow EXCEPT ![id] = [Cleared EXCEPT !.data = data,
                                                          !.size = size]]
            /\ Suspend(t, "lend", id)
       ELSE Die("assert") /\ UNCHANGED iow
  /\ UNCHANGED <<held, io>>

\* The buffer is still out: sus_lend suspends again.
LendWaits(t, id) ==
  /\ Resumed(t, "lend", id)
  /\ iow[id].data # NULL
  /\ Suspend(t, "lend", id)
  /\ UNCHANGED <<slots, io>>

\* Slip: an if where the code has a while.
LendReturnsEarly(t, id) ==
  /\ Resumed(t, "lend", id)
  /\ Proceed(t)
  /\ UNCHANGED <<slots, io>>

\* The buffer came back: sus_lend checks that it did so entirely and returns.
LendReturns(t, id) ==
  /\ Resumed(t, "lend", id)
  /\ iow[id].data = NULL
  /\ IF iow[id].size = 0 THEN Proceed(t) ELSE Die("assert")
  /\ UNCHANGED <<slots, io>>

\* Inside sus_borrow, past its assert: called just now, or resumed.
Borrows(t, id) ==
  \/ Calls(t) /\ ~iow[id].borrowed
  \/ Resumed(t, "borrow", id)

\* A call on a disabled slot fails at once; a waiting one only if it is empty.
BorrowFails(t, id) ==
  /\ Borrows(t, id)
  /\ iow[id].disabled
  /\ wait[t].op = "run" \/ iow[id].data = NULL
  /\ GiveUp(t)
  /\ UNCHANGED <<slots, io>>

BorrowWaits(t, id) ==
  /\ Borrows(t, id)
  /\ iow[id].data = NULL
  /\ ~iow[id].disabled
  /\ Suspend(t, "borrow", id)
  /\ UNCHANGED <<slots, io>>

\* Slip: the slot is not marked as borrowed.
BorrowTakesUnmarked(t, id) ==
  /\ Borrows(t, id)
  /\ iow[id].data # NULL
  /\ wait[t].op = "run" => ~iow[id].disabled
  /\ held' = [held EXCEPT ![id] = [data |-> iow[id].data,
                                  size |-> iow[id].size]]
  /\ Proceed(t)
  /\ UNCHANGED <<iow, io>>

\* The buffer is handed over, or the assert sus_borrow starts with fails.
BorrowTakes(t, id) ==
  /\ IF Calls(t) /\ iow[id].borrowed
       THEN Die("assert") /\ UNCHANGED slots
       ELSE /\ Borrows(t, id)
            /\ iow[id].data # NULL
            /\ wait[t].op = "run" => ~iow[id].disabled
            /\ iow' = [iow EXCEPT ![id].borrowed = TRUE]
            /\ held' = [held EXCEPT ![id] = [data |-> iow[id].data,
                                            size |-> iow[id].size]]
            /\ Proceed(t)
  /\ UNCHANGED io

\* The asserts of sus_return.
Returnable(id, data, size) ==
  /\ iow[id].borrowed
  /\ iow[id].data # NULL
  /\ iow[id].data = data
  /\ iow[id].size = size

\* Slip: only the address is cleared.
ReturnKeepsSize(t, id, data, size) ==
  /\ Calls(t)
  /\ IF Returnable(id, data, size)
       THEN /\ iow' = [iow EXCEPT ![id].data = NULL, ![id].borrowed = FALSE]
            /\ held' = [held EXCEPT ![id] = Empty]
            /\ Proceed(t)
       ELSE Die("assert") /\ UNCHANGED slots
  /\ UNCHANGED io

\* sus_return: the borrower goes on, the lender wakes up in its next turn.
Return(t, id, data, size) ==
  /\ Calls(t)
  /\ IF Returnable(id, data, size)
       THEN /\ iow' = [iow EXCEPT ![id] = Cleared]
            /\ held' = [held EXCEPT ![id] = Empty]
            /\ Proceed(t)
       ELSE Die("assert") /\ UNCHANGED slots
  /\ UNCHANGED io

\* sus_disable: no suspension, `visited' stays.
Disable(t, id) ==
  /\ Calls(t)
  /\ iow' = [iow EXCEPT ![id].disabled = TRUE]
  /\ UNCHANGED <<sched, held, io>>

-----------------------------------------------------------------------------
(* Reading and writing *)

\* Inside sus_read or sus_write for event e, at suspend_until_active.
AtIo(t, e) ==
  \/ Calls(t)
  \/ Resumed(t, "io", e)
  \/ Resumed(t, "again", e)

\* suspend_until_active returns; after the surrender whatever the event.
MayTry(e) == surrended \/ e \in active

\* The event is asked for, in this round only.
IoWaits(t, e) ==
  /\ AtIo(t, e)
  /\ ~MayTry(e)
  /\ scheduled' = scheduled \cup {e}
  /\ Suspend(t, "io", e)
  /\ UNCHANGED <<slots, active, surrended>>

\* The system call answers EAGAIN: suspended without asking for the event.
IoAgain(t, e) ==
  /\ AtIo(t, e)
  /\ MayTry(e)
  /\ Suspend(t, "again", e)
  /\ UNCHANGED <<slots, io>>

\* Any other answer is the call's; only sus_read takes the event away.
IoDone(t, e) ==
  /\ AtIo(t, e)
  /\ MayTry(e)
  /\ active' = IF e[1] = "read" THEN active \ {e} ELSE active
  /\ Proceed(t)
  /\ UNCHANGED <<slots, scheduled, surrended>>

-----------------------------------------------------------------------------
(* sus_ioloop *)

\* Every descriptor is closed, later I/O fails at once, the task ends.
Surrender ==
  /\ surrended' = TRUE
  /\ Exit(IoLoop)
  /\ UNCHANGED <<slots, scheduled, active>>

\* Slip: what was asked for in earlier rounds stays in the set.
NextRoundKeeps(ready) ==
  IF Len(queue) = 1
    THEN Surrender
    ELSE /\ active' = ready
         /\ Suspend(IoLoop, "iowait", NULL)
         /\ UNCHANGED <<slots, scheduled, surrended>>

\* The top of its loop: a new round with the events select reported.
NextRound(ready) ==
  IF Len(queue) = 1
    THEN Surrender
    ELSE /\ active' = ready
         /\ scheduled' = {}
         /\ Suspend(IoLoop, "iowait", NULL)
         /\ UNCHANGED <<slots, surrended>>

IoLoopStarts == Calls(IoLoop) /\ NextRound({})

(***************************************************************************)
(* Back from "iowait": `goto again' if no task asked for an event in this  *)
(* round, otherwise the process enters select(2).                          *)
(***************************************************************************)
IoLoopResumes ==
  /\ Resumed(IoLoop, "iowait", NULL)
  /\ IF scheduled = {}
       THEN NextRound({})
       ELSE /\ wait' = [wait EXCEPT ![IoLoop] = At("select", NULL)]
            /\ UNCHANGED <<queue, visited, process, slots, io>>

Selecting == Resumed(IoLoop, "select", NULL)

\* select(2) returns the ready ones among the events it was given.
SelectReports(ready) ==
  /\ Selecting
  /\ ready # {} /\ ready \subseteq scheduled
  /\ NextRound(ready)

\* It returns 0: the deadline has passed, or the loop was told to poll.
SelectTimesOut == Selecting /\ Surrender

\* It fails, on a closed descriptor for one: xselect leaves the program.
SelectFails == Selecting /\ Die("exit") /\ UNCHANGED <<slots, io>>

-----------------------------------------------------------------------------
(***************************************************************************)
(* The tasks' side of the contract: each slot is lent and disabled by its  *)
(* lender, borrowed by its borrower when it holds nothing of it, and       *)
(* returned as it was borrowed.                                            *)
(***************************************************************************)
SlotStep(id) ==
  \/ \E size \in Size, data \in Pointer : Lend(Lender[id], id, size, data)
  \/ LendWaits(Lender[id], id)
  \/ LendReturns(Lender[id], id)
  \/ Disable(Lender[id], id)
  \/ /\ held[id].data = NULL
     /\ \/ BorrowFails(Borrower[id], id)
        \/ BorrowWaits(Borrower[id], id)
        \/ BorrowTakes(Borrower[id], id)
  \/ /\ held[id].data # NULL
     /\ Return(Borrower[id], id, held[id].data, held[id].size)

TaskStep(t) ==
  \/ \E e \in Event : IoWaits(t, e) \/ IoAgain(t, e) \/ IoDone(t, e)
  \/ Finish(t)
  \/ \E how \in {"exit", "abort"} : Quit(t, how)

IoLoopStep ==
  \/ IoLoopStarts
  \/ IoLoopResumes
  \/ \E ready \in SUBSET scheduled : SelectReports(ready)
  \/ SelectTimesOut
  \/ SelectFails

SusNext ==
  \/ \E id \in Slot : SlotStep(id)
  \/ \E t \in Task \ {IoLoop} : TaskStep(t)
  \/ IoLoopStep

SusSpec == SusInit /\ [][SusNext]_vars

-----------------------------------------------------------------------------
(* Properties *)

\* The lender of a buffer is inside sus_lend for as long as the buffer is out.
LenderWaits(id) == wait[Lender[id]].op = "lend" /\ wait[Lender[id]].on = id

(***************************************************************************)
(* A buffer is read only while its owner stands still.  What a borrower    *)
(* holds is what is lent in the slot, byte for byte as long, and the       *)
(* lender is inside sus_lend until it is given back: the borrower never    *)
(* reads a buffer its owner already fills again (sus_lend's while loop,    *)
(* sus_return's clearing of the slot).                                     *)
(***************************************************************************)
HandoverSafe ==
  \A id \in Slot :
    /\ iow[id].data # NULL => LenderWaits(id)
    /\ iow[id].data = NULL => iow[id].size = 0 /\ ~iow[id].borrowed
    /\ iow[id].borrowed <=> held[id].data # NULL
    /\ iow[id].borrowed => /\ held[id].data = iow[id].data
                           /\ held[id].size = iow[id].size

(***************************************************************************)
(* A buffer that is lent is not refused: sus_borrow fails on a disabled    *)
(* slot without a look at it, so a slot with a buffer in it must be open.  *)
(* sus_disable comes only between two loans and sus_lend opens the slot.   *)
(***************************************************************************)
OpenWhileLent == \A id \in Slot : iow[id].data # NULL => ~iow[id].disabled

(***************************************************************************)
(* One lender and one borrower per slot, in whatever order the scheduler   *)
(* runs them, never fail an assert of sus_lend, sus_borrow or sus_return.  *)
(***************************************************************************)
ContractHolds == process # "assert"

(***************************************************************************)
(* An event is not watched in vain: until the surrender, what is scheduled *)
(* was not yet reported in this round, and a task is suspended in sus_read *)
(* or sus_write for it.  A descriptor a task is done with (and may close)  *)
(* is thus never given to select(2).                                       *)
(***************************************************************************)
WatchedHaveWaiters ==
  ~surrended =>
    /\ scheduled \cap active = {}
    /\ \A e \in scheduled :
         \E t \in Task \ {IoLoop} : wait[t].op = "io" /\ wait[t].on = e

(***************************************************************************)
(* A slot is a handover of one buffer at a time (Handover): its phase, what *)
(* is in it and what its reader sees are read off s_iow and the suspended  *)
(* calls.                                                                  *)
(***************************************************************************)
PhaseOf(id) ==
  CASE iow[id].borrowed -> "taken"
    [] ~iow[id].borrowed /\ iow[id].data # NULL -> "offered"
    [] iow[id].data = NULL /\ LenderWaits(id) -> "returned"
    [] OTHER -> "idle"

H == INSTANCE Handover WITH
       phase <- [id \in Slot |-> PhaseOf(id)],
       content <- [id \in Slot |-> [data |-> iow[id].data, size |-> iow[id].size]],
       seen <- held,
       closed <- [id \in Slot |-> iow[id].disabled]

\* Every slot of the runtime behaves as a Handover, for all task behaviours.
HandoverSpec == H!Spec

=============================================================================
