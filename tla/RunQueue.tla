------------------------------ MODULE RunQueue ------------------------------
(***************************************************************************)
(* What the scheduler of multitasking/ promises about turns.  sus_runall   *)
(* keeps its tasks in a ring (contextring.c) and gives the turn to the     *)
(* task under the cursor; here the ring is the sequence of its tasks, read *)
(* from the cursor along the `next' pointers, so Head(queue) is the task   *)
(* that has the processor.                                                 *)
(***************************************************************************)
EXTENDS Naturals, Sequences

CONSTANT Task

VARIABLE queue

\* The ring seen from the node after the cursor: `s_current = s_current->next'.
Rotated(q) == Append(Tail(q), Head(q))

\* insert() links the new node after the cursor and moves the cursor to it.
Insert(t) ==
  /\ \A i \in 1..Len(queue) : queue[i] # t
  /\ queue' = IF queue = <<>> THEN <<t>> ELSE <<t>> \o Rotated(queue)

\* The turn passes: coro_transfer(&s_end) and the step of sus_runall's loop.
Switch ==
  /\ queue # <<>>
  /\ queue' = Rotated(queue)

(***************************************************************************)
(* A task ends.  shrink() unlinks it and already leaves the cursor on its  *)
(* successor; sus_runall's loop then steps once more, so the successor is  *)
(* passed over in this round.                                              *)
(***************************************************************************)
Leave ==
  /\ queue # <<>>
  /\ queue' = IF Len(queue) = 1 THEN <<>> ELSE Rotated(Tail(queue))

RunQueueInit == queue = <<>>

RunQueueNext == Switch \/ Leave \/ \E t \in Task : Insert(t)

RunQueueSpec == RunQueueInit /\ [][RunQueueNext]_queue

=============================================================================
