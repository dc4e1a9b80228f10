---------------------------- MODULE ContextRing ----------------------------
(***************************************************************************)
(* The ring of coroutine contexts (contextring.c) under the loop of        *)
(* sus_runall (suspendables.c), pointer by pointer.  A node is named by    *)
(* the task it was made for.  sus_runall inserts its array, then gives the *)
(* turn to the node under s_current: that task either suspends or ends.    *)
(*                                                                         *)
(* `since' is no state of the program: it counts, for each task, the turns *)
(* of every task and the endings since its own last turn, to say what      *)
(* "round-robin" means.                                                    *)
(***************************************************************************)
EXTENDS Naturals, Sequences

CONSTANTS Order,   \* the tasks in the order of main.c's array
          NULL

ASSUME OrderAssumption ==
  /\ Order \in Seq(STRING) /\ Order # <<>>
  /\ \A i, j \in DOMAIN Order : Order[i] = Order[j] => i = j

Node == {Order[i] : i \in DOMAIN Order}
ASSUME PointerAssumption == NULL \notin Node

VARIABLES
  next, prev,   \* the links of every node made so far
  cursor,       \* s_current
  inserted,     \* how many of the array are inserted
  since         \* history, see above

vars == <<next, prev, cursor, inserted, since>>

Fresh == [turns |-> [u \in Node |-> 0], ends |-> 0]

TypeOK ==
  /\ next \in [Node -> Node \cup {NULL}]
  /\ prev \in [Node -> Node \cup {NULL}]
  /\ cursor \in Node \cup {NULL}
  /\ inserted \in 0..Len(Order)
  /\ since \in [Node -> [turns : [Node -> Nat], ends : Nat]]

Init ==
  /\ next = [n \in Node |-> NULL]
  /\ prev = [n \in Node |-> NULL]
  /\ cursor = NULL
  /\ inserted = 0
  /\ since = [n \in Node |-> Fresh]

\* The node k steps after the cursor.
Hop[k \in 0..Len(Order)] == IF k = 0 THEN cursor ELSE next[Hop[k - 1]]

\* The ring read from the cursor until it closes.
Chain ==
  IF cursor = NULL THEN <<>>
  ELSE LET Closes(k) == Hop[k] = cursor /\ \A j \in 1..(k - 1) : Hop[j] # cursor
           length == CHOOSE k \in 1..Len(Order) : Closes(k)
       IN  [k \in 1..length |-> Hop[k - 1]]

InRing == {Chain[k] : k \in DOMAIN Chain}

\* Slip: the cursor stays where it was.
insertBehind(n) ==
  /\ IF cursor = NULL
       THEN /\ next' = [next EXCEPT ![n] = n]
            /\ prev' = [prev EXCEPT ![n] = n]
       ELSE /\ next' = [next EXCEPT ![n] = next[cursor], ![cursor] = n]
            /\ prev' = [prev EXCEPT ![n] = cursor, ![next[cursor]] = n]
  /\ cursor' = IF cursor = NULL THEN n ELSE cursor

\* insert(): the new node goes between the cursor and the cursor's successor.
insert(n) ==
  /\ IF cursor = NULL
       THEN /\ next' = [next EXCEPT ![n] = n]
            /\ prev' = [prev EXCEPT ![n] = n]
       ELSE /\ next' = [next EXCEPT ![n] = next[cursor], ![cursor] = n]
            /\ prev' = [prev EXCEPT ![n] = cursor, ![next[cursor]] = n]
  /\ cursor' = n

\* Slip: the successor's back link is left as it was.
UnlinkedPrevStale == prev

\* What shrink() leaves in the links, and where it leaves the cursor.
Alone == next[cursor] = cursor
UnlinkedNext == [next EXCEPT ![prev[cursor]] = next[cursor]]
UnlinkedPrev == [prev EXCEPT ![next[cursor]] = prev[cursor]]

Loading == inserted < Len(Order)

\* Slip: one slot of the array is skipped.
LoadTwice ==
  /\ Loading
  /\ insert(Order[inserted + 1])
  /\ inserted' = inserted + 2
  /\ UNCHANGED since

Load ==
  /\ Loading
  /\ insert(Order[inserted + 1])
  /\ inserted' = inserted + 1
  /\ UNCHANGED since

\* The turn goes to task n, of the tasks left, and `ends' ended on the way.
Turn(n, left, ends) ==
  since' = [m \in Node |->
              IF m = n \/ m \notin left THEN Fresh
              ELSE [turns |-> [since[m].turns EXCEPT ![n] = @ + 1],
                    ends |-> since[m].ends + ends]]

\* Slip: the loop steps twice.
SuspendsTwice ==
  /\ ~Loading /\ cursor # NULL
  /\ cursor' = next[next[cursor]]
  /\ Turn(next[next[cursor]], InRing, 0)
  /\ UNCHANGED <<next, prev, inserted>>

\* The task under the cursor suspends, the loop moves on.
Suspends ==
  /\ ~Loading /\ cursor # NULL
  /\ cursor' = next[cursor]
  /\ Turn(next[cursor], InRing, 0)
  /\ UNCHANGED <<next, prev, inserted>>

\* It ends instead: shrink() moves the cursor, and then so does the loop.
Ends ==
  /\ ~Loading /\ cursor # NULL
  /\ IF Alone
       THEN cursor' = NULL /\ UNCHANGED <<next, prev, since>>
       ELSE /\ next' = UnlinkedNext
            /\ prev' = UnlinkedPrev
            /\ cursor' = next'[next[cursor]]
            /\ Turn(cursor', InRing \ {cursor}, 1)
  /\ UNCHANGED inserted

Next == Load \/ Suspends \/ Ends

Spec == Init /\ [][Next]_vars

-----------------------------------------------------------------------------
(* Properties *)

(***************************************************************************)
(* The ring is doubly linked and closed: from the cursor the links lead    *)
(* back to it, each node once, and prev undoes next (ut.c.t checks the     *)
(* same for one fixed ring; here after any inserts, turns and endings).    *)
(***************************************************************************)
RingIntact ==
  cursor # NULL =>
    /\ \E k \in 1..Len(Order) : Hop[k] = cursor
    /\ \A m, n \in DOMAIN Chain : Chain[m] = Chain[n] => m = n
    /\ \A n \in InRing : prev[next[n]] = n /\ next[prev[n]] = n

\* The pointers implement the sequence of tasks that Sus schedules with.
Queue == INSTANCE RunQueue WITH Task <- Node, queue <- Chain
RunQueueSpec == Queue!RunQueueSpec

(***************************************************************************)
(* No task gets ahead of another by more than the endings explain: between *)
(* two turns of a task, any other has at most one turn more than tasks     *)
(* ended meanwhile.  It is not the plain round-robin of sus.h:31 : shrink   *)
(* and the loop of sus_runall both step past the successor of an ending.   *)
(***************************************************************************)
BoundedBypass ==
  \A t, u \in InRing : t # u => since[t].turns[u] <= since[t].ends + 1

=============================================================================
