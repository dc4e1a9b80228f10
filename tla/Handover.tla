------------------------------ MODULE Handover ------------------------------
(***************************************************************************)
(* What a slot of the runtime promises its two tasks, without turns,       *)
(* suspensions or asserts: a buffer is offered, taken, given back, and     *)
(* only then does its owner go on.  From the offer to the return nothing   *)
(* changes what the slot holds, the taker sees exactly what was offered,   *)
(* and the owner closes the slot only between two handovers.               *)
(***************************************************************************)
EXTENDS Integers

CONSTANTS Slot, Pointer, NULL, Size

VARIABLES
  phase,      \* "idle", "offered", "taken" or "returned"
  content,    \* the buffer in the slot
  seen,       \* the buffer its borrower works on
  closed      \* no further buffer is to be expected

vars == <<phase, content, seen, closed>>

Buffer == [data : Pointer, size : Size]
NoBuffer == [data |-> NULL, size |-> 0]

Init ==
  /\ phase = [id \in Slot |-> "idle"]
  /\ content = [id \in Slot |-> NoBuffer]
  /\ seen = [id \in Slot |-> NoBuffer]
  /\ closed = [id \in Slot |-> FALSE]

\* Offering a buffer opens a closed slot again.
Offer(id, buffer) ==
  /\ phase[id] = "idle"
  /\ phase' = [phase EXCEPT ![id] = "offered"]
  /\ content' = [content EXCEPT ![id] = buffer]
  /\ closed' = [closed EXCEPT ![id] = FALSE]
  /\ UNCHANGED seen

Take(id) ==
  /\ phase[id] = "offered"
  /\ phase' = [phase EXCEPT ![id] = "taken"]
  /\ seen' = [seen EXCEPT ![id] = content[id]]
  /\ UNCHANGED <<content, closed>>

GiveBack(id) ==
  /\ phase[id] = "taken"
  /\ phase' = [phase EXCEPT ![id] = "returned"]
  /\ content' = [content EXCEPT ![id] = NoBuffer]
  /\ seen' = [seen EXCEPT ![id] = NoBuffer]
  /\ UNCHANGED closed

\* The owner learns that its buffer is its own again.
Regain(id) ==
  /\ phase[id] = "returned"
  /\ phase' = [phase EXCEPT ![id] = "idle"]
  /\ UNCHANGED <<content, seen, closed>>

Close(id) ==
  /\ phase[id] = "idle"
  /\ closed' = [closed EXCEPT ![id] = TRUE]
  /\ UNCHANGED <<phase, content, seen>>

Next ==
  \E id \in Slot :
    \/ \E buffer \in Buffer : Offer(id, buffer)
    \/ Take(id)
    \/ GiveBack(id)
    \/ Regain(id)
    \/ Close(id)

Spec == Init /\ [][Next]_vars

=============================================================================
