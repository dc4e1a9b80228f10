------------------------------- MODULE Frame -------------------------------
(***************************************************************************)
(* frame.rl: the machine that finds a frame among the bytes of a read.  It *)
(* keeps its state from one call to the next, while start and end are of   *)
(* one call.  A byte is a member of a small alphabet in which "ok" is an   *)
(* LRC that matches and every other byte in its place is one that does not.*)
(***************************************************************************)
EXTENDS Naturals, Sequences, SequencesExt

\* main := (any-stx)* frame any*
Step(cs, byte) ==
  CASE cs = "main"  -> IF byte = "stx" THEN "first" ELSE "main"
    [] cs = "first" -> IF byte = "etx" THEN "error" ELSE "data"
    [] cs = "data"  -> IF byte = "etx" THEN "lrc" ELSE "data"
    [] cs \in {"lrc", "final"} -> "final"

\* One byte with its actions.  LRC_Check leaves the machine, and so does an error.
Scanned(bytes, m, i) ==
  IF m.error \/ m.cs = "error" THEN m
  ELSE LET cs == Step(m.cs, bytes[i])
       IN  [cs    |-> cs,
            start |-> IF m.cs = "first" /\ cs = "data" THEN i ELSE m.start,
            end   |-> IF cs = "lrc" THEN i ELSE m.end,
            error |-> m.cs = "lrc" /\ bytes[i] # "ok"]

\* Positions count from 1; end = 0 is the null pointer.
Exec(cs, bytes) ==
  LET run[i \in 0..Len(bytes)] ==
        IF i = 0 THEN [cs |-> cs, start |-> 1, end |-> 0, error |-> FALSE]
        ELSE CHOOSE next \in {Scanned(bytes, m, i) : m \in {run[i - 1]}} : TRUE
  IN  run[Len(bytes)]

frob_frame_process(cs, bytes) ==
  LET m == Exec(cs, bytes)
  IN  [e     |-> CASE m.end = 0 -> "EAGAIN"
                   [] m.end # 0 /\ m.error -> "EBADMSG"
                   [] m.end # 0 /\ ~m.error /\ m.cs = "final" -> "found"
                   [] OTHER -> "EAGAIN",
       cs    |-> m.cs,
       start |-> m.start,
       end   |-> m.end]
=============================================================================
