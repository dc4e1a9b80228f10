------------------------------- MODULE Slurp -------------------------------
(***************************************************************************)
(* slurp() and eread() (utils.c) in front of the parser: autoresponder and *)
(* frob.c fill a buffer of 256 bytes from d5.txt and parse what they got.  *)
(* read(2) returns any part of what is asked for; the call EINTR restarts  *)
(* is not a step.  A failing close(2) changes nothing unless a read failed *)
(* before, and then the process ends either way.                           *)
(***************************************************************************)
EXTENDS Message

CONSTANTS
  Files,     \* contents of the file, sequences of bytes
  Buffers    \* sizes of the buffer

ASSUME BuffersAssumption == Buffers \subseteq Nat
ASSUME FilesAssumption == Files \subseteq Seq(STRING) /\ NULL \notin Files

VARIABLES file, rest   \* the file's contents, and what of it was not read yet

slurpVars == <<vars, file, rest>>

Room == size - Len(text)

\* The loop of rread goes on until a read returns 0: at the file's end, but
\* also when nothing is asked for any more.
ReadsSome ==
  /\ pc = "read"
  /\ \E l \in 1..Len(rest) :
       /\ l <= Room
       /\ text' = text \o SubSeq(rest, 1, l)
       /\ rest' = SubSeq(rest, l + 1, Len(rest))
  /\ UNCHANGED <<msg, size, todo, free, reach, pc, Parser, file>>

ReadsNothing == pc = "read" /\ (rest = <<>> \/ Room = 0)

\* Slip: a full buffer passes for a whole file.
LeavesRoomOrNone == Len(text) <= size

\* eread: ret < s.
LeavesRoom == Len(text) < size

EreadReturns ==
  /\ ReadsNothing /\ LeavesRoom
  /\ pc' = "header" /\ p' = 1 /\ pe' = Len(text) + 1
  /\ UNCHANGED <<msg, size, todo, free, text, reach, type, at, c, got, file, rest>>

\* xslurp leaves the program: EFBIG, or open(2) or read(2) failed.
Leaves(errno) ==
  /\ pc' = errno
  /\ UNCHANGED <<msg, size, todo, free, text, reach, Parser, file, rest>>

EreadRefuses == ReadsNothing /\ ~LeavesRoom /\ Leaves("EFBIG")
SlurpFails == pc = "read" /\ Leaves("EIO")

SlurpInit ==
  \/ Init /\ file = NULL /\ rest = <<>>
  \/ \E bytes \in Files, s \in Buffers :
       Start(NULL, s, <<>>, <<>>, "read") /\ file = bytes /\ rest = bytes

SlurpNext ==
  \/ ReadsSome \/ EreadReturns \/ EreadRefuses \/ SlurpFails
  \/ Next /\ UNCHANGED <<file, rest>>

SlurpSpec == SlurpInit /\ [][SlurpNext]_slurpVars

-----------------------------------------------------------------------------
(***************************************************************************)
(* What is parsed is the whole file, however read(2) cut it; a file is     *)
(* refused for its size if and only if it does not leave a byte of the     *)
(* buffer, since only that tells its end from the buffer's ("if only part  *)
(* of file was read returns s", utils.c:142).                              *)
(***************************************************************************)
WholeFile ==
  file # NULL =>
    /\ pc \notin {"read", "EFBIG", "EIO"} => text = file
    /\ pc = "EFBIG" => Len(file) >= size
    /\ pc \in {"body", "attributes", "parsed"} => Len(file) < size
=============================================================================
