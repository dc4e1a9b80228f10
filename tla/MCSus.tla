------------------------------- MODULE MCSus -------------------------------
(* A chain of three tasks over two slots, as main.c wires its tasks, in any *)
(* order, next to the I/O loop.                                            *)
EXTENDS Sus, TLC

CONSTANTS loop, a, b, c, s0, s1

MCTask == {loop, a, b, c}
MCLender == s0 :> a @@ s1 :> b
MCBorrower == s0 :> b @@ s1 :> c
=============================================================================
