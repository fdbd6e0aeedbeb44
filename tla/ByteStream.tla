------------------------------ MODULE ByteStream ------------------------------
(***************************************************************************)
(* What the application is promised of one direction of a connection: the  *)
(* bytes it reads are the stream's, from the first, in order, each once,   *)
(* and none before it was captured.  How much of what was captured is      *)
(* delivered at each step is left open.                                    *)
(***************************************************************************)
EXTENDS Integers, Sequences

CONSTANT StreamLen

VARIABLES out, arrived

vars == <<out, arrived>>

Prefix(n) == [i \in 1..n |-> i]

Init == out = <<>> /\ arrived = {}

Capture ==
  /\ arrived' \in SUBSET (1..StreamLen)
  /\ arrived \subseteq arrived'
  /\ \E n \in Len(out)..StreamLen :
       /\ 1..n \subseteq arrived'
       /\ out' = Prefix(n)

Spec == Init /\ [][Capture]_vars
=============================================================================
