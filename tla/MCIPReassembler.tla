--------------------------- MODULE MCIPReassembler ---------------------------
(* Threads and fragments for TLC.                                           *)
EXTENDS IPReassembler

CONSTANTS t1, t2, first, second, third

Symmetry == Permutations(Threads)

\* The piece from a up to b (exclusive) of a datagram of n blocks labelled by name.
Piece(key, name, n, a, b, sent) ==
  [ key |-> key, offset |-> a, data |-> [i \in 1..(b - a) |-> <<name, a + i - 1>>],
    is_last |-> (b = n), sent |-> sent ]

\* Every way to cut one datagram of three blocks.
AllCuts ==
  { Piece(first, "A", 3, c[1], c[2], 0) :
      c \in {x \in (0..2) \X (1..3) : x[2] - x[1] \in 1..2} }

\* Two datagrams with the same identification, the second sent four time units after
\* the first and longer than a total length can say.
IdentificationReused ==
  { Piece(second, "B", 2, 0, 1, 0), Piece(second, "B", 2, 1, 2, 0),
    Piece(second, "C", 4, 0, 1, 4), Piece(second, "C", 4, 1, 4, 4) }

\* A datagram that was not fragmented.
Whole == Piece(third, "D", 1, 0, 1, 5)

Mixture == AllCuts \cup IdentificationReused \cup {Whole}

\* What the theorems assume of the senders holds of these.
ASSUME SendersAreHonest == HonestSenders
=============================================================================
