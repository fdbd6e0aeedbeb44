----------------------- MODULE MCTCPStreamReassembler -----------------------
(* Threads and segments for TLC.                                            *)
EXTENDS TCPStreamReassembler

CONSTANTS t1, t2

Symmetry == Permutations(Threads)

TCP(src, dst, seq, flags, payload) ==
  [ src |-> src, dst |-> dst, seq |-> seq, payload |-> payload,
    syn |-> "S" \in flags, ack |-> "A" \in flags,
    fin |-> "F" \in flags, rst |-> "R" \in flags ]

\* A session opened by endpoint 2 (the larger one, so its data is "s2c"), its
\* data, both FINs and a RST.
Session ==
  { TCP(2, 1, 0, {"S"}, <<>>),
    TCP(1, 2, 0, {"S", "A"}, <<>>),
    TCP(2, 1, 1, {"A"}, <<1>>),
    TCP(2, 1, 2, {"A", "F"}, <<2>>),
    TCP(1, 2, 1, {"A", "F"}, <<>>),
    TCP(1, 2, 1, {"R"}, <<>>) }

\* One half of a second session, to endpoint 3.
SecondSession == { TCP(3, 1, 0, {"S"}, <<>>), TCP(1, 3, 1, {"A"}, <<1>>) }

TwoSessions == Session \cup SecondSession

\* A connection already open when the capture starts.
MidStream == { TCP(2, 1, 1, {"A"}, <<1>>), TCP(2, 1, 2, {"A"}, <<2, 3>>) }
=============================================================================
