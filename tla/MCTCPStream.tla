----------------------------- MODULE MCTCPStream -----------------------------
(* Segmentations of the stream for TLC.                                     *)
EXTENDS TCPStream

\* The sender resegments freely: any run of at most three bytes.
AnySegmentation ==
  {s \in (1..StreamLen) \X (2..(StreamLen + 1)) : s[2] - s[1] \in 1..3}

\* The sender repeats what it sent: no two segments share a byte.
OneSegmentation == {<<1, 2>>, <<2, 4>>, <<4, 5>>, <<5, 8>>, <<8, 9>>}
=============================================================================
