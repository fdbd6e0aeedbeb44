-------------------------- MODULE MCStreamReassembly --------------------------
(* Segmentations of the stream for TLC.                                     *)
EXTENDS StreamReassembly

\* Any run of at most three bytes.
AnySegmentation ==
  {s \in (1..StreamLen) \X (2..(StreamLen + 1)) : s[2] - s[1] \in 1..3}
=============================================================================
