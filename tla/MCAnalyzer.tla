------------------------------ MODULE MCAnalyzer ------------------------------
(* Frames, filters and callbacks for TLC.                                   *)
EXTENDS Analyzer

CONSTANTS t1, t2, tcp, udp, c1, c2

\* A frame that only the one filter matches, one that only the other does, one that
\* matches neither and one that cannot be parsed.
AllFrames ==
  { [raises |-> FALSE, matches |-> {tcp}], [raises |-> FALSE, matches |-> {udp}],
    [raises |-> FALSE, matches |-> {}], [raises |-> TRUE, matches |-> {}] }

Registered == <<c1, c2>>
=============================================================================
