----------------------------- MODULE MCStatistics -----------------------------
(* Packets for TLC.                                                         *)
EXTENDS Statistics

CONSTANTS t1, t2, http

Packet(frame, layers, proto, src, sport, dst, dport, total_length, app, truncated) ==
  [ frame |-> frame, layers |-> layers, proto |-> proto,
    src |-> src, dst |-> dst, sport |-> sport, dport |-> dport,
    total_length |-> total_length, payload |-> (IF total_length > 2 THEN total_length - 2 ELSE 0),
    segment |-> (IF total_length > 2 THEN total_length - 2 ELSE 0),
    app |-> app, truncated |-> truncated, errors |-> truncated ]

\* Both directions of a TCP connection, a UDP datagram a host sends itself from and to
\* one port, a fragment of a TCP segment, a segment whose IP header gives no length, and an
\* ARP frame cut short.
Mixture ==
  { Packet(5, {"ip", "tcp"}, "tcp", 2, 80, 1, 99, 3, http, {}),
    Packet(4, {"ip", "tcp"}, "tcp", 1, 99, 2, 80, 2, Unknown, {}),
    Packet(5, {"ip", "udp"}, "udp", 1, 53, 1, 53, 3, Unknown, {}),
    Packet(3, {"ip"}, "tcp", 2, 0, 3, 0, 2, Unknown, {}),
    [Packet(5, {"ip", "tcp"}, "tcp", 2, 80, 1, 99, 0, http, {}) EXCEPT !.payload = 1, !.segment = 1],
    Packet(2, {}, "none", 0, 0, 0, 0, 0, Unknown, {"ethernet"}) }
Capturers == Permutations(Threads)
=============================================================================
